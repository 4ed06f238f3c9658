----------------------------- MODULE DBusPipeline -----------------------------
(***************************************************************************)
(* class DBusPipelineGen: the test program submits loads, stores and       *)
(* expectations without waiting, the pipeline keeps one of them at a time  *)
(* on the data bus of the model under test.  The model is external: it     *)
(* answers a valid request in any cycle it likes, from a BlockMemory.      *)
(***************************************************************************)
EXTENDS BlockMemory

CONSTANTS Access,      \* the <<width, address>> pairs the program uses
          CellWidth,   \* sizes of the types it keeps in MemoryCells
          MaxTasks     \* tasks are numbered from 1 to MaxTasks

(* The helpers of each width assert that the address is aligned to it      *)
(* (bus.h:722-777), and so does a MemoryCell (cell.h:171).                 *)
ASSUME PipelineAssumption ==
  /\ Access \subseteq {na \in Width \X (0 .. 8 * Words - 1) : Aligned(na[1], na[2])}
  /\ MaxTasks \in Nat \ {0}

VARIABLES dreq,        \* the request port of the model
          ongoing,     \* the queue of tasks
          dest,        \* [tasks -> Word], where the loads of a task go
          verdict,     \* [tasks -> "none" | "pass" | "fail"], of an expectation
          submitted,   \* how many tasks there were
          shadow, want \* history: the bytes of memory with every submitted task
                       \* performed, and what each load or expectation then sees

vars == <<memVars, dreq, ongoing, dest, verdict, submitted, shadow, want>>

TaskId == 1 .. MaxTasks
Junk == [k \in Lane |-> 238]         \* what an uninitialised dest holds

(* What a task should see: its kind, the bytes, and whether they are those *)
(* an expectation names.                                                   *)
Nothing == [kind |-> "none", bytes |-> <<>>, holds |-> FALSE]

Init ==
  /\ MemInit
  /\ dreq = [valid |-> FALSE, addr |-> 0, strobe |-> {}, data |-> ZeroWord]
  /\ ongoing = <<>> /\ submitted = 0
  /\ dest = [t \in TaskId |-> Junk] /\ verdict = [t \in TaskId |-> "none"]
  /\ shadow = [b \in Address |-> 0] /\ want = [t \in TaskId |-> Nothing]
-----------------------------------------------------------------------------
(* Tasks.  room is the size of the object dest points at: that of the      *)
(* type, but for a MemoryCell a uint32_t.                                  *)
Task(t, a, data, s, kind, op, room) ==
  [id |-> t, addr |-> a, data |-> data, strobe |-> s, kind |-> kind,
   load_op |-> op, room |-> room]
LoadTask(t, n, a) == Task(t, a, ZeroWord, {}, "load", parse(n, a), n)
CellTask(t, n, a) == Task(t, a, ZeroWord, {}, "cell", parse(n, a), 4)
ExpectTask(t, n, a, v) ==
  Task(t, a, place(parse(n, a), v), {}, "expect", parse(n, a), 0)
StoreTask(t, n, a, v) ==
  Task(t, a, place(parse(n, a), v), OpStrobe(parse(n, a)), "store", SIZE8_SHT0, 0)

Request(t) ==
  [valid |-> TRUE, addr |-> t.addr, strobe |-> t.strobe, data |-> t.data]

is_load(t) == t.strobe = {}
busy == dreq.valid
empty == ongoing = <<>>

(* GenericBusInterface::load waits for its answer (fence).                 *)
Fencing == \E i \in DOMAIN ongoing : ongoing[i].kind = "cell"
Failed == \E t \in TaskId : verdict[t] = "fail"

(* Mutant: a task submitted to a busy bus takes it over.                   *)
submit_at_once(t) ==
  /\ ongoing' = Append(ongoing, t)
  /\ dreq' = Request(t)
submit(t) ==
  /\ ongoing' = Append(ongoing, t)
  /\ dreq' = IF busy THEN dreq ELSE Request(t)

(* A call of load, store or expect in one of its widths, or of get on a    *)
(* MemoryCell.                                                             *)
SubmitLoad(id, n, a) ==
  LET bytes == [k \in 0 .. n - 1 |-> shadow[a + k]]
      Want(kind, holds) ==
        want' = [want EXCEPT ![id] = [kind |-> kind, bytes |-> bytes, holds |-> holds]]
  IN  /\ \/ submit(LoadTask(id, n, a)) /\ Want("load", TRUE)
         \/ n \in CellWidth /\ submit(CellTask(id, n, a)) /\ Want("cell", TRUE)
         \/ \E v \in Value : /\ submit(ExpectTask(id, n, a, v))
                              /\ Want("expect", \A k \in 0 .. n - 1 : v[k] = bytes[k])
      /\ UNCHANGED shadow

SubmitStore(id, n, a) ==
  \E v \in Value :
    /\ submit(StoreTask(id, n, a, v))
    /\ shadow' = [b \in Address |-> IF b \in a .. a + n - 1 THEN v[b - a] ELSE shadow[b]]
    /\ UNCHANGED want

Submit ==
  /\ submitted < MaxTasks /\ ~Fencing /\ ~Failed
  /\ submitted' = submitted + 1
  /\ \E na \in Access : \/ SubmitLoad(submitted + 1, na[1], na[2])
                        \/ SubmitStore(submitted + 1, na[1], na[2])
  /\ UNCHANGED <<memVars, dest, verdict>>
-----------------------------------------------------------------------------
(* Apply the answer to the task at the head.  A cell's bytes past the      *)
(* object are lost, and read as zeros of a word_t.                         *)
applied(t, data) ==
  LET full == applyTo(t.load_op, data, IF t.kind = "cell" THEN ZeroWord ELSE Junk)
  IN  [k \in Lane |-> IF k < t.room THEN full[k]
                      ELSE IF t.kind = "cell" THEN 0 ELSE Junk[k]]

(* Mutant: the whole word is compared.                                     *)
matches_word(t, data) == t.data = data
matches(t, data) == \A k \in OpMask(t.load_op) : t.data[k] = data[k]

Pop(data) ==
  LET t == Head(ongoing) IN
  /\ ongoing' = Tail(ongoing)
  /\ dest' = IF t.kind \in {"load", "cell"} THEN [dest EXCEPT ![t.id] = applied(t, data)]
             ELSE dest
  /\ verdict' = IF t.kind = "expect"
                THEN [verdict EXCEPT ![t.id] = IF matches(t, data) THEN "pass" ELSE "fail"]
                ELSE verdict

(* Mutant: an answer frees the bus, but the next task is not issued.       *)
reissue_never(q) == IF q = ongoing THEN dreq ELSE [dreq EXCEPT !.valid = FALSE]
reissue(q) == IF q = <<>> THEN [dreq EXCEPT !.valid = FALSE] ELSE Request(Head(q))

(* The model's clock edge: a store takes effect with its answer.           *)
Model(data_ok) ==
  IF data_ok /\ dreq.strobe # {} THEN store(dreq.addr, dreq.data, device_mask(dreq.strobe))
  ELSE UNCHANGED memVars

tick(data_ok) ==
  /\ ~Failed
  /\ data_ok => busy
  /\ Model(data_ok)
  /\ IF data_ok THEN Pop(load(dreq.addr)) ELSE UNCHANGED <<ongoing, dest, verdict>>
  /\ dreq' = reissue(ongoing')
  /\ UNCHANGED <<submitted, shadow, want>>

Next == Submit \/ \E data_ok \in BOOLEAN : tick(data_ok)

Spec == Init /\ [][Next]_vars

(* fence(), also run by the destructor, ticks as long as a task is left;   *)
(* the model answers a request that stays up.                              *)
FairSpec == Spec /\ WF_vars(tick(TRUE))
-----------------------------------------------------------------------------
(* The request on the bus is that of the head of the queue, always: the    *)
(* internal assertion of tick() holds and no answer is taken for another.  *)
HeadOnBus ==
  /\ busy <=> ~empty
  /\ ~empty => dreq = Request(Head(ongoing))

Answered(t) == t <= submitted /\ \A i \in DOMAIN ongoing : ongoing[i].id # t
Received(t) == [k \in DOMAIN want[t].bytes |-> dest[t][k]]

(* Each load finds what the program stored before it and nothing it stored *)
(* after it, and writes the bytes of its width and no others.              *)
LoadsInProgramOrder ==
  \A t \in TaskId :
    Answered(t) /\ want[t].kind \in {"load", "cell"} =>
      /\ Received(t) = want[t].bytes
      /\ want[t].kind = "load" =>
           \A k \in Lane \ DOMAIN want[t].bytes : dest[t][k] = Junk[k]

(* An expectation fails when the memory the program has built differs from *)
(* it in the bytes of its width, and only then.                            *)
ExpectationsExact ==
  \A t \in TaskId :
    Answered(t) /\ want[t].kind = "expect" =>
      verdict[t] = IF want[t].holds THEN "pass" ELSE "fail"

(* Once all is quiet the memory is what the program's stores make of it.   *)
QuietMemory == empty => \A b \in Address : mem[b \div 8][b % 8] = shadow[b]

(* What a MemoryCell of any of the "supported memory widths" (cell.h:145)  *)
(* is read as, is what is in memory.                                       *)
CellHoldsItsType ==
  \A t \in TaskId :
    Answered(t) /\ want[t].kind = "cell" => Received(t) = want[t].bytes

(* fence() comes to an end.                                                *)
Drains == ~empty ~> (empty \/ Failed)
=============================================================================
