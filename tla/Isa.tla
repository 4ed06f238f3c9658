--------------------------------- MODULE Isa ---------------------------------
(***************************************************************************)
(* What the core promises difftest: one instruction at a time, in program  *)
(* order, each with its whole effect on the registers and the memory, and  *)
(* then one commit that reports it.                                        *)
(***************************************************************************)
EXTENDS Machine

VARIABLES
  pc,        \* the next instruction
  regs,      \* the general registers
  mem,       \* the memory, a word for each location
  current,   \* the instruction executed and not yet reported, or None
  commit     \* the commit on show in this cycle, or None

isaVars == <<pc, regs, mem, current, commit>>

None == [kind |-> "none"]
Issued(a, rd) == [kind |-> "issued", pc |-> a, wdest |-> rd]
(* DifftestInstrCommit and DifftestArchIntRegState of one cycle.           *)
Committed(a, rd, value, view) ==
  [kind |-> "commit", pc |-> a, wdest |-> rd, wdata |-> value, gpr |-> view]

Init ==
  /\ pc = PCINIT
  /\ regs = [r \in Reg |-> Zero]
  /\ mem \in [Loc -> Word]
  /\ current = None /\ commit = None

Fetched == Half(pc, mem[LocOf(pc)])
(* The value an instruction writes to its destination register.            *)
Result(i, a, b) ==
  CASE Op(i) = "alu"  -> AluFn(i, a, b, pc)
    [] Op(i) = "div"  -> DivFn(i, a, b)
    [] Op(i) = "rem"  -> RemFn(i, a, b)
    [] Op(i) = "mul"  -> MulFn(i, a, b)
    [] Op(i) = "load" -> LET from == AddrOf(AluFn(i, a, b, pc))
                         IN  Extract(SizeOf(i), from, mem[LocOf(from)])

StoreTo(i, to, value) ==
  [mem EXCEPT ![LocOf(to)] = Merge(SizeOf(i).width, to, @, Place(to, value))]

Execute ==
  LET i == Fetched
      a == regs[Rs1(i)]
      b == regs[Rs2(i)]
      writes == (WritesRd(i) \/ Op(i) = "load") /\ Rd(i) # X0
  IN  /\ current = None
      /\ pc' = IF Redirect(i, a, b) THEN Target(i, a, pc) ELSE NextAddr(pc)
      /\ regs' = IF writes THEN [regs EXCEPT ![Rd(i)] = Result(i, a, b)] ELSE regs
      /\ mem' = IF Op(i) = "store"
                THEN StoreTo(i, AddrOf(AluFn(i, a, b, pc)), b) ELSE mem
      /\ current' = Issued(pc, IF writes THEN Rd(i) ELSE X0)
      /\ commit' = None

Commit ==
  /\ current # None
  /\ commit' = Committed(current.pc, current.wdest, regs[current.wdest], regs)
  /\ current' = None
  /\ UNCHANGED <<pc, regs, mem>>

(* A cycle that reports nothing and starts nothing.                        *)
Quiet == commit' = None /\ UNCHANGED <<pc, regs, mem, current>>

Next == Execute \/ Commit \/ Quiet
Spec == Init /\ [][Next]_isaVars
=============================================================================
