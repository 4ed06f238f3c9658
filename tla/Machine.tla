------------------------------- MODULE Machine -------------------------------
(***************************************************************************)
(* The parameters of the core: its value sets, and the combinational       *)
(* blocks of vsrc/ whose result only depends on their inputs, named here   *)
(* as operators of those inputs.  The sequencing of the core, which the    *)
(* other modules model register by register, does not depend on what they  *)
(* compute; the assumptions say the little it does depend on.              *)
(***************************************************************************)
EXTENDS LongOps

CONSTANTS
  Addr,             \* addresses, of instructions and of data
  PCINIT,           \* 64'h80000000
  Loc,              \* the 8-byte locations of the memory
  LocOf(_),         \* the location an address falls in
  AddrOf(_),        \* a value taken as an address
  Reg,              \* register numbers
  X0,               \* register 0
  Half(_, _)        \* (addr, word): the half of word that addr[2] selects

CONSTANTS           \* decoder.sv, over an instruction
  Rd(_), Rs1(_), Rs2(_),
  SizeOf(_),        \* dreq_size: width in bytes, and zero- or sign-extension
  Redirect(_, _, _) \* (instr, rs1, rs2): skip, once ZF is known

CONSTANTS           \* the datapath
  NextAddr(_),         \* (pc): pc + 4
  Target(_, _, _),     \* (instr, rs1, pc): br_out
  AluFn(_, _, _, _),   \* (instr, rs1, rs2, pc): alu_out_t
  Place(_, _),         \* (addr, data): data moved to the lanes of addr
  Merge(_, _, _, _),   \* (width, addr, old, data): old with those lanes of data
  Extract(_, _, _)     \* (size, addr, word): the lanes of word, extended

Width == {1, 2, 4, 8}
Size == [width : Width, unsigned : BOOLEAN]
FetchWidth == 4                    \* MSIZE4 of `IREQ_TO_DREQ

(* decoder.sv:126 leaves the loads out: they write through dstall.         *)
WritesRd(i) == Op(i) \in {"alu", "div", "rem", "mul"}

(* What the instruction port shows while it carries no response.           *)
Idle(a) == Half(a, Zero)

ASSUME ValueSets ==
  /\ X0 \in Reg /\ PCINIT \in Addr
  /\ \A a \in Addr : LocOf(a) \in Loc /\ NextAddr(a) \in Addr
  /\ \A w \in Word : AddrOf(w) \in Addr
  /\ \A a \in Addr, w \in Word : Half(a, w) \in Instr

ASSUME DecoderTypes ==
  \A i \in Instr : /\ Rd(i) \in Reg /\ Rs1(i) \in Reg /\ Rs2(i) \in Reg
                   /\ SizeOf(i) \in Size
                   /\ \A v, w \in Word : Redirect(i, v, w) \in BOOLEAN

ASSUME DatapathTypes ==
  /\ \A i \in Instr, v \in Word, a \in Addr : Target(i, v, a) \in Addr
  /\ \A i \in Instr, v, w \in Word :
       \A a \in Addr : AluFn(i, v, w, a) \in Word
  /\ \A a \in Addr, v \in Word : Place(a, v) \in Word
  /\ \A n \in Width, a \in Addr, v, w \in Word : Merge(n, a, v, w) \in Word
  /\ \A s \in Size, a \in Addr, w \in Word : Extract(s, a, w) \in Word

(* 32'b0 matches no opcode of decoder.sv: it writes nothing, touches no    *)
(* memory, does not jump, and its register fields are all 0.               *)
ASSUME ZeroDecodesToNothing ==
  \A a \in Addr : /\ Op(Idle(a)) = "none"
                  /\ Rs1(Idle(a)) = X0 /\ Rs2(Idle(a)) = X0
                  /\ \A v, w \in Word : ~Redirect(Idle(a), v, w)
=============================================================================
