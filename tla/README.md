# A verified model of the core

The repository is a 64-bit RISC-V core written in SystemVerilog (`vsrc/`) for a
computer-architecture course, with a C++ simulation framework (`verilate/`). This
directory models the core, register by register, together with its bus and its
memory; checks it on small machines with TLC; and proves its safety properties, and
that it executes its instruction set, for every machine with TLAPS. Around the core
it models the iterative units bit by bit, the byte lanes of loads and stores, the
cache bus with its two implementations, alone and shared by many masters, and of the
test benches the pipelined bus driver, the peripheral registers with the thread that
feeds them, and the processes that run tests in parallel.

The core is not pipelined. It fetches an instruction, executes it, and fetches
the next one. What makes it hard to get right is that **nothing in it says so**:
there is no state machine of the core, and no interlock. There are eleven
modules with a register or two each, wired so that each one's outputs happen to
be quiet while another one is at work. Fetching restarts before a load or store
has reached the bus; a store is reported before it is done; the commit that
difftest sees is two cycles old; half of the registers have no reset. The
properties below say what that wiring must achieve, and the proof says why it
does.

## 1. Inventory

### 1.1 The core and its bus (`vsrc/`)

| Component | State | Operations | Talks to |
|---|---|---|---|
| Fetch: `ifu.sv`, `pc.sv`, `pcnxt.sv` | `pc_reg`, `pc_delay` | on a completed fetch, save the pc and move to pc + 4 or the branch target; asynchronous reset | instruction bus; `skip` of decode, `br_out` of exu |
| Decode: `idu.sv`, `decoder.sv`, `sext.sv` | `DM_R`, `DM_W`, `RD_M_reg`, `RF_W_reg`, `rdc_reg`, `rs2c_reg`, `dreq_size` | latch the controls of a fetched instruction; clear them when it completes (`rst` is wired to `exu_data_ok`) | everything |
| Execute: `exu.sv` | `exu_valid`, `data_ok`, `alu_out` | start on a completed fetch; complete in a cycle, or when a unit does | fetch (`ifu_valid = ~exu_valid`), decode, commit |
| Divider, multiplier: `divide.sv`, `multiply.sv` | state, step counter, working registers, `data_ok` and results | start from `IDLE` when the decoder shows a long operation; iterate; show the result for a cycle | exu |
| ALU, branch target, multiplexers: `alu.sv`, `br.sv`, `mux/*.sv` | none | combinational | |
| Registers: `rrwu.sv`, `regfile.sv` | 32 registers, two bypasses `isequal_rdrs*`/`temprs*` | write (never x0), synchronous reset; reads through the bypass | |
| Memory access: `mem.sv` | the request `dreq` | put up a load or store; take it down on the answer; place and extract byte lanes | data bus |
| Commit: `cpu.sv`, `core.sv` | `valid`, `valid_tem2`, and the register write of the last two cycles | report to difftest, two cycles late | difftest |
| Converters: `DBusToCBus.sv`, `IBusToCBus.sv` | none | data and instruction bus to cache bus | |
| Arbiter: `CBusArbiter.sv` | `busy`, `index` | take up a request, lowest index first; let go after the last response | both masters, the memory |
| Other: `CBusToAXI.sv`, `CBusMultiplexer.sv`, `SimpleArbiter.sv` | the bridge: channels in issue, beat count | not instantiated by `SimTop.sv` | |

### 1.2 The simulation framework (`verilate/`)

| Component | State | Operations |
|---|---|---|
| `CBusDevice` (`cbus_device.cpp`, `axi.h`) | transaction `tx`, `enable`, latched strobe and data | answer, accept, check the request (five assertions), write, pause at random |
| `BlockMemory`, `MemoryRouter` (`memory.cpp`) | words; a table of prefixes | load, masked store, reset to the saved image, load an image |
| `Confreg` (`confreg.cpp`) | registers, pending changes, two contexts, UART queue shared with a thread | load, store, sync, reset, open and close of the terminal |
| Bus drivers (`bus.h`, `cell.h`) | queue of tasks | blocking load/store, pipelined load/store, fence |
| Runner (`testbench.cpp`) | list of tests; of `run_parallel` two pipes per worker, who has asked, counters | serial run; fork workers, hand out tests on request, notice a death, kill and wait |
| `ThreadWorker` (`common.cpp`) | a flag shared with a detached thread | start, stop, move |
| `ModelBase`, `ProgramRunner`, parsing, logging | files, options, the number completed last | input and output; `checkout_confreg` |

`SimTop.sv` connects the bus to `RAMHelper2`, which belongs to difftest, a
submodule this repository does not contain. The memory that the repository does
contain on the other end of this bus is `CBusDevice`, so that is the memory of
the model. It allows more than a fixed-latency RAM does: it may sit out any
cycle. (Its wrapper clears address bit 31, `bus.h:345`; `LocOf` stands for that.)

### 1.3 What makes each part correct

- Fetch, decode, execute: one instruction at a time, though no register says so
  (`OneInFlight`); exactly one completion for each (`OneCompletion`).
- Registers: an operand is the register's value, never the bypass's
  (`BypassNeverStale`).
- Bus: a request does not change during its transaction (`BusStable`), every
  fetch is served although the data bus has priority (`FetchServed`).
- Commit: difftest sees the program, in order, with the registers each
  instruction leaves (`ImplementsIsa`), is never told to look away
  (`CommitNeverSkipped`), and never waits for ever (`Progress`).
- Reset: nothing from before it survives it (`ResetClearsRegs`, which the code
  violates).
- Units: the quotient, remainder and low product of the M extension, for every
  operand, sign and width (`ImplementsDivUnit`, `ImplementsMulUnit`).
- Byte lanes: the memory is a memory of bytes, to the core and to the test bench
  (`ImplementsByteMemory`); an image loaded into it is there (`ImageIsLoaded`,
  which the code violates).
- Cache bus: the beats of a burst in wrapping order, the last one marked, and a
  read sees every write the master was told is done (`ImplementsCBus` of the
  device, `BridgeImplementsCBus` of the AXI bridge), whatever burst is asked for
  (`SanityChecks`, `BurstsWellFormed`); no request waits for ever (`Served`,
  `BridgeServes`).
- Shared bus: behind the arbiter the device meets one master (`BusHasOneMaster`),
  each master a bus of its own (`EachPortIsABus`), and none waits for ever but
  behind a higher priority (`OnlyHigherStarves`).
- Peripherals: the characters typed are read in order and once (`InputInOrder`,
  `InputIsServed`), a load gives the same when it is evaluated again
  (`LoadsRepeat`), what is stored is shown once and kept (`OutputOnce`), and the
  number monitor aborts only programs that deserve it (`MonitorIsFair`).
- Test runner: each test runs once (`RunsOnce`), no command is written to nobody
  (`CommandsAreAwaited`), the number reported is true (`CountIsTrue`), a failure
  ends the run (`FailureEndsRun`) and nobody outlives it (`NoOrphans`,
  `WorkersExit`).
- Bus driver: queued loads and expectations see program order
  (`LoadsInProgramOrder`, `ExpectationsExact`, `QuietMemory`), answers go to the
  task they are for (`HeadOnBus`), a fence ends (`Drains`), and a memory cell
  reads back whole (`CellHoldsItsType`, which the code violates).

`PROJECT.json` lists the hazards one by one, at the line where each bites.

## 2. The modules

```
LongOps ── DivUnit MulUnit ── Exu                            refined by Divide, Multiply
   └ Machine ── Ifu Idu (Exu) Regfile Memu CBusDevice   CBusArbiter
                 └───────────────┬────────────────────────┘
                              SimTop
             ┌──────────┬────────┴───┐
  Isa ── SimTopIsa  SimTopInv    MCMachine ── SimTopWarm
             ├──────────┤            │
             │   SimTopProofs        │
             └── MCSimTop ───────────┘

Lanes ── BlockMemory ─┬─ DBusPipeline ── MCDBusPipeline
  └── ByteMemory      │        └── MemoryProofs ──┐
         └── (refined by) MemLanes ───────────────┘
                             │
MulDiv ─┬─ Multiply ─────────┴── Datapath ── DatapathProofs
        └─ Divide ──────────────────┘              │
             └─ DivideProofs (+ Arithmetic) ───────┘

CBusPort ─┬─ BurstDevice ── SharedBus (+ CBusArbiter) ── MCSharedBus
          ├─ AXIBridge           └── CBusProofs (+ AXIBridge, Arithmetic)
          └─ CBus   (refined by BurstDevice, by AXIBridge and by each port of SharedBus)

ThreadWorker ── Confreg ─┬─ MCConfreg       RunParallel ── RunParallelProofs
                         └─ ConfregProofs
```

- **`Machine`** - the parameters: words, addresses, registers, memory locations,
  and the combinational blocks as constant operators: what the decoder says of
  an instruction (`Op`, `Rd`, `Rs1`, `Rs2`, `SizeOf`, `Redirect`), the ALU, the
  branch target, the results of the units, the byte lanes. Four assumptions:
  value sets, types of the decoder, types of the datapath, and
  `ZeroDecodesToNothing`: the 32-bit zero the core sees on a bus that is not
  its own matches no opcode.
- **`Ifu`, `Idu`, `Exu`, `Regfile`, `Memu`, `CBusArbiter`, `CBusDevice`** - one
  module per component: its registers as variables, `XInit` from the power-up
  values, `XPosedge(inputs)` for its `always_ff` blocks, `XReset` where it has an
  asynchronous reset. Each disjunct of a `Posedge` is a path through the code's
  `if`s; where two assignments meet in one cycle the later one wins, as in the
  code.
- **`SimTop`** - `cpu.sv`, `core.sv`, `SimTop.sv` and the converters. A wire is an
  operator of the registers, with the source's name. `Posedge` is one clock edge
  out of reset: every component's registers move together. `PosedgeInReset` is
  an edge in reset, `ReleaseReset` the end of it. One step is one clock cycle,
  so a combinational path is exact: `iresp_data_ok`, say, is the memory's answer
  through arbiter and converter in the same cycle.
- **`Isa`** - the abstract specification: an instruction executes in one step, its
  whole effect at once, and one commit reports it, with the registers it left.
- **`SimTopIsa`** - the refinement mapping from `SimTop` to `Isa`. An instruction
  takes effect in the abstract when its fetch completes; `regsBar` and `memBar`
  bring forward the register write and the store the concrete machine still has
  to do.
- **`SimTopInv`** - the phases of the core, and the inductive invariant.
- **`SimTopWarm`** - resets after the first, as between two tests of a test bench.
- **`SimTopProofs`**, **`MemoryProofs`** (`DBusPipeline` and `MemLanes`),
  **`CBusProofs`** (`BurstDevice`, `SharedBus` and `AXIBridge`), **`DivideProofs`**,
  **`DatapathProofs`** (`Multiply` and `Datapath`), **`ConfregProofs`**,
  **`RunParallelProofs`** - the theorems; **`Arithmetic`** - division, remainders,
  products and powers of two, for them.
- **`LongOps`, `DivUnit`, `MulUnit`** - `divide.sv` and `multiply.sv` as `exu.sv`
  sees them: two states, a step counter, and the result that is on its way.
- **`Divide`, `Multiply`** - the same units with their working registers, at a width
  `XLEN = 2 * H` of bits instead of 64; a bit vector is the number it denotes.
  `MulDiv` holds the reference: what the M extension asks for, on integers, and
  the powers of two (`Pow2`) that widths and shifts come to. The
  units keep, for the properties only, the request in execution (`op`).
- **`Datapath`** - divider, multiplier and lanes in one specification, of which one
  is at work in a behaviour; it is only there to be checked.
- **`Lanes`** - strobe, placement and extension of `mem.sv`; `LoadOp` of `bus.h`; the
  device's masks. **`BlockMemory`** - the array behind the device, and the image
  loader. **`MemLanes`** - both clients on one memory, which must be a
  **`ByteMemory`**.
- **`CBusPort`, `CBus`** - a port of the cache bus and its master; what the bus
  promises. **`BurstDevice`** - `CBusDevice` with bursts of `axi.h` (the `CBusDevice`
  of `SimTop` is its case of one beat). **`AXIBridge`** - `CBusToAXI.sv` over an
  external AXI slave. In both a step is a clock cycle, `resp` the answer of the
  cycle that has ended and `req` the request of the next one.
- **`SharedBus`** - `BurstDevice` and `CBusArbiter` in one clock, with `NUM_INPUTS`
  masters that ask for what they like (`PortRequests`) and keep to the protocol on
  their own port; or, if `direct`, one master and no arbiter.
- **`RunParallel`** - `run_parallel` and `run_worker`. A step is a system call of
  one process with what follows up to its next one. A pipe holds at most one
  message; which processes have its ends open (`CommandEndOpen`,
  `RequestEndOpen`) follows from who was forked when and closed what, and decides
  whether a read ends or waits and whether a write kills its writer. What a test
  does (`fate`) is any function of the tests. The `exited` of the code is the number of
  workers not in `listening`.
- **`ThreadWorker`** - a worker, its flag on the heap and its detached thread.
- **`Confreg`** - the peripheral registers. A cycle of the simulation is at most one
  store or any number of loads of the UART, then `sync` in two steps (the pop,
  under the lock, and the rest, without it), then `checkout_confreg`; the order of
  these is external, since the models' `tick` is not in the repository. Between any
  two of them the thread takes a step: it tests its flag, reads a character,
  locks, looks up the end of the queue, and writes there. Resets and the
  destructor come between cycles. `received`, `dropped`, `put`, `shown`, `latest`
  and `wrong` are history.
- **`DBusPipeline`** - the queue of `DBusPipelineGen` over an external model that
  answers when it likes. A step is a call of the test program or a `tick`.
  `shadow` and `want` are history: the memory the program has asked for, and what
  each task should therefore see.
- **`MC*`** - instances for TLC.

### What is abstracted

| Code | Model |
|---|---|
| 64-bit values | the set `Word` |
| decoder tables, ALU, branch comparison | constant functions of (instruction, operands, pc), the same function wherever they are used |
| 64 iterations of a unit on its working registers | in `SimTop`, the result they lead to, carried in the unit, and `CN` steps: the abstraction `Divide` and `Multiply` are shown to implement |
| write strobe | the flag `is_write` and `Merge(width, address, ...)`, since the strobe is a function of width and address; a zero strobe marks a read, as in the code |
| byte lanes | in `SimTop`, the functions `Place`, `Merge`, `Extract`; in `Lanes`, sets of lanes and functions on them |
| burst fields | in `SimTop`, left out: the converters always ask for one beat |
| a program that loads and stores peripheral registers | any sequence of the stores of `Stores` and loads of `UART_RXD`, the only load with an effect; `LED` stands for all registers without rules |
| words of the peripheral registers | two halves: of `NUM` the number completed and its acknowledgement, elsewhere the upper 16 and lower 16 bits, or nothing and the byte |
| CPU affinity, status lines, defers | left out |
| size and strobe of a burst's beats | in `BurstDevice` and `AXIBridge`, whole beats; the strobe's masks are in `Lanes` |
| `saved_req` of the arbiter, trap and CSR events, interrupts | left out: unused or constant in the code |
| latches and registers Verilator starts | at zero, as the simulation does |

Two constants stand for what the source leaves open. `RawLoads` says which of
the two drivers of `dmem_out` in `mem.sv` a build keeps; they disagree, see
section 5. `IdleData` is what the data lines carry in a cycle without a
response: `{0}` for `CBusDevice` (`bus.h:300`), anything for a bus like that of
`CBusToAXI.sv:98`.

## 3. The runs

| Run | Checks | Shows |
|---|---|---|
| `simtop` | `TypeOK`, `PhaseInv`, `BusStable`, `OneInFlight`, `OneCompletion`, `BypassNeverStale`, `CommitNeverSkipped`, `ImplementsIsa`, `Progress`, `FetchServed` | the core on its bus is correct and never stops |
| `simtop_long` | `UnitsStartOnData` (violated) | finding 2 |
| `simtop_raw` | `ImplementsIsa` (violated) | finding 3 |
| `simtop_warm` | `ResetClearsRegs` (violated) | finding 1 |
| `datapath` | `UnitsTypeOK`, `LoopInvariants`, `ImplementsDivUnit`, `ImplementsMulUnit`, `ImplementsByteMemory` | what the registers of the divider and the multiplier mean at every step, and that their results are right; loads and stores of every width, from both clients, are those of bytes |
| `mem_image` | `ImageIsLoaded` (violated) | finding 4 |
| `dbus_pipeline` | `HeadOnBus`, `LoadsInProgramOrder`, `ExpectationsExact`, `QuietMemory`, `Drains` | the pipelined driver keeps program order |
| `dbus_cell` | `CellHoldsItsType` (violated) | finding 5 |
| `shared_bus` | `SanityChecks`, `ImplementsCBus`, `Served`, `BusHasOneMaster`, `EachPortIsABus`, `OnlyHigherStarves` | `CBusDevice` is a cache bus, and `CBusArbiter` makes it one for each of several masters |
| `axi_bridge` | `BurstsWellFormed`, `BridgeImplementsCBus`, `BridgeServes` | `CBusToAXI` is one too |
| `run_parallel` | `RunsOnce`, `CommandsAreAwaited`, `CountIsTrue`, `NoOrphans`, `FailureEndsRun`, `WorkersExit` | the processes of a parallel test run do what they are for, whatever the tests do |
| `confreg` | `InputInOrder`, `OutputOnce`, `MonitorIsFair`, `LoadsRepeat`, `InputIsServed` | the peripheral registers and the thread beside them agree on every character |

**Bounds.**

- `simtop`: the machine of `MCMachine` has ten words, which are also the
  instructions (so stores rewrite the program), x0 and two more registers, two
  memory words of two instructions each, and four addresses. The instructions
  cover every group of the decoder: ALU, a branch, a jump that links, loads (full
  width and narrow), a store, division, remainder, multiplication, and one that
  does nothing. The datapath functions are arbitrary but tell their arguments
  apart, so a wrong operand, address or lane is a wrong result. `CN = 2` steps per
  long operation. The initial memory is **every** one of the hundred possible, so
  every program of that size is run, under every pattern of pauses of the memory,
  with data lines that carry 0 or a load or store (`IdleData = {0, 2}`) in cycles
  without an answer. No counter is unbounded, so nothing is cut off. That is enough
  for the cases that matter: ordered pairs of instructions, with equal and different
  registers, in every overlap with the bus; loads after stores to the same and to
  the other word; stores to the instruction fetched next; x0 as a destination;
  early and late division.
- `datapath`: three independent parts, of which one is at work in a behaviour.
  Divider and multiplier: `H = 2`, words of four bits, halves of two: every pair of
  operands, so division by zero, the overflow of -8 / -1 and of the word form's
  -2 / -1, and equal magnitudes are among them. Resets arrive at chosen step
  counts (`ResetCn`), since one in the middle is like another. The `always_comb` and
  concatenations of the code have the same shape at every even width.
  Lanes: one word of memory (a lane is what a word's bytes can confuse), every
  width, aligned address and sign, two words to store, one or two stores
  (`MaxStores`). Unaligned accesses are left out: the core's select bits beyond
  the word, which is not specified, and the bench's assert against them.
- `dbus_pipeline`: three tasks, one on the bus and two behind it, in any mix of
  loads, stores and expectations, of widths that nest and touch. `CHECK_DEADLOCK`
  is off: a failed expectation aborts the test program.
- `shared_bus`: a memory of four beats. The single master asks for bursts of one,
  two and four from the start, the middle and the end of a block, and from an
  unaligned address. Behind the arbiter are three masters, the fewest of which
  two can starve a third: one writes two beats, one reads four from the last beat
  on, so that it wraps, and one does shorter ones of both kinds over the same
  words. Each asks again when it likes, at once or never.
- `run_parallel`: three workers, so that one has inherited the pipes of two others,
  and three tests, each of which passes, fails or hangs: fewer than the workers
  can ask for, and more than one worker's. Deadlock is not checked: a run
  ends, and a test may hang for good.
- `confreg`: three characters (`MaxTyped`), two stores (`MaxStores`) and one reset
  (`MaxResets`), at any time, and the destructor. Two characters show an order
  and a third comes while one is popped; two stores are two in one
  cycle's distance, or a number out of order. `CHECK_DEADLOCK` is off: an assertion
  ends the simulation.
- `axi_bridge`: a memory of two beats, bursts of one and two. The slave takes
  address and data in any order and any cycle.

**Fairness.** `LiveSpec` of `SimTop` assumes that the clock runs with the memory
enabled again and again (`WF_vars(Posedge /\ enable')`; `cbus_device.cpp:82` draws
`enable` anew after each cycle, with `p_disable` less than 1), and that reset is
released. Nothing is assumed about arbiter or units. `DeviceSpec` assumes the same
of the device, and `SharedSpec` of the device behind the arbiter (as two conjuncts,
`WF_sharedVars(SharedCycle)` and `[]<>enable`); no master need ask. `BridgeSpec`
assumes that the clock runs and that the slave answers on each channel in the end;
nothing of the master. `FairSpec` of `DBusPipeline` assumes that the model answers
and that the program ticks while a task is left, which is the loop of `fence`
(`bus.h:792`); it need not submit anything. `RunParallel` assumes of each process
that it runs when it can, as the operating system lets it; a fork may fail or not,
and a test that hangs never ends. `Confreg` assumes that the simulation goes on from
one cycle to the next and that the thread runs, except at `fgetc`: nobody need type.

Deadlock is checked in every run but `dbus_pipeline`, `dbus_cell`, `run_parallel` and
`confreg`; the clock can always tick.

## 4. The proofs

Every safety property of a passing run is a theorem, for every value of the
constants. 35 theorems in seven modules, three of them with a hypothesis
that a finding of section 5 shows to be needed or that the idle data lines of
`CBusDevice` meet:

| Module | Theorem | Statement |
|---|---|---|
| `SimTopProofs` | `TypeCorrect` | `Spec => []TypeOK` |
| | `PhaseCorrect` | `Spec => []PhaseInv` |
| | `BusIsStable` | `Spec => []BusStable` |
| | `OneInstructionInFlight` | `Spec => []OneInFlight` |
| | `OneCompletionAtATime` | `Spec => []OneCompletion` |
| | `BypassIsNeverStale` | `Spec => []BypassNeverStale` |
| | `CommitIsNeverSkipped` | `Spec => []CommitNeverSkipped`, if no value in `IdleData` looks like a jump |
| | `CoreImplementsIsa` | `Spec => ImplementsIsa`, if `RawLoads = FALSE` |
| `DivideProofs` | `DividerLoops` | `Spec => [](TypeOK /\ LoopInvariant)`, at every even width |
| | `DividerDivides` | `Spec => ImplementsDivUnit`, likewise |
| `DatapathProofs` | `MultiplierLoops` | `MultiplySpec => [](MulTypeOK /\ MulLoopInvariant)`, likewise |
| | `MultiplierMultiplies` | `MultiplySpec => ImplementsMulUnit`, likewise |
| | `UnitsAreTyped` | `PartsSpec => []UnitsTypeOK`, likewise |
| | `UnitsLoop` | `PartsSpec => []LoopInvariants`, likewise |
| `MemoryProofs` | `HeadIsOnBus` | `Spec => []HeadOnBus`, for any program, number of tasks and answers |
| | `LoadsAreInOrder` | `Spec => []LoadsInProgramOrder`, likewise, if no cell is wider than four bytes |
| | `ExpectationsAreExact` | `Spec => []ExpectationsExact`, likewise, with any cells |
| | `QuietMemoryIsBuilt` | `Spec => []QuietMemory`, likewise |
| | `MemoryIsOfBytes` | `LanesSpec => ImplementsByteMemory`, for any memory and values |
| `CBusProofs` | `AssertionsHold` | `DeviceSpec => []SanityChecks`, for any memory, bursts of any length from any address, and pauses anywhere |
| | `DeviceIsACBus` | `DeviceSpec => ImplementsCBus`, likewise |
| | `OneMaster` | `SharedSpec => BusHasOneMaster`, for any number of masters and any requests |
| | `SharedAssertionsHold` | `SharedSpec => []SanityChecks`, likewise |
| | `EveryPortIsABus` | `SharedSpec => EachPortIsABus`, likewise |
| | `SharedDeviceIsACBus` | `SharedSpec => ImplementsCBus`, likewise |
| | `BurstsAreWellFormed` | `BridgeSpec => []BurstsWellFormed`, for bursts of any length |
| | `BridgeIsACBus` | `BridgeSpec => BridgeImplementsCBus`, likewise |
| `RunParallelProofs` | `EachTestOnce` | `Spec => []RunsOnce`, for any number of workers and tests, and whatever the tests do |
| | `NoCommandIsLost` | `Spec => []CommandsAreAwaited`, likewise |
| | `ReportIsTrue` | `Spec => []CountIsTrue`, likewise |
| | `NoWorkerOutlives` | `Spec => []NoOrphans`, likewise |
| `ConfregProofs` | `CharactersInOrder` | `Spec => []InputInOrder`, for any number of characters, stores and resets |
| | `LoadsAreRepeatable` | `Spec => LoadsRepeat`, likewise |
| | `StoresAreShown` | `Spec => []OutputOnce`, likewise |
| | `MonitorAbortsFairly` | `Spec => []MonitorIsFair`, likewise |

(`Arithmetic` has lemmas only.)

**The core.** `SimTopProofs` holds for every set of words, every program, decoder
and datapath that meets the assumptions of `Machine`, every number of steps of the
units, and any pauses of the memory. None of the safety properties is inductive:
that a fetch completes with nothing else going on depends on what every other
register has been doing. `PhaseInv` says what that is. At every clock the core is
in one of five phases:

```
Fetching ── answer ──> Completing ── load/store ──> Accessing ── answer ──> Fetching
    │                       └────── otherwise ────────────────────────────> Fetching
    └── answer to a long operation ──> Computing ──> Computed ───────────> Fetching
```

and each phase lists what is quiet in it. Two parts carry the argument. The
*bus* part: whoever owns the bus is the master the phase allows, and a
transaction in the memory matches the request its owner still makes
(`TxMatches`). The *drain* part: the previous commit leaves its two-stage
pipeline while the arbiter is still taking up the request (`Draining`), which
uses up the one cycle of latency the arbiter adds to every request and the one
the memory adds; so it is out before the next answer. `PowerUp` ties the reset
to the first phase, and `NoBypass` says that the bypasses of `regfile.sv` are
never taken at all: in the phases in which a register is written, both read
ports show register 0. (That is also why the stale values in them do no harm.)

Besides the assumptions of the components the proofs use `IdleStartsNoUnit`: no
value in `IdleData` decodes to a long operation. Finding 2 is what happens
without it.

The proof follows the phases: a lemma per component for types (the units' results
from `LongOpTypes`); a lemma on the
arbiter's choice and one on the bus with a single master; one lemma per phase
for the steps that leave it; and each safety property from the phases.

`CoreImplementsIsa` goes through the same phases: in each, an edge is an execution,
a commit, or nothing of `Isa`. An instruction executes in `Isa` when its fetch
completes, so what remains to be shown is that the register write and the store
that `regsBar` and `memBar` bring forward are later done with the values they had
then, and that the commit two cycles on still tells the truth. `IsaInv` adds to
`PhaseInv` what that needs: the unit at work is the one `rdmux` will select
(`UnitIsSource`), the write on its way to difftest is what the register file holds
(`CommitIsTrue`), and nothing has happened in reset (`ResetHolds`). The hypothesis
`RawLoads = FALSE` chooses the driver of `dmem_out` that takes the lanes; finding 3
is what happens with the other.

**Divider and multiplier.** Every value of `H` above 1 is meant, so a width of 64 is
one case of many, and nothing is evaluated. Bit operations are divisions and
remainders by powers of two; `Arithmetic` has what the provers lack about them. The
powers are a recursive function, and that such a function exists at all needs
induction, which the provers can only do on a set (`Inductive`, from the
well-foundedness of `<`): the set of numbers up to which there is a sequence of
doublings (`DoublesExist`). `LoopInvariant` states what the registers mean; it holds
of one step of the shift (`DivideStep`) on numbers alone. The one thing that could
go wrong is the bit that shifts out at the top of `remainder`: `RoomAbove` shows
that it is 0, because the divisor is not above the dividend by the time of the
second step, and a partial remainder is the remainder of a prefix of the dividend.
Hence the part of `DivideInv` on later steps (divisor not 0, no `compare`), which
`divide.sv:116-142` ensures by ending any other division at its first step. The rest
is the selection at the end: the word form works on operands aligned to the upper
half, so quotients must come out the same and remainders moved up (`ScaleDiv`); the
remainder is negated over the whole register, and sliced after that, which must be
the slice negated (`NegatedTwice`). The remainder of an unsigned word division is
filled up with zeros, where the M extension wants the sign bit: that is the same,
since a remainder is less than half of a dividend that is not below the divisor. For
overflow there is no case in the code: -2^63 / -1 comes out as the M extension asks
for since negation wraps (`Complement`, `QuotientOut`). The multiplier works modulo
powers of two, on operands without sign: the low half of the product is the same.

`DividerLoops` and `MultiplierLoops` are of each unit by itself; since a step of
`Datapath` is one of a unit or leaves it alone (`PartsSeparate`), `UnitsAreTyped` and
`UnitsLoop` follow.

**Bus driver and lanes.** `HeadOnBus` needs only that the queue is a sequence
(`QueueInv`); the argument is in the two places that touch both the queue and the
bus: `submit` issues only into an empty queue, and `tick` always puts up the head of
what is left of it, or nothing. The other properties of `DBusPipeline` need
`OrderInv`: there is a history of the memory (`History`), from the memory as the
model holds it now, one step for each task in the queue, to the memory the program
has built, in which each task sees what it wants to see. An answer takes the first
step off it; a new task adds one at the end. `LoadsAreInOrder` has the hypothesis
`\A n \in CellWidth : n <= 4`, which finding 5 shows to be needed; the other two have
not. `MemoryIsOfBytes` is the core of both ends: an aligned access is in one word, in
adjacent lanes (`BytesOfAccess`), on which the shifts of `mem.sv`, those of `bus.h` and
the masks of `cbus_device.cpp` agree.

**Cache bus.** `SanityChecks` is not inductive: the second
beat of an unaligned burst counts from the aligned address, which may lie below
the first. `TxInv` adds that one beat further it is above the block's lower end
(`Aligned_Address + BeatBytes > Lower`), which holds because the first address
is in the block and less than a beat above it. For the refinement `SlotInv` says which
beat of its request the transaction is at, and so where (`AtSlot`): the aligned and
the unaligned form of `axi_next` come to the same slot, wrapped at the block's end.

`OneMaster` is a refinement: each step of the shared bus is one of `BurstDevice` and
its single master, or leaves both alone. The invariant (`SharedInv`) says that the
request on the bus is its owner's, and valid. A step keeps it because the arbiter
lets go of the bus only with the last response, so until then the owner's `Hold`
is the bus's, and because a request that is selected is still up one cycle later:
its master, who got no response, has held it. That the search ends at a valid
input (`SelectValid`) needs the least element of a set of numbers, from the
well-foundedness of `<`. The other theorems of `SharedBus` then follow from the lemmas
about one master.

`BridgeInv` gives the bridge three states the code does not name: nothing open, a read
whose beats bridge and slave count alike, or a write. A write outlives its
last beat, while the address or the acknowledgement is outstanding, and in that
time the master may already ask for something else: so `Writing` does not mention the
request, only what `saved_req` has kept of it. What has been sent is in the abstract
memory although the slave has not stored it; since no read is sent until it has
(`in_issue` must be empty first), nobody can tell.

**Test runner.** The invariant of `RunParallel` (`IInv`) adds to the properties what
ties the two ends of each pipe together. `Attended`: a worker whose pipe the master
has closed was sent the -1; one that it has not closed and that waits has either its
request or its answer on the way. `Between`, `BelowDispatched`: a test that is out
has a number below the next one, and is in one place. `Covered`: every test given
out is in a pipe, with a worker, or over. `Counted` carries `CountIsTrue`: what the
master has not counted yet are the finished tests of workers that will ask again or
whose request is still in the pipe, one each, so that when all the workers have been
told to exit and none died, nothing is left to count. `NoWorkerOutlives` needs more
(`EndInv`): a worker the master still listens to has ended only if its test failed
(`Watched`), so the end of a pipe found by a scan is a failure, and a failure is
somebody's (`Blamed`); those already waited for are gone (`Reaped`).

**Peripherals.** `InputInv` has the two sides of the queue in terms of positions: where
each typed character is (with the thread, in the queue, read, or dropped by a
reset), in order (`Placed`); that the end of the queue the thread has looked up is
still the end while it holds the lock (`Counted`); and that what the simulation has
looked up is still there when it pops (`Seen`), since the thread only adds and a
reset only comes between cycles. `OutputInv` follows a stored byte from the context to
its copy to the output. `MonitorInv` relates the number completed last to the ones
in the context and its copy, at each point of the cycle.

**Model-checked only.** Liveness under fairness, which is out of the prover's reach:
`Progress`, `FetchServed`, `Served`, `OnlyHigherStarves`, `BridgeServes`, `Drains`,
`FailureEndsRun`, `WorkersExit`, `InputIsServed`. And the five violations of section 5,
which are counterexamples. What is assumed of the constants, by name, is in the
modules that declare them; nothing is assumed about reachable states.


## 5. Findings

1. **Reset does not stop a load** (`simtop_warm`). `regfile.sv:30` says "if reset
   ,set all regs 0". `mem.sv`'s request and `idu.sv`'s controls have no reset, so
   a load in flight when reset comes is still up when it goes: it is issued
   again, its answer is written to a register, and a commit is shown before
   anything has been fetched. Only a reset after the first one meets this; the
   test benches give one before each test (`testbench.h:123`). `data_ok` of
   `exu.sv:46` and of the units is not reset either, so a completion that is up when
   reset comes is counted again in it (`cpu.sv:50`) and shown as a commit;
   `ResetClearsRegs` watches the registers and does not see that.
2. **Units start on invalid data** (`simtop_long`). `common.sv:206` describes
   `data_ok` as "is the field "data" valid?"; `exu.sv:33-34` start a
   multiplication or division on the data lines without looking at it. With
   `CBusDevice` the lines are 0 between responses and the core works. With the
   bus of `CBusToAXI`, the declared model of the cache bus, they need not be.
   On such a machine `OneCompletion` fails too: the spurious unit completes an
   instruction that is not there.
3. **Two drivers of `dmem_out`** (`simtop_raw`). `mem.sv:24-35` extracts and extends
   the lanes of a load; `mem.sv:48` assigns the raw word to the same signal.
   Every other run assumes the build keeps the first.
4. **An image is not what is loaded** (`mem_image`). `memory.cpp:102` clears the
   place of a byte with `~(0xffu << shamt)`, a 32-bit value: every byte written to a
   word wipes the upper half of it, and for the upper four bytes the shift is
   undefined. A memory made from an image file ("File path of memory
   initialization file.", `runner.h:71`) is sure to hold it only if the file has at
   most four bytes.
5. **Cells of eight bytes read half** (`dbus_cell`). `cell.h:145-146` support them;
   `cell.h:115` receives the value of a cell on a pipelined bus in a `uint32_t`, which
   `LoadOp::apply` overruns.

## 6. Not modelled, and the plan

Done: the core, its bus and its memory, the refinement of the instruction set, the
phase invariant; the units, the lanes, the cache bus, alone and shared, the
pipelined driver, the peripheral registers and the parallel test runner; and a
theorem for every safety property a passing run checks.

Next, in this order:

1. **`Decoder`, `Datapath`**: mnemonics to controls to result, against the
   instruction set; these give `Machine`'s constants a definition.
2. **The blocking driver**: `DBusGen` of `bus.h` and its `await`, which gives up
   after a number of cycles; the load without a destination of `DBusPipelineGen`,
   whose answer is discarded; the move and assignment of memory cells.
3. **Proofs**: that `Lanes` meets what `Machine` assumes of `Place`, `Merge` and
   `Extract`; step lemmas for the liveness arguments (what each fair step brings
   nearer), whose last, temporal step must stay with TLC.

Seen while modelling, and left at a remark:

- **A thread that is not waited for.** `~Confreg` stops the worker and returns
  (`confreg.cpp:169-181`); the thread, which is detached, may be at `fgetc` or at
  the lock. It will yet lock `uart.lock`, push to `uart.ififo` and close
  `uart.ipty`, members of an object that is gone. In `Confreg` these steps are there
  after `Destroy`; since nothing in the code prevents them there is no property to
  check.
- **Lanes of the line status register.** `UART_LSR` is at 0x1014, and `Confreg::load`
  returns its value in the lowest lane of the word; `mem.sv` takes the byte at
  address 4 mod 8 from lane 4, which is always 0. The same goes for `NUM_MONITOR`,
  `SW_INTER` and `BTN_KEY`.
- `Confreg::reset` keeps the changes not yet committed (`confreg.cpp:3-32`): if a
  reset came between an access and its `sync`, the store would survive it. The
  model's resets come between cycles. `_current_num` of `ModelBase` survives too,
  so a model that is reset after a number was completed is aborted by its
  monitor; `MonitorIsFair` excuses it by `wrong`.
- The flag of a `ThreadWorker` is a plain `bool` that the owner writes while the
  thread reads it (`common.cpp:316`, `common.cpp:380`). The model does either in one
  step: between two reads the loop calls functions the compiler cannot see into, so
  it reads the flag again. `InputIsServed` shows that the thread then ends; that a
  build keeps to this it takes for granted. The thread frees the flag only after it
  has seen it set, and `stopped` lets `stop` set it once; but `ThreadWorker::once`,
  which nothing calls, frees it when its function returns, and `stop` would write
  to it after that.
- A run with no workers (`-j 0`) runs no test and reports that none passed, and
  the exit status of the program does not depend on failures.
- `CBusMultiplexer` forgets who owns the bus: a request with a higher priority takes it
  over in the middle of a transaction.

Left out for good: command line, logging, trace files and image parsing (input
and output only), the address router (a search of a constant table),
`CBusMultiplexer` and `SimpleArbiter` (not instantiated, the second cannot be
elaborated), vendored code, test programs and difftest.
