# A verification of the RISC-V course project

The repository holds the hardware and software of a computer-organisation
course: two dividers, a single-cycle RISC-V processor, a pipelined one, a
quicksort, and two network servers.  This directory models its own logic in
TLA+, checks the models with TLC, and proves the central results with TLAPS.

## 1. Inventory

| Component | Source | State | Operations | Modules |
|---|---|---|---|---|
| Pipelined processor | `task-2a/ips/micro_riscv.sv`, `register_file.sv`, `cpu_package.sv` | program counter, three pipeline registers (IF/ID, ID/EX, EX/WB), register file | clock edge, reset | `CpuPkg`, `PipeCpu`, `PipeCpuProps`, `PipelinesProofs`, `CpuPkgLemmas` |
| Bus and devices | `task-2a/ips/riscv_core.sv`, `memory.sv`, `stdin.sv`, `stdout.sv`, `defines.vh` | memory, stdin pointer, stdout file | read, write, fetch | `CpuPkg` |
| ALU | `task-2a/ips/alu.sv` | none | eight operations, four comparisons | `Alu` |
| Processor testbed | `task-2a/testbed/testbed.sv` (same file in task 1b) | cycle counter, drain counter | reset pulse, clock, wait for finish, cycle limit | `Testbed`, `Pipelines`, `PipeMC`, `PipelinesMC` |
| Sequential machine | the data path of `task-1b/ips/micro_riscv.sv` | pc, registers, memory, stdin, stdout | one instruction, reset | `Isa`, `IsaDivu` |
| Single-cycle processor with DIVU | `task-1b/ips/micro_riscv.sv`, `task-1b/div_extension.py` | pc, register file, divider | clock edge, reset | `SingleCycle`, `SingleCycleMC`, `SingleCycleProofs` |
| Divider of task 1b | `task-1b/ips/divider.sv` | state, quotient, remainder | clock edge, reset | `Divider`, `DividerUse`, `DividerSpec`, `Dividers`, `DividersProofs` |
| Divider of task 1a | `task-1a/ips/divider.v` (exported from a schematic) | two state bits, quotient, remainder | clock edge, reset | `DividerDig`, `DividerDigUse`, `Dividers`, `DividersProofs` |
| Divider testbench | `task-1a/testbed/testbed_divider.sv` (same in task 1b) | position in the file and in the script, simulated time | two concurrent processes | `DividerTestbed`, `Dividers`, `DividersMC` |
| Two- and three-stage pipelines | `task-2a/pipeline stages backup/` | program counter, one or two pipeline registers, register file | clock edge, reset | `TwoStage`, `ThreeStage`, `Pipelines`, `PipelinesProofs` |
| Quicksort | `task-2b/qsort.c` | array, stack of activations, locals of partition | compare, scan, place the pivot, call, return, write | `Quicksort`, `SortSpec`, `QuicksortProofs` |
| Quicksort on registers | `task-2b/qsort_transformed.c` | array, registers | the part main reaches | `QsortTransformed` |
| Control server | `task-3a/framework/control.cpp` | current switch, its receive and send queues, last id | `/helo`, `/tick`, end and start of the process | `ControlServer`, `SimulatorProofs` |
| Simulator page | `task-3a/framework/web/framework.js` | per tab: session, hosts' queues, frames on wires, error state | update loop, answers, user's packets, close | `Simulator`, `SimulatorMC`, `SimulatorProofs` |
| Ethernet switch | `task-3a/switch.cpp`, `switch.h` | none yet (the exercise is not written) | processFrames | `ControlServer` |
| HTTP server | `task-3b/server_framework.cpp`, `http.cpp` | none (the handler is not written) | accept loop | not modelled |
| Event loop (vendored asio) | `task-3a/framework/dep/asio/include/asio/detail`: `impl/scheduler.ipp`, `posix_event.hpp`, `impl/epoll_reactor.ipp`, `timer_queue.hpp`, `reactive_socket_recv_op.hpp` | operation queue, counter of work, condition variable, epoll events; per thread its private queue and counter; per socket its pending read and timer | run, stop, wake a thread, poll, complete, start, cancel | `IoContext`, `HandlerPool`, `IoContextMC`, `IoContextProofs` |
| HTTP library (vendored Simple-Web-Server) | `task-3a/framework/dep/Simple-Web-Server/server_http.hpp` | per connection the point of its chain, its timer, its socket; the set of connections; stop() | accept, read, write, timeout, delete, stop, join | `HttpServer`, `HttpServerProofs` |
| JSON library, rest of the vendored code | `task-3a/framework/dep` | | | not modelled |

### How the components interact

`micro_riscv` drives an instruction address and a data address, read enable,
write enable and write data; `riscv_core` decodes the addresses and returns the
word of memory or stdin.  All registers of a processor change on the same clock
edge, and an asynchronous reset may come at any time.  The single-cycle
processor of task 1b raises `start_i` of its divider while the fetched word is
a DIVU and holds its program counter until `finish_o`.  The testbeds run beside
the hardware as simulator processes: they wait for levels (`wait (cpu_finish)`,
`wait (finish)`) that the hardware may show for one clock period only.

In the switch simulator, each browser tab runs an update loop that sends one
`/tick` at a time and waits for its answer.  The server has four threads and one
mutex, which both handlers hold from their first look at the switch to their
answer; `/helo` replaces the switch under the ticks of every other tab.

Below the handlers lie two vendored libraries, modelled because the server's
threads, timeouts and end are theirs.  `httpServer.start` opens the acceptor and
calls `io_context::run` in four threads.  They share one queue of completed
operations; one of them at a time also runs the epoll reactor, which is an
operation of that queue.  A connection is a chain of operations (accept, read,
write) whose handlers each start the next one, beside a timer whose handler shuts
the socket down.  SIGINT calls `stop` on whichever thread it interrupts.

### What is hard here

* *In-flight state.*  In the pipeline, three instructions have been fetched
  before the oldest takes effect.  Operands read in decode may be stale,
  instructions in the shadow of a taken branch must leave no trace, the halt
  signal is computed from a neighbour's field, and a reset finds every stage
  occupied.
* *Protocol.*  The dividers do not latch their divisor, one leaves its busy
  state by looking ahead, and the other's answer is not a register.
* *Time.*  The divider's testbench pulses `start` for 120 units against a clock
  of period 100: the pulse drifts over the clock with every test.
* *Partial effects.*  A stalled DIVU keeps its register write enable on; a tick
  that is refused has already queued some of its frames.
* *Sessions.*  A tab may be superseded between two ticks, while one is under
  way, or after it was closed; requests of tabs that are gone are still served;
  the server may end and start again at any moment.
* *Wakeups.*  The threads of the event loop sleep in two places, a condition
  variable and epoll; who queues an operation decides under the mutex whom to
  wake, and wakes it later.  Events are edge-triggered and come once.
* *Late timeouts.*  A timer that is cancelled may already have its handler
  queued; a connection may be at its next request, or gone, when it is called.
* *Ends.*  stop() walks through raw pointers while connections are created and
  deleted, and an accept it fails may start another.
* *Recursion.*  Quicksort's second recursive call relies on what the first one
  left alone, and its indices leave the array at both ends.
* *Boundaries.*  Words at the end of memory, the wrap of the stdin pointer,
  register 0, zero divisors, quotients that need the ninth bit.

The hazards are listed with their lines in `PROJECT.json`, each with the
properties that would catch it going wrong.

### What makes each component correct

* Both processors are the sequential machine: registers, memory, stdin and
  stdout change as if instructions were executed one at a time.
* `cpu_finish` is raised by an EBREAK the program reaches and by nothing else.
* A divider that says it has finished shows the quotient; it always finishes.
* A testbench ends, and passes when the circuit is right.
* Between a host and its port no frame is lost, repeated or overtaken, nor mixed
  with those of another tab; a superseded tab stops; no tab waits for ever.
* Every completed operation has its handler called once, until the pool is
  stopped; a stopped pool lets all its threads go, another never stops.
* No connection waits for its client for ever, none outlives the server, and
  as long as the server is not stopped one accept is under way.
* The sorting program writes its input in ascending order.

## 2. Modules and their composition

    CpuPkg ----> Isa -----------> IsaDivu
      |  \        ^ refinement       ^ refinement
      |   \       |                  |
      |    PipeCpu -- PipeCpuProps   SingleCycle <-- Divider
      |       |           |              |              |
      |    Testbed -+-- PipeMC       SingleCycleMC   DividerUse -refines-> DividerSpec
      |             |     ^  \                          |
      +-> Alu ------|-----+   \                     Dividers --> DividersMC
      |             |          \                        ^
      |             v           v                       |
      |          Pipelines --> PipelinesMC          DividerDigUse, DividerTestbed
      |             ^                                   ^
      +-> TwoStage, ThreeStage --refine--> Isa      DividerDig
      |
      +-> CpuPkgLemmas --> PipelinesProofs
                     \--> SingleCycleProofs

    ControlServer --> Simulator --> SimulatorMC     McPrograms: the programs of PipeMC
                          \--> SimulatorProofs

    IoContext --> IoContextMC      IoContext -refines-> HandlerPool <-relies on- HttpServer

    Quicksort -refines-> SortSpec        QsortTransformed (promise of SortSpec)

* **CpuPkg** has the constants (byte size, number of registers, memory size),
  the decoder and the bus.  A word's encoding is abstract: the constant
  operator `Fields` maps a word to the record of fields the decoder slices out
  of it.  `funct` stands for funct3, funct7 and funct12 together; the immediate
  is that of the opcode's format.  `rd` is bits 11:7 whatever the format, because
  the pipeline's halt test reads those bits.  Programs are memory contents.
* **PipeCpu**: each pipeline register is a record whose fields are the code's
  registers without their `_p`.  `Clock(x)` is the conjunction of what each
  stage latches on an edge; `x` is what an undriven data bus reads as.  `Reset`
  resets every register except `alu_reg_write_ex_p`, whose reset branch
  (micro_riscv.sv:213) names the next value instead of the register; at
  power-up that bit is arbitrary.  `v_if`, `v_id`, `v_ex` and `undef` are
  history variables and influence nothing.
* **Isa** is the sequential machine, one instruction per step; **IsaDivu** adds
  the division.  `PipeCpuProps!Machine` and `SingleCycle!Machine` are their
  instances under the refinement mappings: the architectural program counter of
  the pipeline is the address of the oldest instruction that has not taken
  effect, and the architectural registers of a stalled DIVU are those it found.
* **Testbed** adds the testbed's counter, its `wait`, its drain and its end.
  Resets in the middle of a run are an addition, bounded by `MaxResets`; the
  code's testbed gives none.
* **Divider** and **DividerDig** are the circuits with unconstrained inputs.
  **DividerUse** and **DividerDigUse** add the user of the assignment: any
  change of the inputs at any time, except that the divisor is held from
  `start_i` until `finish_o`.  **DividerSpec** is what a divider promises.
* **DividerTestbed** is the testbench as a second process with its delays.
* **Dividers** is one specification with three settings, of which a behaviour has
  one: either divider with its user, or the testbench.
* **SingleCycle** instantiates `Divider` as the code does.  `DivuWriteData`
  models the two procedural drivers of `reg_write_data` (micro_riscv.sv:240 and
  336): the driver that runs last wins, and when the ALU's result has moved
  under a running division either may be last.

* **TwoStage** and **ThreeStage** are the versions of the pipeline the final one
  grew from, in the same vocabulary; **Pipelines** puts all three into the
  testbed, on the same program, clock and resets; **PipelinesMC** adds which
  programs, and which of them are interrupted by resets.
* **ControlServer** has the two handlers, one step each, and the switch.  What
  the unwritten `processFrames` does with a frame is left open: `Forwardings` are
  the sets of ports it may queue a frame for ({{}} for the repository's, which
  drops everything).
* **Simulator** adds the tabs and the exchanges between them and the server.
  `SendTick` is one pass of the update loop up to its fetch, `Receive` the rest;
  `HandleScript` is a tick of a program that is no tab and whose JSON is
  malformed at some port; `Close` is a tab closed or reloaded, whose request
  stays under way.  `taken`, `queued`, `put` and `got` are history variables.
* **IoContext** has one step per critical section of the scheduler's mutex (or of
  a descriptor's), and one for each signal sent after it is released.  `todo[t]`
  are the program points a thread has before it: the loop of `do_run_one`, the
  handler it calls, what the handler starts, the clean-up behind it.  Sockets are
  used as the HTTP library uses them: a read at a time, a timer, and a listener
  whose reads are accepts.  The condition variable may wake without reason.
  `IoContextMC` has two specifications: in `InsideSpec` SIGINT may also interrupt
  a critical section (`SigintInside`).
* **HandlerPool** is what a user of the event loop relies on; `IoContext`
  implements it with liveness, and `HttpServer` assumes no more.
* **HttpServer** has one step per handler.  `at[c]` is where the chain of a
  connection stands; `lapsed[c]` are handlers of its timer that are queued,
  which no cancelling reaches; `connections` is the set stop() walks through.
  stop() is four steps, so that everything may happen between closing the
  acceptor, closing the connections, stopping the loop and joining the threads.
* **Quicksort** has one step per comparison, iteration, call and return of the
  C code, with an explicit stack; **SortSpec** writes the least number left, each
  time, and stops when none is.

Operators whose name ends in `_fault` are seeded defects: variants of the
definition that follows them, with a bug that would be easy to make.  Nothing
uses them; `PROJECT.json` pairs each with the property that notices it.

## 3. The runs

| Run | Question | Bounds |
|---|---|---|
| `Pipelines` | Are the three pipelines the sequential machine, when do they finish, and does a stage more only delay? | the programs of five slots from five families (computations, loads and stores; branches and jumps; EBREAK behind everything; undriven reads, undecodable words and stores over code; programs with up to two resets), 18 cycles after each reset |
| `PipeEbreakMissed` | *violated*: does every EBREAK the program reaches finish? | EBREAK in every slot behind stores, branches and jumps |
| `Dividers` | Do the dividers implement their promise under every user, and does the testbench pass whatever the drift? | operands of seven values, all input behaviours of the protocol, resets; the testbench at real width and delays, all files of five lines from six tests, no three zero divisors in a row |
| `SingleCycle` | Is a DIVU one division of the operands it found? | programs of four slots with divisions back to back and around branches, resets in any cycle |
| `SingleCycleOverwrite` | *violated*: also when it overwrites an operand? | DIVU into its divisor |
| `SimulatorFrames` | What can happen to a frame between host, wire, request, queue and answer? | two tabs, two ports, two steps of wire, two frames, one refused tick, any forwarding among {}, {1}, all |
| `SimulatorLive` | Do superseded tabs stop, frames arrive and waits end? | the same with one frame, one end of the server and its restart, forwarding nowhere or everywhere |
| `IoContext` | Does the event loop call every handler once, stop when it should and never else, and read what was sent? | three threads and a connection; two threads, a connection and its timer; two threads accepting two connections; two or three messages; a stop at any moment outside the critical sections |
| `SigintHangs` | *violated*: does SIGINT end the server? | the same, the signal also inside a critical section |
| `HttpServer` | Are connections guarded, registered and ended, whatever races? | three connections, one queued timer handler each, every operation may fail, one stop() |
| `Quicksort` | Does the C program write its input sorted? | every array of up to five numbers from four values, also a negative size |
| `QsortTransformed` | *violated*: does the program on registers? | every array of up to three numbers |

**Why the bounds are enough.**  The pipeline compares register numbers and
moves data; what the words contain matters only to the ALU.  Three registers
(zero and two others) give every pattern of equal and different sources and
destinations among the at most three instructions that interact; five slots
are one more than the stages; the words of 256 values let addresses
wrap and branches go both ways.  The theorems of section 5 hold without any of
these bounds.  For the dividers, seven values contain every order relation and
remainder between dividend and divisor, and quotients from zero to the largest.
After five tests of 240 or more units the testbench has met each of the ten
phases its delays can have against the clock.  `MaxCycles` is 5000 in the code
and 10 to 18 here: enough for the loops in the programs to be taken twice.
Two ports tell the first port (where a refused tick stops parsing) from the
others, two steps of wire let frames be at different places of one, and two tabs
with late requests give every order of `/helo` and `/tick`; the tabs are
symmetric, and symmetry is used only in the run without liveness.  Three threads are one in epoll, one asleep and one that queues; with two the
roles change hands, and the timer or a second connection takes the third place.
Three connections are one being accepted while two are served, or one served
and one deleted; one queued timer handler is enough for it to meet its
connection at the next request.  Arrays of five
contain equal, ascending and descending halves and pivots at both ends.

Deadlock is not checked where the program is meant to stop (the pipelines'
testbeds, `Dividers`' testbench, the quicksorts, the event loop) or to wait for its user (`Simulator*`, `HttpServer`); it is checked for `SingleCycle`.

**Fairness.**  `WF` of the clocks: the clock is a free-running process of the testbed
(`always #(CLK_PERIOD/2) clk = ~clk`).  `WF(AllClock)`, `WF(AllFinish)` and
`WF(Bench!Next)` in `Dividers`: a simulator advances time as long as a process
has an event.  In `IoContext` every thread is scheduled, gets the mutex it waits
for, and timers run out; in `HttpServer` queued handlers are called and come to
their end (which is what `HandlerPool` promises), timers run out, and operations
on a socket that was shut down complete.  In `Simulator`, timers fire
(`SendTick`), the server's threads get the mutex (`HandleHelo`, `HandleTick`) and
answers reach the tab (`Started`, `Receive`), all weakly fair.  In `Quicksort`
the program runs on.  No fairness is assumed of users and clients, of resets, of SIGINT and stop(), of the end of
the server or of its restart.

## 4. Findings

1. **An EBREAK can be missed** (`PipeEbreakMissed`).  The pipelined decoder
   compares `{funct12, rs1, funct3, rd_p}` (micro_riscv.sv:521), and `rd_p` is
   the destination of the instruction decoded one cycle *before*.  Behind any
   instruction with a non-zero rd field the EBREAK is taken for an illegal word;
   finish stays low and the processor runs on to the cycle limit.  Most test
   programs of the repository store to 0x7fc just before their EBREAK, and the
   field of that store is 28: they do run into the limit, which the tests, that
   compare the stdout file only, do not notice.  `EbreakAtTargetRecognised` shows
   where it does work, and is proved.  So is exactly which EBREAKs are missed:
   `EbreakRecognised` (and `ThreeStageEbreakRecognised` for three stages) says of
   every program that an EBREAK it reaches halts it if and only if the slot
   decoded before was empty or its instruction has a zero rd field.
2. **DIVU with a source as its destination computes something else**
   (`SingleCycleOverwrite`), because the register write enable stays on while it
   is stalled.  With `divu x1, x1, x1` and x1 = 128 the divisor becomes 0 and
   the processor stalls for ever.

3. **The quicksort on registers does not sort** (`QsortTransformed`): its test
   `a2 >= a1` (qsort_transformed.c:102) leaves qsort when l <= r, the opposite of
   the C program's, and on unsigned registers with l = 0 it always holds.

4. **SIGINT may hang the server** (`SigintHangs`).  Its handler (control.cpp:178)
   prints "SIGINT received, exiting..." and calls `httpServer.stop()`, which takes
   mutexes that are not recursive.  If the thread it interrupted holds the
   scheduler's, it waits for itself, and every other thread for it.  The same is
   true of the set of connections and of `start_stop_mutex`, which the main thread
   holds again while it joins the others (server_http.hpp:465): there a second
   SIGINT hangs.  The run shows one such SIGINT; for any number of threads
   `InterruptedInsideIsStuck` and `NeverEndsInside` prove that *every* one that
   comes inside a critical section of the scheduler hangs for ever, and
   `SafeWhenInterruptedInside` that nothing else goes wrong: no operation is lost
   or repeated, and no thread sleeps on beside a queued handler.

Worth knowing, though no run is spent on it:

* The divider of task 1a answers a division by zero with all ones only while
  start is still high (`CorrectWhileHeld` and `CorrectWhenReleased`, the parts of
  `DigAnswers`, say exactly what holds).  Its testbench cannot see this: when finish is already high at
  `start = 0`, the process goes on without yielding and compares the value from
  before.  The seeded defect `Lower_fault` lets it yield, and tests fail.
* With three zero divisors in a row the start pulse of the testbench may cover
  two clock edges; the divider answers on the first and has forgotten on the
  second, and the testbench waits for ever.  Two in a row may be enough when
  they come twice: after two zeros, a test whose dividend is less than its divisor
  and two zeros more a file hangs as well.  `SparseFiles` leaves such files out.
  What is proved for every file and width: without two zero divisors in a row no
  test hangs (`SparseFilesNeverHang`), a test that hangs does so for ever
  (`AHungTestStaysHung`), and no test is ever reported as failed
  (`TestsNeverFail`), though the divider shows its quotient for one period only.
* The server's ids start again with the process, so a tab from before a restart
  may share a switch with a new one (control.cpp:186); `OnePageTicks` therefore
  speaks of one server process.
* The fetch of `/helo` is outside the page's error handling (framework.js:91): if
  the server ends meanwhile the page stays silent (`phase` "silent").
* A timer handler that is queued cannot be cancelled: a connection whose request
  completed in time may still be closed by it, at its next request.  `HttpServer`
  allows it; the client sees a lost connection and the page shows its error.
* After stop() has closed the acceptor, an accept that was not pending any more
  fails as "bad descriptor", which is not "aborted": its handler starts another
  accept, which fails again, until the event loop is stopped a moment later
  (server_http.hpp:808).
* Two handlers of chunked requests call `on_error` without asking whether it is
  set (server_http.hpp:676 and 695), and the answer to a request that is too large
  (574) is built without the deleter that would send it.  The page sends neither.

## 5. Proofs

The first part of `PipelinesProofs` (with `CpuPkgLemmas`) proves of the
four-stage pipeline, for every byte size, number of registers, memory size, program, encoding and ALU that satisfies the named
assumptions of `CpuPkg`:

* `TypeCorrect`, `Forwarding`, `Results`, `Flushing`, `Finish`,
  `EbreakAtTarget`: its safety properties, of which `Pipelines` checks the strongest
  (`PipeInv` implies the types and `OperandsFresh`, `ResultsFresh` and
  `SquashedInert`);
* `PipelineImplementsMachine`: the pipeline implements the sequential machine.

The argument is one inductive invariant, `PipeInv`.  None of the properties is
inductive alone: that the result in EX/WB is right needs that the operands in
ID/EX were fresh, which needs that the fields there are the decoding of the word
in memory, which needs that the word in IF/ID is still the one memory holds.
So the invariant says that the three stages hold *consecutive* instructions of
the program, each as far as its stage takes it (`FetchedInOrder`,
`DecodedInOrder`, `ExecutedInOrder`), that stages empty from the front
(`SlotsInOrder`), that what is not on the program's path is inert
(`BubblesInert`), and that operands are always fresh (`OperandsFresh`, which
holds for bubbles too).  `BubbleAhead` is what makes an EBREAK at a branch
target safe from finding 1.

Two things the pipeline does not promise end its obligations, recorded by
`undef`: a store into an instruction already fetched, and what follows an EBREAK
(the processor goes on for as long as the testbed drains).

`PipelinesProofs` then follows the same argument for the earlier pipelines, from the
same assumptions and with fewer stages to relate.  For three stages the
invariant is `ThreeStageInv`, which also gives fresh operands and that finish
comes of an EBREAK only; for two, where no result is ever pending, it says little
more than that the fetched word is the one memory holds, and finish is raised by
*exactly* the EBREAKs the program reaches (`TwoStageFinishes`).  Finding 1 thus
comes with the third stage.  The module then shows that every behaviour of the
testbed with all three (`AllSpec`) is a behaviour of each (`LockstepRuns`), so
that what is proved of one alone holds there as well; the run adds to `AllSpec`
only the choice of programs and of those that are reset.

Last it relates the three to each other: `StagesOnlyDelay` is
`StageMoreOnlyDelays` for every program.  It has a hypothesis, `LoadsDriven`: no
instruction that a shorter pipeline is about to finish loads a register other
than x0 from lines nobody drives.  Such a load is performed by each pipeline in a
cycle of its own, may return something else in each, and the claim is false then;
the programs of run `Pipelines` meet the hypothesis in every state (TLC), and
where undriven lines always read the same word it is not needed
(`StagesOnlyDelayOnceDefined`).  The argument is again an invariant, `LagInv`: from
the machine the longer pipeline shows, a number of instructions leads to the
machine the shorter one shows (`Trail`).  That number never becomes negative
because whenever it is zero the follower's stages hold no instruction it could
finish before its leader (`Early43`, `Early32`).  This in turn is kept because
the leader's last stage is empty only behind a taken branch that the follower has yet
to execute.

`DividersProofs` proves for operands of every width that the registers of task
1b's divider account for its dividend (`DividerInvariant`), that the finished
quotient is right (`Quotients`), and the safety part of the refinement of
`DividerSpec` (`DividerImplementsPromise`).  The only fact about division it needs
is that quotient and remainder are unique.  It carries the invariant over to
the specification the run checks, and proves the same of the divider of task 1a:
`DigInv` says that the registers account for the operands while it is busy, and
that the register holds the quotient when it has finished, which gives
`DigAnswers` for operands of every width.  For the testbench, `BenchInv` relates
the place in a test to what the divider does meanwhile: which operands it was
given and whether it is still at them; so whatever the testbench compares is the
quotient (`TestsNeverFail`).  That no test hangs is a matter of time: the testbench's
delays of 12 units drift against the clock's period of 10, and
`DriftInv` lists where the next edge may stand when the operands are set.  The
proof takes the numbers of the code and the named assumption `BenchAssumption`
that files consist of tests.

`SingleCycleProofs` proves `StallIsPrivate` of every program: outside its
destination a stalled DIVU changes nothing, and the divider runs under no other
instruction.  That each DIVU is a division (`DivuDivides`) and the processor the
sequential machine (`ImplementsMachine`) has a hypothesis, `NoOverwrite`: the DIVU
being executed does not write its own sources, or writes to register 0.
Finding 2 is that the claim is false without it; the programs of run
`SingleCycle` meet it in every state, those of `SingleCycleOverwrite` do not.
The invariant, `DivuInv`, is the account of the divider's registers (as in
`DividersProofs`) related to the registers that the stalled instruction still
reads; one step of the refinement is the last edge of a stall, all others of it
stutter.

`QuicksortProofs` proves `InBounds` and `SplitsStand` of arrays of every length,
that the array is sorted when the stack is empty (`SortsEveryArray`), that the
recursion is never deeper than the array is long (`DepthIsBounded`: ranges on the stack
are nested, and each but the top one has left its pivot out), and the safety part
of `ImplementsSort`.  `InBounds` speaks of one activation at a time and is not
inductive: after a return the caller's range is used again.  `QsortInv` says of
*every two* activations on the stack that the upper one stays in the half the
lower one's call was given (`Waiting`), of the elements that any two which no activation has
still to sort are in order (`Ordered`), and that nothing is written before the end.
Splits stand because a swap made by an activation stays on one side of every
split below it.  For the refinement, a swap keeps the number of times each value
occurs, and what `main` writes next is the least number left because the
array is sorted.

`IoContextProofs` proves, for any number of threads, connections and messages,
that every operation is in one place (`OnePlaceEach`), that the pool does not
stop under an operation (`NoEarlyStop`), that no wakeup is missing
(`NoneSleepsOn`), and that the pool implements `HandlerPool` as far as safety
goes.  `PlaceInv` says where each operation may
be: what a thread holds at which point of its program (`ProgramInv`), that the task
is in the queue or with one thread (`TaskInv`), that the descriptors are queued
before the task, so that none is left when epoll reports the next ones
(`DescriptorInv`), and that the operations of a socket are in one queue or one
hand, exactly when the socket says so (`ReadInv`, `WaitInv`, `CallbackInv`).
`OnePlaceEach` counts places by their cardinality; the invariant says "any two
are the same", which the steps keep one queue operation at a time (lemmas `Flush`,
`Take`, `Fill`, ...).  `NoEarlyStop` is about a counter: `WorkInv` says that
`outstanding_work_` plus one for each thread that has started something it has
not counted yet is the number of open sockets, of timers, of the callback while
it is queued, and of handlers that have been called.  When `Leave` brings it to
nothing all of these are zero at once; `EndInv` keeps this true between that step
and the stop, while other threads go on.  It relies on an accept being counted at once:
its handler still has to start the first read, and `privWork` is zero meanwhile.

`NoneSleepsOn` follows from `WakeInv`, which says who wakes whom.  A poll that is
to be interrupted has been (`PollInv`).  As long as the queue holds anything and
the pool runs, the event is set, and if a thread sleeps another helps: it is on
its way to the queue, or about to signal the condition variable while somebody
waits there.  A thread in `epoll_wait` counts here as awake only if interrupted.
The property is content with an event of a socket; the invariant cannot be,
because another thread may drop that connection and take the event away.

`CallsEachOnce` is the safety of `ImplementsPool`: the initial states map to
initial ones, and every step is one of `HandlerPool` or a stutter.  `PlaceInv` is what
turns `StateOf`, which counts places, into a case distinction on the socket
(`StatesAre`).  Then the step of the loop that takes a handler is `Run` of that
operation and leaves all others alone (`LoopingStates`); every other step moves
operations along `Moves`, most of them because they only end the handler the thread
ran (`EndingMays`).  `PoolIsSafe` puts these together for `Spec`.

Its last section allows SIGINT also while a thread holds the mutex
(`AnyInsideSpec`).  The invariants above survive, because the handler has changed
nothing they speak of when it starts to wait.  `StuckInv` says that from then on
the holder is inside a critical section; it cannot leave it, and no other thread
can enter one, so the queue and the stop flag stay as they are.

`HttpServerProofs` proves `Registered`, `Guarded` and `OneAcceptor` for any number
of connections and queued timer handlers.  `Guarded` is not inductive: a wait for
the client's content or for the answer to leave is started without touching the
timer, relying on the timeout set when the header was read.  `ServerInv`
therefore keeps the guard also while the content has been read and the resource
function runs (`GuardedOn`), and says that only stop() aborts an accept
(`NotAborted`), without which the handler of an accept might start no other.

`SimulatorProofs` proves all five invariants of run `SimulatorFrames`, for any
number of tabs, ports, steps of wire and frames, and whatever the switch forwards.
The inductive invariant has six parts, each relying on those before it:

* `TypeOK`;
* `Discipline`: what may be under way between tab and server in each phase, and
  that a tab that has not started has nothing on its wires;
* `WiresInv`: on a wire the older frame is the farther along (`Falling` on the way
  out, where steps count up, `Rising` on the way in, where they count down), and while
  a tick is under way the place where frames enter the way in is free for what its
  answer brings.  This gives
  `OneFramePerStep`, and lets the update loop's "all frames at the last place" be the head
  or the tail of a sequence;
* `IdsInv`: no two tabs, requests or answers are about the same id, and none is about
  an id not yet given out.  `OnePageTicks` follows, and that a tab which has the
  present id keeps it until the next `/helo` (`OwnerStep`);
* `UpInv` and `DownInv`: the equations of `WireIsFifo` and `DeliveryIsFifo`, already
  from the moment the switch is created, when its tab has yet to receive the id
  (`Owns`).  That is when they begin: the queues of the new switch are empty, and
  so are the wires of the tab.

The two equations are about the sequences a function picks by position
(`AtPositions`), which is defined by recursion.  It is recursion over an interval of
numbers, so that what it returns can be proved by induction over *sets* of
naturals (lemma `Induction`, from the least element of a set): that it returns
the sequence itself when every position is picked, its tail without the first,
the single element of a single position, and what an element more adds.
The conclusions of `FramesGoUpInOrder` and `FramesGoDownInOrder` are for `stops = 0`,
as long as the first process of the server lasts (the run has `MaxStops = 0`): ids start
again with the process, so a tab from before may own the switch of another one,
and the claim is false then.

Several liveness properties have a safety half: a quantity that only goes down,
which leaves to fairness no more than that steps are made.  Those halves are proved:
`DivisionsCountDown` and `DigDivisionsCountDown` (the remainder of a division under
way, for `ImplementsDivider` and `DigFinishes`), `StallsAreShort` (the same of a stall, for `StallEnds`),
`WaitsEndSooner` (how far a connection that waits for its client is from its end, for
`Settled`), `NothingAfterJoin` (what is left of the connections after start(), for
`StopEndsAll`) and `SupersededEnds` (how many steps a page has left that lost its
switch, for `SupersededStops`; it also says that the page never gets the switch
back while the server process lasts).

Model-checked only, and why:

* liveness (`SimulationEnds`, the termination half of `ImplementsDivider`,
  `DigFinishes`, `StallEnds`, `AllTestsPass`, `SupersededStops`, `FramesArrive`,
  `EveryWaitEnds`, `ThreadsReturn`, `MessagesRead`, `Settled`, `StopEndsAll`, the
  liveness of `ImplementsPool` and `ImplementsSort`): fairness is out of the
  prover's reach;
* `Alu`, about which the theorems assume only its types.

## 6. Abstractions

* Unknown bits (`x`) are an arbitrary choice from `XWords` on the data bus, and
  `XInstr`, a word no case of the decoder matches, on the instruction bus.
* A decoder that finds an illegal word gates all its outputs; the model sees
  this as opcode `OTHER`.
* `$display`, `$fdisplay` formats and the loading of hex files are left out;
  their effects are `stdout` and the choice of `Images` and `stdin_buffer`.
* Times inside a clock period matter only to `DividerTestbed`; elsewhere a clock
  edge is one step.
* Frames are numbers: the order in which users sent them, and 0 for those of
  `HandleScript`.  VLANs are left out (the switch's methods for them are stubs),
  and so are checksums, rendering, and the choice of destinations.
* `IoContext` leaves out write operations (they take the same path as reads),
  the attempt to read on after the end of a stream, the reuse of descriptor
  states, and the re-arming of the timer descriptor: a timer that is due is an
  event.  An event is taken once, by whichever thread polls.
* `HttpServer`: between the start of a handler and the operation it starts lie
  only the connection's own timer and the set under its mutex, so a handler is
  one step; the resource function is a step of its own.  A timer handler locks
  its connection and closes it in one step.  Memory of deleted connections is
  used again.  Chunked requests, requests sent ahead, upgrades, and error
  callbacks (the control server sets none) are left out.
* `Quicksort` leaves out sizes above `MAX`, which overrun the array.

## 7. Not modelled, and the plan

All runs planned are built, and every invariant they check is proved, with the
hypotheses section 5 names: `NoOverwrite` for the refinement of the single-cycle
processor, `LoadsDriven` for `StageMoreOnlyDelays`, one server process for the
two properties of frames.

Not modelled, and why:

* the stub of `qsort.asm`; the part of `qsort_transformed.c` that is never
  reached;
* `task-3b`: an accept loop around a handler that is not written; it keeps no
  state;
* `json.hpp`: a parser of which the server uses one call, whose outcomes are
  inputs of `ControlServer`;
* the rest of asio and of Simple-Web-Server (clients, HTTPS, strands, other
  reactors and platforms, the public wrappers over the modelled services): code
  the control server does not run, or that passes calls on.  By lines this is
  nearly all of the repository; the share of it that the maps cover stays
  small for that reason.
