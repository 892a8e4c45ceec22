# cpu-sim in TLA+

A verification project for `cpu-sim`, a cycle-accurate simulator of a five-stage
in-order RV32I pipeline with optional branch predictor, I-cache (with next-line
prefetch) and D-cache (write-back). Paths below are relative to the repository.

## The system

| Component | State | Operations | Talks to |
|---|---|---|---|
| `Core` (`src/sim/core.cpp`) | the latches, halt flag/reason/pc, statistics | `tick`, `run`, `load_elf`, `load_program`, `store_word` | evaluates every stage, then latches all of them, or only WB/forward/MEM when MEM stalls |
| `FetchStage` | `pc_`, this cycle's stall/redirect | `evaluate`, `latch` | asks the I-port `ready()`, the predictor `predict()` |
| `DecodeStage`, `RegFile` | 32 registers | `evaluate`, `latch` | `decode()` |
| `ForwardUnit` | the instruction retired last | `resolve` | EX/MEM, MEM/WB |
| `ExecuteStage` | this cycle's redirect/training | `evaluate`, `latch` | redirects fetch, flushes decode, trains the predictor |
| `HazardUnit` | this cycle's stall | `evaluate`, `latch` | stalls fetch, flushes decode |
| `MemAccessStage`, `WritebackStage` | - | `evaluate`, `latch` | asks the D-port `ready()`, loads/stores; writes registers |
| `BranchPredictor` | 2-bit counters, target buffer | `predict`, `update` | read by fetch, written by EX |
| `Cache` | lines, phase machine, prefetch engine | `ready`, `tick` | drives a backing `FlatMem` |
| `TreePlru` | bits per set | `victim`, `touch` | |
| `FlatMem` | bytes, one request timer | `load_*`, `store_*`, `ready`, `tick` | |
| `Decoder`, `ALU` | none | `decode`, `alu_exec`, `alu_op_for`, `branch_taken` | |
| ELF loader | none that lasts; fills both memories | `load_elf` | called by `Core::load_elf` |
| Tracer | none | `record` | called by `tick` with MEM/WB, before anything is latched |
| `SimConfig`, `SimStats` | parameters; six counters | - | counted by `Core`, EX and the I-cache |
| `bench_run` | - | load, run, report, exit code | around `Core` |

The program is single-threaded. What is hard in it is *simultaneity*: within one
tick every stage looks at the same old state and then some of them commit, so a
redirect, a load-use stall, a MEM stall, an I-side wait, a prediction and a halt
can meet in any combination, over several cycles whose number depends on
latencies and caches; and in the caches, a background engine shares ways and the
backing port with the demand path. Correctness means:

* pipeline: no configuration and no timing changes what a program does;
* predictor: it may only affect how often fetch is redirected;
* cache: it never affects data by design; its promise is the *cost* of each
  access, unique lines, no forgotten write-back, honest prefetch statistics, and
  that every request is answered;
* core: what it reports - commit log, counters, cycle counts, exit code - is what
  happened, and a run of a program that ends does end;
* loader: the memories hold what the files say, also after a call that failed;
* ALU, decoder, replacement policy: agreement with a reference definition.

`PROJECT.json` lists the hazards at their lines and the properties that would
catch each.

## Modules

| Module | Models | Notes |
|---|---|---|
| `Rv32i` | operations, their classes, word arithmetic, what the pipeline sees of `decode()` | an instruction word is the record of its fields; register fields exist in every format, as the hazard unit reads them raw |
| `Decoder` | `decode()` on 32-bit words, the immediates bit by bit | a word is the record of the fields all formats have in the same place |
| `FlatMem` | byte-wise little-endian memory, loads/stores of MEM | three slack bytes behind RAM, because `offset()` checks only the first byte of an access |
| `MemTimer` | the latency timer of `FlatMem` | an object is a record, its methods are operators |
| `BranchPredictor` | `predict()`, `update()` | pure operators on the two tables |
| `Alu` | `alu_exec`, `branch_taken` | words are numbers; `&`, `\|` and `^` are an operation on two bits applied to each bit |
| `Machine` | parameters shared by the next two | the ALU (`alu`) and the comparator (`compare`) are CONSTANT operators: the proofs hold for any that meet `AluAssumption`, `BranchAssumption` |
| `Isa` | **abstract specification**: one instruction at a time | |
| `Pipeline` | `Core::tick()` with all stages | one action per path of a tick; refinement mapping and `ImplementsIsa` at the end |
| `PipelineInv`, `PipelineProofs` | the inductive invariant `IInv`; theorems | TLAPS |
| `TreePlru`, `CacheUnit` | replacement; the cache as an object with `ready()` and `tick()` over a `MemTimer` | |
| `TreePlruProofs`, `CacheUnitProofs` | lemmas on replacement and on every method of the cache; two theorems on the tree | TLAPS |
| `Cache` | one cache and its client, every sequence of calls | two halves per cycle: `ready()`, then `tick()` |
| `CacheProofs` | theorems about `Cache` | TLAPS |
| `Core` | **composition**: `Pipeline` with a `CacheUnit` or `MemTimer` on each port, `run()`, statistics, commit log, exit code | |
| `CoreProofs` | what the cache proofs say of the two ports; theorems about `Core` | TLAPS |
| `TimingProofs` | theorems about how many cycles `Core` takes | TLAPS |
| `Loader` | `load_elf()`, `load_program()`, `store_word()` | |
| `LoaderProofs` | theorems about `Loader` | TLAPS |
| `Units` | the units that are functions, each with its inputs, and their reference definitions: single bits, an encoder, histories of the replacement tree | |
| `UnitsProofs` | theorems about `Units` | TLAPS |
| `MCPipeline`, `MCCore`, `MCCache`, `MCLoader`, `MCUnits` | instances for TLC | |

### Pipeline

Variables are the four latches, `ForwardUnit::prev_mem_wb_`, `pc_`, the register
file, memories, predictor tables and the halt state. Operators named after the
code's `evaluate()` outputs (`Fetched`, `Decoded`, `Executed`, `Accessed`,
`redirect`, `load_use_stall`) are functions of the old state; the actions are the
latch half:

* `AdvanceTick` - all stages commit; redirect beats load-use stall beats I-wait;
* `StallTick` - MEM is not served: WB, forwarding and MEM commit, EX's operands
  are captured, the rest holds;
* `AbortTick` - the fetch or access of this cycle fails the assertion of
  `FlatMem::offset()` and the process ends;
* `HaltedTick` - `tick()` of a halted core.

`ready()` of both ports is a free choice on every cycle. The model therefore
covers every latency and every cache configuration at once, and more timings than
any cache produces.

`Isa` executes an instruction atomically. An instruction takes effect when it
leaves MEM: `AbsReg` is the register file with the result in MEM/WB applied,
`AbsPc` the oldest instruction not yet through MEM. One implementation detail is
visible in the abstract machine, because `docs/simulation.md` (lines 69-79)
documents it: in the tick that detects the halt, the instruction behind the
halting one may already have stored. `Isa` therefore halts in two steps, and in
the second one such store may happen - only if the next word is a store, and at
most one access wide. (The exact address and data of that store are left open
there.)

### Cache

An address is its line number: the cache holds no data. `CacheUnit` has the
object: `cache_ready(c, r)` is the cache after `ready()` (out of Idle one of
`Hit`, `Merge`, `Miss`), `cache_served` what that call returned, `cache_tick(c)`
the cache after `tick()`. `balance` stands for the two prefetch counters: lines the
engine took up and did not drop, minus outcomes counted for them. A use, a merge with
the line in flight and an eviction each lower it by one. Whether an outcome is counted
as useful or as useless is not told apart, so a swap of the two counters would not be
seen; one that is missed or counted twice is.

`Cache` drives one from a client, the fetch stage (reads on every cycle, may be
redirected while it waits, and may be frozen: `Freeze` is a cycle whose latch half
skips the instruction port because MEM stalls) or the memory stage (loads and
stores, held until served, or no access). `waited`, `due` and `owed` are
bookkeeping for the properties. `due` is what an access costs given the array at its
lookup, the engine's own installs included. `AccessCost` therefore says that the engine
does not delay an access that has been looked up; it does not compare with a cache
without an engine, in which another line may be resident.

### Core

`Core` replaces the free `ready()` of `Pipeline` by the ports `Core::Core` wires:
`iport` is asked for `pc` on every cycle and clocked only when the front end is
latched; `dport` is asked by a load or store in MEM and clocked on every cycle.
`CoreStallTick` and `CoreAdvanceTick` are the two paths of a tick with everything
they count, log and clock; `CoreAbortTick` is the assertion; `Return` is the end of
`run()` and what `bench_run` makes of it. `cfg` is a variable that never changes, so
that one run covers several configurations; geometries are constants, for each cache
its own.

`replica` is what a reader of the commit log knows (registers and memory, from the
effect each line shows), `past` counts what retired, by the program's own words,
and `since` the cycles since something did. None of them influences a step.

### Loader

A file is the verdict on its header, its entry point and its program headers; a
program header may be unreadable, of another type, or describe more bytes than the
file has. One step reads one program header, so a call that throws leaves the
memories where it was. `good` is the state of the stream: once it has failed no
later header can be read.

### Units

The ALU, the comparator, the decoder and the replacement policy are functions. In
`Units` each is given an input - a pair of words, an instruction word, a legal
instruction - and the replacement policy a history of accesses to one set, whose
last log2(`Ways`) ways it remembers. `Words` and `Instructions` are parameters: TLC
gets a choice (`MCUnits`), the proofs take all. The references say the same in other
terms than the code: which bit of the operands a bit of the result is, the order of
words by the highest bit in which they differ, and an encoder that goes by format
diagram and instruction listing where `decode()` goes by opcode. Shift amounts are
taken modulo the width, which for the code's 32 bits is its mask `0x1f`.

## Runs

| Run | Question | Result |
|---|---|---|
| `pipeline` | does the pipeline implement `Isa`, and is `IInv` invariant? | passes, 200,706 states |
| `pipeline_halfword` | does a right direction imply a right target? | **violated** |
| `pipeline_abort` | can a wrong-path fetch end the run? | **violated** (it can) |
| `core` | the same refinement with real ports, for every operation; log, counters, cycle law, longest gap, exit code, termination | passes, 69,733 states |
| `trace_illegal` | does the log show architectural effects only? | **violated** |
| `units` | ALU, comparator, decoder, pseudo-LRU against references | passes, 188,621 states |
| `cache` | cost, uniqueness, write-backs, prefetch outcomes | passes, 3.1 M states |
| `cache_live` | is every request answered, also with parameters of 0? | passes, 31,131 states |
| `icache_redirect` | is the answer about the line asked for? | **violated** |
| `dcache_prefetch` | does the engine respect dirty lines? | **violated** |
| `elf` | what do the memories hold after each setup call and step of it? | passes, 30,300 states |
| `elf_skip` | does every I/O error throw? | **violated** |

What the properties of `core` say, beyond `ImplementsIsa`:

* `LogReplays`: the commit log, applied line by line, yields the registers and the
  memory (but for the store in MEM/WB, made and not yet logged);
* `BranchAccounting`: the branch counters sum to the branches of the program's path,
  retired or past EX. At a halt this includes what stands behind EBREAK, as
  `docs/branch-prediction.md` (lines 84-87) notes of the guard in `start.S`;
* `CycleLaw`: without caches and with a single-cycle instruction memory, cycles =
  instructions + 4 + 2 per misprediction + 1 per load-use interlock + the extra
  latency of each access, exactly. The interlocks are those of the conservative
  rule, which also looks at fields the instruction does not have;
* `KeepsRetiring`: in any configuration two retirements are at most a missing
  fetch, the way through the pipeline and a missing access with write-back apart;
* `DataPortInStep`: the data port never works for an instruction other than the one
  in MEM (the fetch port may: `icache_redirect`);
* `OverrunIsMisaligned`: bytes behind RAM change only by stores that are not
  aligned;
* `ExitTellsOutcome`: 0, 3 and 1 are EBREAK, an illegal word and the limit, also
  when limit and halt coincide.

Bounds and why they suffice:

* `pipeline`: bytes of two bits (a word has eight), three registers, RAM of four
  words, two entries in each predictor table. Programs are all combinations of 3
  first, 11 x 11 middle and 3 last instructions. The menu has every producer kind
  (ALU, load, JAL, LUI), consumers through rs1, rs2, address, store data and
  branch, forward and backward branches, JALR, illegal words, and an instruction
  (LUI) whose unused field names a live register. Four instructions fill the
  pipeline, backward branches repeat them, and with two entries the predictor
  aliases and retrains. Programs may run off RAM and abort, which is why these
  runs do not check deadlock: an aborted process stops, and so does one whose run
  has returned.
* `core`: each of the 41 operations with three immediates, followed by a store of
  the result; the menu's programs without JALR and backward branches; counted
  loops that store, load and walk through memory; four register files with
  operands of both signs. Five configurations: plain memories with latencies
  1/3 and 3/2, both caches with and without prefetching, and all parameters 0 with
  a limit of 9 cycles, which cuts some programs off and meets the halt of others.
  Caches of two lines, of two words for instructions and of one for data, in a RAM of
  ten words evict, write back, merge and prefetch past the end of the program. A run is determined by program,
  registers and configuration, which is why there can be many.
* `cache`: two sets of two ways and three lines per set, so that every set can be
  full and still miss; the engine's memory is slower than the hit latency, since
  otherwise a prefetch always completes inside one hit wait and never meets
  another access. `cache_live` uses one set.
* `units`: all pairs of 8-bit operands; every opcode and funct3 with the funct7 and
  register fields around the values the decoder tells apart; every legal operation
  with immediates at the ends of its range and with each single bit; 8 ways.
* `elf`: three calls (`MaxCalls`) of 85 files, texts and pokes; two program headers
  that overlap, abut, have only zeroes, end early, or fall outside RAM; a text and a
  poke that do, too.

Fairness. `CoreSpec`: `run()` is a loop, so a step that can be taken is taken (weak
fairness of `CoreStep`); the memories are part of the model, and no assumption is
made that they answer. `Cache`: the two halves of a cycle alternate (weak fairness
of `Evaluate`), and MEM stalls end (strong fairness of `Tick`), which is what `core`
and the memory client of `cache_live` show. `Pipeline` and `Loader` state none:
nothing temporal but the refinement is checked of them.

Each property is accompanied by a faulty variant of some definition (named
`..._<fault>` beside it, listed under `mutants`) with which TLC finds it violated.

### What the violated runs show

1. **Half-word targets.** The predictor drops two address bits, but JALR, branches
   and JAL may go to half-word addresses and nothing faults there. The
   instruction at P+2 then hits the entry of P; if it is a taken branch itself,
   EX sees a right direction and goes on at the wrong target. Such code can be
   encoded, e.g. `beq x6, x6` has a branch opcode in its upper half. Without this
   the refinement holds, which is why the theorems assume `Aligned`.
2. **Wrong-path fetch at the end of RAM.** The word behind a jump or EBREAK is
   fetched before that instruction executes; behind the last word of RAM the
   assertion in `offset()` ends the process.
3. **Redirect during a miss.** `ready()` looks at its address only when idle. A
   fetch redirected during a miss is answered for the old line. Timing only.
4. **Prefetch into a line dirtied meanwhile.** Only when `Cache` is built with
   prefetching on a port that stores; `Core` does not.
5. **The log line of an illegal word** shows a write to the register its rd field
   names, and nothing is written. It is the last line of such a log, which
   `spike_diff.sh` does not compare, because `bench_run` exits with 3.
6. **A truncated program header table** is loaded without an error: what can be read
   is stored, and `load_elf()` returns the entry point.

### A disagreement that a passing run shows

`AccessCost` holds in `cache`, and is proved, against `report.md` (lines 133-135), which
puts the few cycles that fibonacci and matmul lose at prefetch degree 2 and more down
to requests that "occupy the instruction-memory port ahead of a demand miss". A miss
does not wait for the engine: `FlatMem::ready()` ignores the address of a request it is
serving, so `MissFetch` takes over the request in flight and is filled when that
completes, often in less than the latency of the memory and never in more
(`cache.cpp:172-175` says as much of dropped requests only). The measured cycles are not
in question, and a longer chain can cost some: an engine busy with a chain does not
start on the line the program needs next, its installs evict lines, and an access then
finds another array, or less progress to take over, at its lookup. None of this is a
wait for the port, and none of it is seen by `AccessCost`, which starts at the lookup.

## Proofs

Everything below holds for every value of the constants: word size, registers, RAM,
predictor and cache geometry, programs, files, configurations, initial contents,
and any ALU meeting `AluAssumption` and `BranchAssumption`. The assumptions on the
constants are named `...Assumption` in the modules that declare them; that a cache
has a power of two of ways up to 256 (`TreePlru`, `Core`) is the one bound among
them, and stands for the power of two the constructor asserts.

### Pipeline (`PipelineProofs`)

* `TypeCorrect`: `Spec => []TypeOK`;
* `InvariantCorrect`: `Spec /\ []Aligned => []IInv`;
* `Refinement`: `Spec /\ []Aligned => ImplementsIsa`;
* `FetchStaysAligned`: `Spec /\ []TargetsAligned => []Aligned`, when `WordMachine`;
* `ProgramsStayAligned`: `Spec => []Aligned`, when `AlignedByProgram`;
* `RefinementByProgram`: `Spec => ImplementsIsa`, when `AlignedByProgram`.

`Aligned` says that with the predictor on, fetch addresses are multiples of four;
without a predictor it is true outright. It is a hypothesis and not a theorem,
because the code does not ensure it (finding 1 above). The last three theorems say
what it takes. `WordMachine` (an even number of byte values, RAM from a word-aligned
address) holds of the code's defaults. `TargetsAligned` is about executed
instructions only: the branch or jump in EX names a word-aligned target. That this
is enough for the fetch address, which also runs ahead on wrong paths, needs
`FetchAligned`: every target the predictor holds is aligned too. `AlignedByProgram`
asks the same of the program before it runs: no predictor, or no JALR and immediates
of branches and JALs that are multiples of four (the programs `Forward` and `Loops`
of `MCCore` are of that kind). A program that returns from functions has JALRs, and
for it `TargetsAligned` remains a condition on the run.

`ImplementsIsa` needs that what MEM commits is what the instruction computes from
the abstract registers: `ExecutedFromRegisters`. That is not inductive: EX must
have had the right operands, which needs `OperandsReachable` (what decode read is
current, or the forwarding unit still holds the newer value), `NoLoadUse` (EX/MEM
is never a load whose data EX needs) and `DestinationsAreWritten` (forwarding by rd
alone is right). And it must be the right instruction: `StagesHoldProgram` (each
latch holds the program's word at its address) and `PathLinked` (adjacent latches
are consecutive on the program's path), which for predicted instructions rests on
`BtbSound` and `PredictionsHaveTargets`. The step lemmas treat `AdvanceTick` and
`StallTick` part by part; `ForwardingCorrect` and `OperandsCorrect` carry the
forwarding argument, `IndexTagInjective` the predictor's, `StoreFrame` the halting
store.

### Core (`CoreProofs`)

* `CoreIsPipeline`: `CoreSpec => Spec` - the composition is an instance of the
  pipeline with free ports;
* `CoreImplementsIsa`: `CoreSpec /\ []Aligned => ImplementsIsa`, from the two above;
* `CoreRunsPrograms`: `CoreSpec => ImplementsIsa`, when `AlignedByProgram`;
* `BranchesCounted`: `CoreSpec => []BranchAccounting`;
* `ExitCorrect`: `CoreSpec => []ExitTellsOutcome`;
* `CoreTypeCorrect`: `CoreSpec => []CoreTypeOK`;
* `LogReplaysRun`: `CoreSpec => []LogReplays`;
* `DataPortKeepsStep`: `CoreSpec => []DataPortInStep`;
* `OverrunsAreMisaligned`: `CoreSpec => OverrunIsMisaligned`, when RAM ends at a word
  boundary (`RamEndAligned`; the default RAM does, and `SimConfig` does not check).

Of these only the refinement needs `Aligned`. The invariants of the others are
`OpsOfProgram` (each latch holds the operation of the program at the address it
names, right path or wrong, and so does the halt), `Accounts` (the counters, the
limit and the exit code), `LogFacts` (a latch that names a destination writes it
unless illegal; MEM/WB knows whether it was a store and stored inside RAM), `LogInv`
and `PortsBuilt`. Its first part carries the lemmas of `CacheUnitProofs` over to the
two instances of `CacheUnit` in `Core`. For `DataPortInStep` what matters is that
`ready()` of a busy port ignores its argument, that `tick()` keeps the request, and
that a port that has answered is idle after its `tick()` - which is also the cycle
MEM moves on.

### Cycles (`TimingProofs`)

* `CyclesExact`: `CoreSpec /\ []Aligned => []CycleLaw`;
* `CyclesByProgram`: `CoreSpec => []CycleLaw`, when `AlignedByProgram`;
* `RetirementsKeepComing`: `CoreSpec => []KeepsRetiring`.

The cycle law speaks of the halt only; its inductive form (`TimingInv`) keeps a
ledger on every cycle. `Ledger`: for the instruction in each stage, the cycles lost
ahead of it are what the instructions ahead, and its own interlock and wait so far,
are charged with. A tick hands each account to the next stage (`AdvanceCharges`) or,
on a stall, adds one to both sides from MEM on (`StallCharges`). The accounts close
because only a branch or a jump redirects fetch (`RedirectIsControl`, which rests on
`PredictionsHaveTargets` of the pipeline's invariant and so on `Aligned`), because
the interlock is the one the program has (`InterlockIsWait`), and because the
instruction ahead of the bubbles of a redirect is no load, so that no cycle is lost
to both (`Squashes`).

The bound on gaps is no invariant by itself either: `GapInv` says in which stage the
oldest instruction is, and that the cycles since the last retirement and those it
still needs from there fit into the longest gap; with an empty pipeline, that the
fetch port is on time. What a port still needs is `Ahead` (`CacheUnitProofs`): it does
not grow when the port is asked, is nought exactly when it serves, and loses one on
every other tick (`AheadStep`), whatever the engine does meanwhile. That a fetch never
waits for a write-back is `Clean`: a cache that is only read has no dirty line. No
hypothesis on addresses is needed, as a redirect, right or wrong, leaves an
instruction in EX that retires.

### Caches (`TreePlruProofs`, `CacheUnitProofs`, `CacheProofs`)

* `VictimIsWay`: the walk of `victim()` ends at a way, for every state of the tree;
* `TouchedSurvives`: the way touched last is not the next victim, if there are two;
* `TypeCorrect`, `LinesUnique`, `AccessCosts`, `PrefetchesAccounted`: `Spec =>` the
  runs' `TypeOK`, `NoDuplicateLines`, `AccessCost` and `PrefetchAccounted`, for every
  geometry, latency, degree, client and sequence of requests;
* `WritebacksKept`: `Spec => []NoLostWriteback` when the clients that store have the
  prefetch engine off (`CoreSetups`), as `Core` builds them; with it on the property
  is false (finding 4 above).

The inductive invariant (`CacheProofs!IInv`) says besides the types: no line is in
two ways (`Unique`); the line a miss or a prefetch is fetching is in none, and a
prefetch beside a miss is of another line (`FetchedAreAbsent`: this is why neither
fill can make a duplicate); without prefetching the engine is off (`EngineOff`); the
cycles waited and those the phase still needs add up to what is due (`OnTime`);
every line owed to memory is dirty in the array, or is the one being written back
(`Writebacks`); and the balance of the counters is the number of prefetched lines nobody
has used, and one for the line in flight. That a merge is counted right needs
`FetchedAreAbsent` again: a demand that waits for a prefetch has one in flight.
`CacheUnitProofs` has, for each method, what it changes; each conjunct is then shown
for `ready()` and `tick()`.

The walk over the tree is a recursive function. What it computes is shown by
induction in the form of a least counterexample (`LeastNatural`, from the library's
`WFMin`), since the induction theorems of the library cannot be instantiated by the
installed provers.

### Loader (`LoaderProofs`)

* `LoadIsOverlay`: `Spec => []MemoryIsOverlay`;
* `BothMemoriesAgree`: `Spec => []MemoriesAgree`.

The induction over the program headers is the one the loader makes itself, a header
per step. `MemoryIsOverlay` is inductive once it is known that the stream is good
exactly when all headers so far were readable (`Progress`); `MemoriesAgree` follows
from it, because of disjoint segments at most one touches an address, and
`FirstCall`, because a new core's memories are blank.

### Units (`UnitsProofs`)

All are of the form `Spec => []...` for the invariants of the run `units`, here for
every width of a word, every instruction word, every legal instruction and every
number of ways:

* `AluMovesBits` (`BitsMatch`), `ComparisonsAreOrders` (`ComparisonsAgree`);
* `EncodingsDecode` (`EncodedIsDecoded`), `OnlyEncodingsDecode` (`DecodedIsEncoded`),
  `DecodersAgree` (`PipelineViewAgrees`);
* `RecentWaysSurvive` (`RecentSurvive`), `MissesReplaceEveryWay` (`MissesReplaceAll`);

and `AluFitsMachine`: the ALU and the comparator of the code are among those the
theorems about the pipeline and the core are for.

*Arithmetic.* With the width a parameter, shifts multiply and divide by a power of two
whose exponent is a variable, which no decision procedure covers. Everything is
therefore traced to the uniqueness of quotient and remainder (`DivUnique`), from which
follow what adding a multiple does to a quotient (`DivShift`), that dividing twice is
dividing by the product (`DivDiv`) and, for bits, that a bit is not touched by what is
added above it (`BitBelow`) and that the lowest n + 1 bits are the lowest n and the
next (`LowStep`). `EachBitBits` follows the recursion of the bitwise operators upward;
`OrderByBits` compares two numbers from the bottom bit up, each further bit overruling
the order so far.

*Decoder.* The immediates are shown field by field to be what the encoder scattered
(`ImmBBits`, `ImmJBits`, `ImmUBits`, `Imm12`) and to have such fields whenever they are
in range (`ImmBParts` and so on); `EncodedOp` and `DecodedFunct` are the two directions
for opcode and funct fields.

*Replacement.* The invariant (`PlruInv`) counts: to be the next victim, all the
log2(`Ways`) nodes above a way must point to it (`TowardVictim`). Right after its touch
none does, and the touch of another way turns at most one of them to it
(`TowardOther`: the node where the two paths part), so that a way touched k accesses
ago has at most k - 1 nodes pointing to it. For the misses: on each
level they go round, that is, they are back at a node after so many of them and not
before. They then find its bit turned around (`RoundFlips`), so one level down the
round takes twice as many (`RoundsDouble`), and at the ways it takes `Ways`.

The induction needed for all three is again a least counterexample (`ClimbNat`), and
that a recursive function exists at all is shown once (`SequenceExists`).

### Only model-checked

Liveness (`Terminates`, `KeepsServing`), which is out of the prover's reach. The
invariants they rest on are proved: a request costs what `AccessCosts` says, and
`RetirementsKeepComing` bounds the cycles between two retirements.

## Not modelled

The text of the tracer (layout of a line, the cycle format, disassembly), the
command line and the printing of `bench_run`, the shell scripts, `halt_raw_` (the
word itself; the model has its operation and address), `FlatMem::write_bytes()`
(not called), and a second cache level, which the classes allow and `Core` never
builds.

## Plan

Done: pipeline, abstract machine, predictor, ALU, decoder, memories, caches, the
composed core with its reports, the loader; the refinement proved for the pipeline and
the core, and every safety property that a passing run checks.

Left: the exact address and data of the store behind a halt, which `Isa` leaves open,
and the text of the tracer's lines.
