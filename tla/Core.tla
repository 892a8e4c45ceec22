-------------------------------- MODULE Core --------------------------------
(***************************************************************************)
(* The whole simulator: the pipeline with the memories it really has, as   *)
(* Core wires them from a SimConfig, and around it the loop of run(), the  *)
(* statistics, the commit log of the tracer and the exit code of           *)
(* bench_run.                                                              *)
(*                                                                         *)
(* Where Pipeline lets ready() answer anything, here a port is a FlatMem   *)
(* timer or a cache over one, asked and clocked as tick() does: the        *)
(* instruction port on every cycle but clocked only when the front end     *)
(* moves, the data port clocked on every cycle but asked only by a load or *)
(* a store in MEM.                                                         *)
(***************************************************************************)
EXTENDS Pipeline

CONSTANTS
    ILineBytes, ISets, IWays,   \* icache_line_bytes, icache_sets, icache_ways
    DLineBytes, DSets, DWays,   \* dcache_line_bytes, dcache_sets, dcache_ways
    Configs                     \* the configurations to run

\* The lines of the address space, as each cache divides it.
ILines == WordValues \div ILineBytes
DLines == WordValues \div DLineBytes

I == INSTANCE CacheUnit WITH NLines <- ILines, Sets <- ISets, Ways <- IWays
D == INSTANCE CacheUnit WITH NLines <- DLines, Sets <- DSets, Ways <- DWays

\* SimConfig, without the geometry above and the predictor's constants, and
\* the cycle limit that goes with it to run().
SimConfig ==
    [imem_latency_cycles : Nat, icache_enabled : BOOLEAN,
     icache_hit_latency_cycles : Nat, icache_prefetch_enabled : BOOLEAN,
     icache_prefetch_degree : Nat,
     dmem_latency_cycles : Nat, dcache_enabled : BOOLEAN,
     dcache_hit_latency_cycles : Nat, max_cycles : Nat]

ASSUME ConfigAssumption ==
    /\ \A n \in {ILineBytes, DLineBytes} : n \in Nat \ {0} /\ WordValues % n = 0
    /\ {ISets, DSets} \subseteq Nat \ {0} /\ ILines % ISets = 0 /\ DLines % DSets = 0
    /\ {IWays, DWays} \subseteq {1, 2, 4, 8, 16, 32, 64, 128, 256}
    /\ Configs \subseteq SimConfig

VARIABLES
    cfg,       \* the configuration
    iport,     \* fetch's port: imem_ under icache_, if enabled
    dport,     \* MEM's port: dram_ under dcache_, if enabled
    stats,     \* SimStats; its prefetch counters are in iport
    exit,      \* the exit code of bench_run, or NoExit
    \* What a reader of the commit log knows, and bookkeeping for the
    \* properties; the code has none of these.
    replica,   \* registers and memory rebuilt from the log
    past,      \* what the retired instructions were
    since      \* cycles since one retired

NoExit == -1

own == <<cfg, iport, dport, stats, exit, replica, past, since>>
all == <<vars, own>>

Stats == [cycles : Nat, instructions : Nat, branch_correct : Nat,
          branch_mispredicts : Nat]

\* Every piece of state keeps to its type: both timers and all phases stay in
\* range under the pipeline's own calls, and the cycle limit is a hard one.
CoreTypeOK ==
    /\ TypeOK
    /\ cfg \in Configs
    /\ iport \in I!CacheState(cfg.icache_hit_latency_cycles,
                              cfg.icache_prefetch_enabled,
                              cfg.icache_prefetch_degree, cfg.imem_latency_cycles)
    /\ dport \in D!CacheState(cfg.dcache_hit_latency_cycles, FALSE, 1,
                              cfg.dmem_latency_cycles)
    /\ stats \in Stats
    /\ stats.cycles <= cfg.max_cycles
    /\ exit \in {NoExit, 0, 1, 3}
    /\ replica \in [reg : [Regs -> Word], mem : Mem]

CoreInit ==
    /\ Init
    /\ cfg \in Configs
    /\ iport = I!NewCache(cfg.icache_hit_latency_cycles, cfg.icache_prefetch_enabled,
                          cfg.icache_prefetch_degree, cfg.imem_latency_cycles)
    /\ dport = D!NewCache(cfg.dcache_hit_latency_cycles, FALSE, 1,
                          cfg.dmem_latency_cycles)
    /\ stats = [cycles |-> 0, instructions |-> 0, branch_correct |-> 0,
                branch_mispredicts |-> 0]
    /\ exit = NoExit
    /\ replica = [reg |-> rf, mem |-> dmem]
    /\ past = [control |-> 0, mispredicts |-> 0, accesses |-> 0, interlocks |-> 0,
               last |-> ZeroWord, missed |-> <<FALSE, FALSE>>]
    /\ since = 0

-----------------------------------------------------------------------------
(***************************************************************************)
(* The ports.  One whose cache is not built is its memory.                 *)
(***************************************************************************)
LineOf(a, line_bytes) == a \div line_bytes

\* FetchStage::evaluate() asks for the pc.
IAsked ==
    IF cfg.icache_enabled
      THEN I!cache_ready(iport, [line |-> LineOf(pc, ILineBytes), write |-> FALSE])
      ELSE [iport EXCEPT !.backing = I!mem_ready(@)]

i_served ==
    IF cfg.icache_enabled THEN I!cache_served(IAsked) ELSE I!mem_served(IAsked.backing)

IClocked(c) ==
    IF cfg.icache_enabled THEN I!cache_tick(c) ELSE [c EXCEPT !.backing = I!mem_tick(@)]

\* MemAccessStage::evaluate() asks for the address of a load or a store.
DAsked ==
    IF ~accessing THEN dport
    ELSE IF cfg.dcache_enabled
      THEN D!cache_ready(dport, [line |-> LineOf(ex_mem.alu_out, DLineBytes),
                                 write |-> storing])
      ELSE [dport EXCEPT !.backing = D!mem_ready(@)]

d_served ==
    IF cfg.dcache_enabled THEN D!cache_served(DAsked) ELSE D!mem_served(DAsked.backing)

mem_stall == accessing /\ ~d_served

\* Faulty MEM latch: memory is clocked while it stalls, not when it moves on.
DClocked_in_stalls(c) ==
    IF ~mem_stall THEN c
    ELSE IF cfg.dcache_enabled THEN D!cache_tick(c)
    ELSE [c EXCEPT !.backing = D!mem_tick(@)]

DClocked(c) ==
    IF cfg.dcache_enabled THEN D!cache_tick(c) ELSE [c EXCEPT !.backing = D!mem_tick(@)]

(***************************************************************************)
(* The commit log: one line for each instruction in WB, with the effect    *)
(* format_effect() finds.                                                  *)
(***************************************************************************)
Effect(wb) ==
    IF wb.is_store THEN [kind |-> "store", op |-> wb.op, addr |-> wb.mem_addr,
                         val |-> wb.mem_val]
    ELSE IF wb.rd # 0 THEN [kind |-> "reg", rd |-> wb.rd, val |-> wb.wb_val]
    ELSE [kind |-> "none"]

\* A reader applies it; the width of a store shows in its digits.
Applied(r, e) ==
    CASE e.kind = "store" -> [r EXCEPT !.mem = StoreResult(e.op, @, e.addr, e.val)]
      [] e.kind = "reg"   -> [r EXCEPT !.reg[e.rd] = e.val]
      [] e.kind = "none"  -> r

\* Faulty record(): a cycle on which MEM stalls is not logged.
Logged_unless_stalled ==
    IF mem_wb.valid /\ ~mem_stall THEN Applied(replica, Effect(mem_wb)) ELSE replica

Logged == IF mem_wb.valid THEN Applied(replica, Effect(mem_wb)) ELSE replica

(***************************************************************************)
(* The statistics of one tick.  EX counts what it resolves when it is      *)
(* latched, that is not on a stall.                                        *)
(***************************************************************************)
is_control(op) == is_cond_branch(op) \/ op \in Jumps

control == id_ex.valid /\ is_control(id_ex.op)

Bump(n, p) == IF p THEN n + 1 ELSE n

\* Faulty probe: an outcome is counted whenever EX evaluates it.
Counted_every_cycle ==
    [cycles             |-> stats.cycles + 1,
     instructions       |-> Bump(stats.instructions, mem_wb.valid),
     branch_correct     |-> Bump(stats.branch_correct, control /\ ~redirect),
     branch_mispredicts |-> Bump(stats.branch_mispredicts, control /\ redirect)]

\* Faulty budget: a stalled cycle is not counted.
Counted_no_stalls ==
    LET resolved == control /\ ~mem_stall
    IN  [cycles             |-> Bump(stats.cycles, ~mem_stall),
         instructions       |-> Bump(stats.instructions, mem_wb.valid),
         branch_correct     |-> Bump(stats.branch_correct, resolved /\ ~redirect),
         branch_mispredicts |-> Bump(stats.branch_mispredicts, resolved /\ redirect)]

Counted ==
    LET resolved == control /\ ~mem_stall
    IN  [cycles             |-> stats.cycles + 1,
         instructions       |-> Bump(stats.instructions, mem_wb.valid),
         branch_correct     |-> Bump(stats.branch_correct, resolved /\ ~redirect),
         branch_mispredicts |-> Bump(stats.branch_mispredicts, resolved /\ redirect)]

\* Bookkeeping: the instruction retired now, looked up in the program.
\* missed says of EX/MEM and MEM/WB whether EX redirected fetch for them.
Remembered ==
    LET raw   == imem[mem_wb.pc]
        moved == IF mem_stall THEN <<past.missed[1], FALSE>>
                              ELSE <<redirect, past.missed[1]>>
        waits == /\ is_load(past.last.op) /\ past.last.rd # 0
                 /\ past.last.rd \in {raw.rs1, raw.rs2}
    IN  IF ~mem_wb.valid THEN [past EXCEPT !.missed = moved]
        ELSE [control     |-> Bump(past.control, is_control(raw.op)),
              mispredicts |-> Bump(past.mispredicts, past.missed[2]),
              accesses    |-> Bump(past.accesses, is_mem_op(raw.op)),
              interlocks  |-> Bump(past.interlocks, waits),
              last |-> raw, missed |-> moved]

-----------------------------------------------------------------------------
\* Faulty loop: one cycle too many.
Looping_once_more == exit = NoExit /\ ~halted /\ stats.cycles <= cfg.max_cycles

\* The loop of run() calls tick() once more.
Looping == exit = NoExit /\ ~halted /\ stats.cycles < cfg.max_cycles

\* What both paths of a tick do besides moving the pipeline.
Observe ==
    /\ stats' = Counted
    /\ replica' = Logged
    /\ past' = Remembered
    /\ since' = IF mem_wb.valid THEN 0 ELSE since + 1
    /\ UNCHANGED <<cfg, exit>>

CoreStallTick ==
    /\ Looping
    /\ mem_stall
    /\ StallTick(i_served)
    /\ iport' = IAsked
    /\ dport' = DClocked(DAsked)
    /\ Observe

CoreAdvanceTick ==
    /\ Looping
    /\ ~mem_stall
    /\ AdvanceTick(i_served)
    /\ iport' = IClocked(IAsked)
    /\ dport' = DClocked(DAsked)
    /\ Observe

\* An assertion fails while a stage evaluates: nothing was logged or counted.
CoreAbortTick ==
    /\ Looping
    /\ FetchFaults(i_served) \/ ~mem_stall
    /\ AbortTick(i_served)
    /\ UNCHANGED own

\* Faulty exit code: the limit is looked at first.
ExitCode_limit_first ==
    IF stats.cycles >= cfg.max_cycles THEN 1
    ELSE IF halt_reason = "Illegal" THEN 3 ELSE 0

\* The exit code bench_run makes of a run that returned.
ExitCode ==
    IF halt_reason = "Illegal" THEN 3 ELSE IF halted THEN 0 ELSE 1

\* run() returns, bench_run reports and ends.
Return ==
    /\ exit = NoExit /\ ~aborted
    /\ ~Looping
    /\ exit' = ExitCode
    /\ UNCHANGED <<vars, cfg, iport, dport, stats, replica, past, since>>

CoreStep == CoreStallTick \/ CoreAdvanceTick \/ CoreAbortTick \/ Return

\* run() is a loop: a step that can be taken is.
CoreSpec == CoreInit /\ [][CoreStep]_all /\ WF_all(CoreStep)

-----------------------------------------------------------------------------
\* The commit log says everything: who applies it, line by line, has the
\* registers of the machine, and its memory but for the store in MEM/WB that
\* is made and not yet logged.  It holds on every cycle and after the halt,
\* but not of the registers once an illegal word has been logged.
LogReplays ==
    /\ halt_reason # "Illegal" => replica.reg = rf
    /\ dmem = IF mem_wb.valid /\ mem_wb.is_store
                THEN Applied(replica, Effect(mem_wb)).mem ELSE replica.mem

\* What the comment of format_effect() says: the line shows the
\* architectural side effect.
LogIsArchitectural == replica.reg = rf

\* The branches counted are those of the program's path: retired, or past EX
\* on the way to it.  None of a wrong path is, and none twice, however long
\* a stall holds it in EX.
BranchAccounting ==
    stats.branch_correct + stats.branch_mispredicts =
        past.control + Bump(0, ex_mem.valid /\ is_control(ex_mem.op))
                     + Bump(0, mem_wb.valid /\ is_control(mem_wb.op))

\* With a single-cycle instruction memory and no caches the machine is exact:
\* one cycle for each instruction and four to fill the pipeline, two for each
\* misprediction, one for each load-use interlock, and the extra latency of
\* each access; nothing overlaps and nothing is charged twice.
CycleLaw ==
    (halted /\ ~cfg.icache_enabled /\ iport.backing.latency = 1 /\ ~cfg.dcache_enabled)
      => stats.cycles = stats.instructions + 4 + 2 * past.mispredicts
                          + past.interlocks
                          + (dport.backing.latency - 1) * past.accesses

\* The longest gap between two retirements, in any configuration: a fetch
\* that misses, the way through the pipeline, and an access that misses on a
\* dirty line.  Redirects, stalls and the prefetch engine do not pile up.
LongestGap ==
    LET i == iport.backing.latency + (IF cfg.icache_enabled THEN iport.hit_latency ELSE 0)
        d == IF cfg.dcache_enabled
               THEN dport.hit_latency - 1 + 2 * dport.backing.latency
               ELSE dport.backing.latency - 1
    IN  i + 3 + d

KeepsRetiring == since <= LongestGap

\* A request the data port is working on is the one of the instruction in
\* MEM: unlike the fetch port, it never answers for another.
DataPortInStep ==
    /\ (cfg.dcache_enabled /\ dport.phase # "Idle") =>
           /\ accessing
           /\ dport.cur = [line |-> LineOf(ex_mem.alu_out, DLineBytes), write |-> storing]
    /\ (~cfg.dcache_enabled /\ dport.backing.serving) => accessing

\* offset() checks the first byte of an access only.  Bytes past the end of
\* RAM change, if ever, by a store that is not aligned to its width.
Width(op) == CASE op \in {"SB"} -> 1 [] op \in {"SH"} -> 2 [] op \in {"SW"} -> 4

OverrunIsMisaligned ==
    [][(\E b \in RamBytes \ RamAddr : dmem'[b] # dmem[b])
         => storing /\ ex_mem.alu_out % Width(ex_mem.op) # 0]_all

\* The exit code tells how the run ended, also when the limit and the halt
\* fall on the same cycle: 0 when the program came to an EBREAK, 3 when to an
\* illegal word, 1 when the limit cut it off.
ExitTellsOutcome ==
    /\ exit = 0 => halted /\ imem[halt_pc].op = "EBREAK"
    /\ exit = 3 => halted /\ imem[halt_pc].op = "ILLEGAL"
    /\ exit = 1 => ~halted /\ stats.cycles = cfg.max_cycles
=============================================================================
