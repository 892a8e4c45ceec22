---------------------------- MODULE TimingProofs ----------------------------
(***************************************************************************)
(* Proofs about how many cycles a run takes.                               *)
(*                                                                         *)
(* The cycle law is about the end of a run.  What makes it an invariant is *)
(* a ledger: on every cycle, for every instruction in the pipeline, the    *)
(* cycles lost ahead of it are those that the instructions ahead of it     *)
(* and its own waits are charged with.                                     *)
(***************************************************************************)
EXTENDS CoreProofs

\* The configurations the cycle law is about.
Plain ==
    ~cfg.icache_enabled /\ iport.backing.latency = 1 /\ ~cfg.dcache_enabled

\* y behind x meets the load-use interlock.
Waits(x, y) == is_load(x.op) /\ x.rd # 0 /\ x.rd \in {y.rs1, y.rs2}

\* The word of the instruction ahead of MEM, and of that ahead of EX.
BeforeMem == IF mem_wb.valid THEN imem[mem_wb.pc] ELSE past.last

BeforeEx == IF ex_mem.valid THEN imem[ex_mem.pc] ELSE BeforeMem

\* Cycles on which nothing retired, and those that will be once the bubbles
\* in the last latch, or the last two, have.
Lost == stats.cycles - stats.instructions

LostMem == Lost + Bump(0, ~mem_wb.valid)

LostEx == LostMem + Bump(0, ~ex_mem.valid)

\* How long the access in MEM has waited.
StalledIn(b) == IF b.serving THEN b.latency - 1 - b.remaining ELSE 0

Stalled == StalledIn(dport.backing)

\* What the retired instructions are charged with, and the one in WB with
\* them; what is charged ahead of the one in MEM with its own waits; what is
\* charged ahead of the one in EX but for its own.
Charged ==
    4 + (dport.backing.latency - 1)
          * (past.accesses + Bump(0, mem_wb.valid /\ is_mem_op(mem_wb.op)))
      + past.interlocks
      + Bump(0, mem_wb.valid /\ Waits(past.last, imem[mem_wb.pc]))
      + 2 * past.mispredicts

ChargedMem ==
    Charged + Stalled + Bump(0, ex_mem.valid /\ Waits(BeforeMem, imem[ex_mem.pc]))
      + 2 * Bump(0, past.missed[2])

ChargedEx == ChargedMem + 2 * Bump(0, past.missed[1])

\* The ledger.  A bubble in front of an instruction in ID is its interlock or
\* half of the squash ahead of it; two are such a squash, or the start.
Ledger ==
    /\ mem_wb.valid => Lost = Charged
    /\ ex_mem.valid => LostMem = ChargedMem
    /\ id_ex.valid => LostEx = ChargedEx + Bump(0, Waits(BeforeEx, imem[id_ex.pc]))
    /\ (~id_ex.valid /\ if_id.valid) =>
          LostEx + 1 = ChargedEx + Bump(0, Waits(BeforeEx, imem[if_id.pc]))
    /\ ~if_id.valid => LostEx + 2 = ChargedEx

\* With a fetch on every cycle there is nothing but a squash to leave ID
\* empty, and only branches and jumps squash.
Squashes ==
    /\ id_ex.valid => if_id.valid
    /\ past.missed[1] => ex_mem.valid /\ is_control(ex_mem.op)
    /\ past.missed[2] => mem_wb.valid /\ is_control(mem_wb.op)
    /\ ~if_id.valid => ~is_load(BeforeEx.op)

\* The bookkeeping is numbers and truth values; last may be any word.
PastOK ==
    past \in [control : Nat, mispredicts : Nat, accesses : Nat, interlocks : Nat,
              last : {past.last}, missed : BOOLEAN \X BOOLEAN]

-----------------------------------------------------------------------------
\* A single-cycle memory answers on every cycle.
LEMMA AlwaysFetched ==
    ASSUME Plain, PortsBuilt PROVE i_served
<1> DEFINE b == iport.backing
<1>1. b \in I!MemState(cfg.imem_latency_cycles)
  BY DEF PortsBuilt, ICaches, I!CacheState
<1>2. b.latency = 1 /\ b.serving \in BOOLEAN /\ b.remaining = 0
  <2>1. I!AtLeast1(cfg.imem_latency_cycles) = 1
    BY <1>1 DEF Plain, I!MemState
  <2> QED BY <1>1, <2>1 DEF I!MemState
<1>3. b \in [latency : {1}, serving : BOOLEAN, remaining : Int]
  BY <1>1, <1>2 DEF I!MemState
<1>4. IAsked.backing = I!mem_ready(b)
  <2>1. \A m : [iport EXCEPT !.backing = m].backing = m
    BY DEF PortsBuilt, ICaches, I!CacheState
  <2> QED BY <2>1 DEF Plain, IAsked
<1> HIDE DEF b
<1>5. I!mem_served(I!mem_ready(b))
  <2>1. CASE b.serving
    BY <1>2, <2>1 DEF I!mem_served, I!mem_ready
  <2>2. CASE ~b.serving
    BY <1>2, <1>3, <2>2 DEF I!mem_served, I!mem_ready
  <2> QED BY <2>1, <2>2
<1> QED BY <1>4, <1>5 DEF i_served, Plain

\* A tick of the data port: a wait grows by one on a stall and is the whole
\* latency when MEM moves on.
LEMMA WaitGrows ==
    ASSUME Plain, PortsBuilt, DataPortInStep
    PROVE  /\ dport.backing.latency \in Nat /\ dport.backing.latency >= 1
           /\ Stalled \in Int
           /\ DClocked(DAsked).backing.latency = dport.backing.latency
           /\ mem_stall => StalledIn(DClocked(DAsked).backing) = Stalled + 1
           /\ ~mem_stall => /\ StalledIn(DClocked(DAsked).backing) = 0
                            /\ accessing => Stalled = dport.backing.latency - 1
                            /\ ~accessing => Stalled = 0
<1> DEFINE b == dport.backing
<1>0. cfg \in Configs /\ dport \in DCaches /\ ~cfg.dcache_enabled
  BY DEF PortsBuilt, Plain
<1>1. /\ b \in D!MemState(cfg.dmem_latency_cycles)
      /\ \A m : [dport EXCEPT !.backing = m].backing = m
      /\ \A m, n : [[dport EXCEPT !.backing = m] EXCEPT !.backing = n].backing = n
  BY <1>0 DEF DCaches, D!CacheState
<1>2. /\ b \in [latency : Nat, serving : BOOLEAN, remaining : Nat]
      /\ b.latency >= 1 /\ b.remaining < b.latency
  <2>1. /\ D!AtLeast1(cfg.dmem_latency_cycles) \in Nat
        /\ D!AtLeast1(cfg.dmem_latency_cycles) >= 1
    BY <1>0, ConfigAssumption DEF D!AtLeast1, SimConfig
  <2> QED BY <1>1, <2>1 DEF D!MemState
<1>3. CASE accessing
  <2> DEFINE q == D!mem_ready(b)
  <2>1. /\ d_served <=> D!mem_served(q)
        /\ DClocked(DAsked).backing = D!mem_tick(q)
    BY <1>0, <1>1, <1>3 DEF d_served, DAsked, DClocked
  <2>2. /\ q \in [latency : Nat, serving : BOOLEAN, remaining : Nat]
        /\ q.serving /\ q.latency = b.latency
        /\ Stalled = b.latency - 1 - q.remaining
    <3> HIDE DEF b
    <3>1. b.latency - 1 \in Nat /\ Stalled = StalledIn(b)
      BY <1>2 DEF Stalled, b
    <3>2. CASE b.serving
      BY <1>2, <3>1, <3>2 DEF D!mem_ready, StalledIn
    <3>3. CASE ~b.serving
      <4> DEFINE n == b.latency - 1
      <4>1. n \in Nat /\ n - n = 0 /\ Stalled = 0
        BY <3>1, <3>3 DEF StalledIn
      <4>2. q = [b EXCEPT !.serving = TRUE, !.remaining = n]
        BY <3>3 DEF D!mem_ready
      <4> HIDE DEF n, q
      <4>3. /\ q \in [latency : Nat, serving : BOOLEAN, remaining : Nat]
            /\ q.serving /\ q.latency = b.latency /\ q.remaining = n
        BY <1>2, <4>1, <4>2
      <4> QED BY <4>1, <4>3 DEF n
    <3> QED BY <3>2, <3>3
  <2> HIDE DEF q, b
  <2>3. CASE q.remaining = 0
    <3>1. D!mem_served(q) /\ D!mem_tick(q) = [q EXCEPT !.serving = FALSE]
      BY <2>2, <2>3 DEF D!mem_served, D!mem_tick
    <3>2. StalledIn(D!mem_tick(q)) = 0 /\ D!mem_tick(q).latency = b.latency
      BY <2>2, <3>1 DEF StalledIn
    <3> QED BY <1>2, <1>3, <2>1, <2>2, <2>3, <3>1, <3>2 DEF mem_stall, b
  <2>4. CASE q.remaining # 0
    <3>1. ~D!mem_served(q) /\ D!mem_tick(q) = [q EXCEPT !.remaining = q.remaining - 1]
      BY <2>2, <2>4 DEF D!mem_served, D!mem_tick
    <3>2. /\ StalledIn(D!mem_tick(q)) = b.latency - 1 - (q.remaining - 1)
          /\ D!mem_tick(q).latency = b.latency
      BY <2>2, <3>1 DEF StalledIn
    <3> QED BY <1>2, <1>3, <2>1, <2>2, <3>1, <3>2 DEF mem_stall, b
  <2> QED BY <2>3, <2>4
<1>4. CASE ~accessing
  <2>1. DClocked(DAsked).backing = D!mem_tick(b) /\ ~b.serving
    BY <1>0, <1>1, <1>4 DEF DAsked, DClocked, DataPortInStep
  <2>2. D!mem_tick(b) = b /\ StalledIn(b) = 0
    BY <2>1 DEF D!mem_tick, StalledIn
  <2> QED BY <1>2, <1>4, <2>1, <2>2 DEF mem_stall, Stalled
<1> QED BY <1>3, <1>4

\* A configuration keeps its latencies.
LEMMA PlainSteady ==
    ASSUME PortsBuilt, PortsBuilt', cfg' = cfg
    PROVE  /\ Plain' <=> Plain
           /\ dport'.backing.latency = dport.backing.latency
           /\ dport.backing.latency - 1 \in Nat
<1>1. /\ iport.backing.latency = I!AtLeast1(cfg.imem_latency_cycles)
      /\ dport.backing.latency = D!AtLeast1(cfg.dmem_latency_cycles)
  BY DEF PortsBuilt, ICaches, DCaches, I!CacheState, D!CacheState, I!MemState,
         D!MemState
<1>2. /\ iport'.backing.latency = I!AtLeast1(cfg'.imem_latency_cycles)
      /\ dport'.backing.latency = D!AtLeast1(cfg'.dmem_latency_cycles)
  BY DEF PortsBuilt, ICaches, DCaches, I!CacheState, D!CacheState, I!MemState,
         D!MemState
<1>3. cfg.dmem_latency_cycles \in Nat
  BY ConfigAssumption DEF PortsBuilt, SimConfig
<1>4. D!AtLeast1(cfg.dmem_latency_cycles) - 1 \in Nat
  BY <1>3 DEF D!AtLeast1
<1> QED BY <1>1, <1>2, <1>4 DEF Plain

\* What a tick, on either path, remembers of the instruction that retires.
LEMMA Remembers ==
    ASSUME PastOK, Observe, OpsOfProgram
    PROVE  /\ PastOK'
           /\ past'.accesses =
                past.accesses + Bump(0, mem_wb.valid /\ is_mem_op(mem_wb.op))
           /\ past'.interlocks =
                past.interlocks
                  + Bump(0, mem_wb.valid /\ Waits(past.last, imem[mem_wb.pc]))
           /\ past'.mispredicts =
                past.mispredicts + Bump(0, mem_wb.valid /\ past.missed[2])
           /\ past'.last = BeforeMem
           /\ mem_stall => past'.missed = <<past.missed[1], FALSE>>
           /\ ~mem_stall => past'.missed = <<redirect, past.missed[1]>>
<1> DEFINE moved == IF mem_stall THEN <<past.missed[1], FALSE>>
                                 ELSE <<redirect, past.missed[1]>>
           raw == imem[mem_wb.pc]
           R(l) == [control : Nat, mispredicts : Nat, accesses : Nat,
                    interlocks : Nat, last : {l}, missed : BOOLEAN \X BOOLEAN]
<1>1. /\ past.control \in Nat /\ past.mispredicts \in Nat /\ past.accesses \in Nat
      /\ past.interlocks \in Nat
      /\ past.missed[1] \in BOOLEAN /\ past.missed[2] \in BOOLEAN
  BY DEF PastOK
<1>2. moved \in BOOLEAN \X BOOLEAN
  <2>1. redirect \in BOOLEAN
    BY DEF redirect
  <2> HIDE DEF redirect
  <2> QED BY <1>1, <2>1
<1>3. \A n \in Nat : \A p : Bump(n, p) \in Nat /\ Bump(n, p) = n + Bump(0, p)
  BY DEF Bump
<1>4. CASE ~mem_wb.valid
  <2>1. past' = [past EXCEPT !.missed = moved]
    BY <1>4 DEF Observe, Remembered
  <2> HIDE DEF moved
  <2>2. past' \in R(past.last) /\ past'.missed = moved
    BY <1>2, <2>1 DEF PastOK
  <2>3. /\ past'.accesses = past.accesses /\ past'.interlocks = past.interlocks
        /\ past'.mispredicts = past.mispredicts /\ past'.last = past.last
    BY <2>1
  <2>4. \A p : Bump(0, mem_wb.valid /\ p) = 0
    BY <1>4 DEF Bump
  <2>5. PastOK'
    BY <2>2, <2>3 DEF PastOK
  <2>6. BeforeMem = past.last
    BY <1>4 DEF BeforeMem
  <2>7. \A n \in Nat : n = n + 0
    OBVIOUS
  <2> QED BY <1>1, <2>2, <2>3, <2>4, <2>5, <2>6, <2>7 DEF moved
<1>5. CASE mem_wb.valid
  <2>1. past' = [control     |-> Bump(past.control, is_control(raw.op)),
                 mispredicts |-> Bump(past.mispredicts, past.missed[2]),
                 accesses    |-> Bump(past.accesses, is_mem_op(raw.op)),
                 interlocks  |-> Bump(past.interlocks, Waits(past.last, raw)),
                 last |-> raw, missed |-> moved]
    BY <1>5 DEF Observe, Remembered, Waits
  <2>2. mem_wb.op = raw.op
    BY <1>5 DEF OpsOfProgram
  <2> HIDE DEF moved
  <2>3. past' \in R(raw) /\ past'.missed = moved /\ past'.last = raw
    BY <1>1, <1>2, <1>3, <2>1
  <2>4. /\ past'.accesses = past.accesses + Bump(0, is_mem_op(mem_wb.op))
        /\ past'.interlocks = past.interlocks + Bump(0, Waits(past.last, raw))
        /\ past'.mispredicts = past.mispredicts + Bump(0, past.missed[2])
    BY <1>1, <1>3, <2>1, <2>2
  <2>5. \A p : Bump(0, mem_wb.valid /\ p) = Bump(0, p)
    BY <1>5 DEF Bump
  <2>6. PastOK'
    BY <2>3 DEF PastOK
  <2>7. BeforeMem = raw
    BY <1>5 DEF BeforeMem
  <2> HIDE DEF raw
  <2>8. past'.interlocks = past.interlocks
          + Bump(0, mem_wb.valid /\ Waits(past.last, imem[mem_wb.pc]))
    BY <2>4, <2>5 DEF raw
  <2> QED BY <2>3, <2>4, <2>5, <2>6, <2>7, <2>8 DEF moved
<1> QED BY <1>4, <1>5

\* A truth value counts for nought or one.
LEMMA BumpType == \A p : Bump(0, p) \in {0, 1} /\ (Bump(0, p) = 1 <=> p)
BY DEF Bump

\* Both sides of the ledger are numbers.
LEMMA LedgerType ==
    ASSUME stats \in Stats, PastOK, dport.backing.latency - 1 \in Nat, Stalled \in Int
    PROVE  /\ Lost \in Int /\ LostMem \in Int /\ LostEx \in Int
           /\ Charged \in Int /\ ChargedMem \in Int /\ ChargedEx \in Int
<1>1. \A p : Bump(0, p) \in Int
  BY DEF Bump
<1>2. Lost \in Int
  BY DEF Lost, Stats
<1>3. LostMem \in Int /\ LostEx \in Int
  BY <1>1, <1>2 DEF LostMem, LostEx
<1>4. past.accesses \in Int /\ past.interlocks \in Int /\ past.mispredicts \in Int
  BY DEF PastOK
<1>5. \A a, b \in Int : a * b \in Int
  OBVIOUS
<1>6. (dport.backing.latency - 1)
        * (past.accesses + Bump(0, mem_wb.valid /\ is_mem_op(mem_wb.op))) \in Int
  BY <1>1, <1>4, <1>5
<1>7. Charged \in Int
  BY <1>1, <1>4, <1>6 DEF Charged
<1>8. ChargedMem \in Int
  BY <1>1, <1>7 DEF ChargedMem
<1> QED BY <1>1, <1>2, <1>3, <1>7, <1>8 DEF ChargedEx

\* A cycle on which MEM waits: the instructions from MEM on lose one more
\* cycle and are charged with it.
LEMMA StallCharges ==
    ASSUME TypeOK, Plain, PortsBuilt, PortsBuilt', DataPortInStep, stats \in Stats,
           PastOK, OpsOfProgram, Squashes, CoreStallTick
    PROVE  /\ LostMem' = LostMem + 1 /\ LostEx' = LostEx + 1
           /\ ChargedMem' = ChargedMem + 1 /\ ChargedEx' = ChargedEx + 1
           /\ BeforeEx' = BeforeEx
<1>1. /\ Observe /\ mem_stall /\ ~mem_wb'.valid /\ imem' = imem /\ ex_mem' = ex_mem
      /\ dport' = DClocked(DAsked) /\ cfg' = cfg
  BY DEF CoreStallTick, StallTick, Observe, MemWbBubble
<1> DEFINE mW == Bump(0, mem_wb.valid /\ is_mem_op(mem_wb.op))
           wW == Bump(0, mem_wb.valid /\ Waits(past.last, imem[mem_wb.pc]))
           wM == Bump(0, ex_mem.valid /\ Waits(BeforeMem, imem[ex_mem.pc]))
           m1 == Bump(0, past.missed[1])
           m2 == Bump(0, past.missed[2])
           l == dport.backing.latency - 1
<1>2. /\ PastOK' /\ past'.accesses = past.accesses + mW
      /\ past'.interlocks = past.interlocks + wW
      /\ past'.mispredicts = past.mispredicts + m2
      /\ past'.last = BeforeMem /\ past'.missed = <<past.missed[1], FALSE>>
  <2>1. (mem_wb.valid /\ past.missed[2]) <=> past.missed[2]
    BY DEF Squashes
  <2>2. Bump(0, mem_wb.valid /\ past.missed[2]) = m2
    BY <2>1 DEF Bump
  <2> QED BY <1>1, <2>2, Remembers
<1>3. /\ l \in Nat /\ dport'.backing.latency - 1 = l
      /\ Stalled \in Int /\ Stalled' = Stalled + 1
  BY <1>1, PlainSteady, WaitGrows DEF Stalled
<1>4. BeforeMem' = BeforeMem /\ BeforeEx' = BeforeEx
  BY <1>1, <1>2 DEF BeforeMem, BeforeEx
<1>5. /\ mW \in {0, 1} /\ wW \in {0, 1} /\ wM \in {0, 1} /\ m1 \in {0, 1}
      /\ m2 \in {0, 1}
  BY BumpType
<1>6. /\ Bump(0, mem_wb.valid /\ is_mem_op(mem_wb.op))' = 0
      /\ Bump(0, mem_wb.valid /\ Waits(past.last, imem[mem_wb.pc]))' = 0
      /\ Bump(0, ex_mem.valid /\ Waits(BeforeMem, imem[ex_mem.pc]))' = wM
      /\ Bump(0, past.missed[1])' = m1 /\ Bump(0, past.missed[2])' = 0
  BY <1>1, <1>2, <1>4 DEF Bump
<1>7. /\ Lost' = LostMem /\ Lost \in Int
      /\ LostMem' = LostMem + 1 /\ LostEx' = LostEx + 1
  <2>1. /\ stats'.cycles = stats.cycles + 1
        /\ stats'.instructions = Bump(stats.instructions, mem_wb.valid)
        /\ stats.cycles \in Nat /\ stats.instructions \in Nat
    BY <1>1 DEF Observe, Counted, Stats
  <2>2. Lost' = LostMem /\ Lost \in Int
    BY <2>1 DEF Lost, LostMem, Bump
  <2>3. LostMem' = LostMem + 1
    BY <1>1, <2>2 DEF LostMem, Bump
  <2>4. LostEx' = LostEx + 1
    BY <1>1, <2>2, <2>3 DEF LostMem, LostEx, Bump
  <2> QED BY <2>2, <2>3, <2>4
<1>8. past.accesses \in Nat /\ past.interlocks \in Nat /\ past.mispredicts \in Nat
  BY DEF PastOK
<1>9. /\ Charged = 4 + l * (past.accesses + mW) + past.interlocks + wW
                     + 2 * past.mispredicts
      /\ Charged' = 4 + l * (past'.accesses + 0) + past'.interlocks + 0
                      + 2 * past'.mispredicts
  BY <1>3, <1>6 DEF Charged
<1>10. /\ ChargedMem = Charged + Stalled + wM + 2 * m2
       /\ ChargedMem' = Charged' + Stalled' + wM + 2 * 0
  BY <1>6 DEF ChargedMem
<1>11. ChargedEx = ChargedMem + 2 * m1 /\ ChargedEx' = ChargedMem' + 2 * m1
  BY <1>6 DEF ChargedEx
<1> HIDE DEF mW, wW, wM, m1, m2, l
<1>12. l * (past.accesses + mW) \in Int /\ past'.accesses + 0 = past.accesses + mW
  BY <1>2, <1>3, <1>5, <1>8
<1>13. Charged' = Charged + 2 * m2 /\ Charged \in Int
  BY <1>2, <1>5, <1>8, <1>9, <1>12
<1>14. ChargedMem' = ChargedMem + 1 /\ ChargedMem \in Int
  BY <1>3, <1>5, <1>10, <1>13
<1>15. ChargedEx' = ChargedEx + 1
  BY <1>5, <1>11, <1>14
<1> QED BY <1>4, <1>7, <1>14, <1>15

\* A cycle on which the pipeline moves: every account passes to the next
\* stage, and that of EX takes up the waits of the instruction that leaves it
\* and the squash it causes.
LEMMA AdvanceCharges ==
    ASSUME TypeOK, Plain, PortsBuilt, PortsBuilt', DataPortInStep, stats \in Stats,
           PastOK, OpsOfProgram, Squashes, CoreAdvanceTick
    PROVE  /\ Lost' = LostMem /\ LostMem' = LostEx
           /\ LostEx' = LostEx + Bump(0, ~id_ex.valid)
           /\ Charged' = ChargedMem
           /\ ChargedMem' = ChargedEx
                + Bump(0, id_ex.valid /\ Waits(BeforeEx, imem[id_ex.pc]))
           /\ ChargedEx' = ChargedMem' + 2 * Bump(0, redirect)
           /\ BeforeEx' = IF id_ex.valid THEN imem[id_ex.pc] ELSE BeforeEx
<1>1. /\ Observe /\ ~mem_stall /\ imem' = imem /\ ex_mem' = Executed
      /\ mem_wb' = Accessed /\ dport' = DClocked(DAsked) /\ cfg' = cfg
  BY DEF CoreAdvanceTick, AdvanceTick, Observe
<1>2. /\ ex_mem'.valid <=> id_ex.valid
      /\ id_ex.valid => ex_mem'.pc = id_ex.pc
      /\ mem_wb'.valid <=> ex_mem.valid
      /\ ex_mem.valid => mem_wb'.pc = ex_mem.pc /\ mem_wb'.op = ex_mem.op
  BY <1>1 DEF Executed, ExMemBubble, Accessed, MemWbBubble
<1> DEFINE mW == Bump(0, mem_wb.valid /\ is_mem_op(mem_wb.op))
           wW == Bump(0, mem_wb.valid /\ Waits(past.last, imem[mem_wb.pc]))
           mM == Bump(0, ex_mem.valid /\ is_mem_op(ex_mem.op))
           wM == Bump(0, ex_mem.valid /\ Waits(BeforeMem, imem[ex_mem.pc]))
           wE == Bump(0, id_ex.valid /\ Waits(BeforeEx, imem[id_ex.pc]))
           m0 == Bump(0, redirect)
           m1 == Bump(0, past.missed[1])
           m2 == Bump(0, past.missed[2])
           l == dport.backing.latency - 1
<1>3. /\ PastOK' /\ past'.accesses = past.accesses + mW
      /\ past'.interlocks = past.interlocks + wW
      /\ past'.mispredicts = past.mispredicts + m2
      /\ past'.last = BeforeMem /\ past'.missed = <<redirect, past.missed[1]>>
  <2>1. (mem_wb.valid /\ past.missed[2]) <=> past.missed[2]
    BY DEF Squashes
  <2>2. Bump(0, mem_wb.valid /\ past.missed[2]) = m2
    BY <2>1 DEF Bump
  <2> QED BY <1>1, <2>2, Remembers
<1>4. /\ mW \in {0, 1} /\ wW \in {0, 1} /\ mM \in {0, 1} /\ wM \in {0, 1}
      /\ wE \in {0, 1} /\ m0 \in {0, 1} /\ m1 \in {0, 1} /\ m2 \in {0, 1}
  BY BumpType
<1>5. /\ l \in Nat /\ dport'.backing.latency - 1 = l
      /\ Stalled = l * mM /\ Stalled' = 0
  <2>1. /\ l \in Nat /\ dport'.backing.latency - 1 = l
        /\ Stalled' = 0
        /\ accessing => Stalled = l
        /\ ~accessing => Stalled = 0
    BY <1>1, PlainSteady, WaitGrows DEF Stalled
  <2>2. \A n \in Nat : n * 1 = n /\ n * 0 = 0
    OBVIOUS
  <2>3. (accessing => mM = 1) /\ (~accessing => mM = 0)
    BY DEF accessing, Bump
  <2> HIDE DEF l, mM
  <2> QED BY <2>1, <2>2, <2>3
<1>6. BeforeMem' = BeforeEx
  BY <1>1, <1>2, <1>3 DEF BeforeMem, BeforeEx
<1>7. BeforeEx' = IF id_ex.valid THEN imem[id_ex.pc] ELSE BeforeEx
  BY <1>1, <1>2, <1>6 DEF BeforeEx
<1>8. /\ Bump(0, mem_wb.valid /\ is_mem_op(mem_wb.op))' = mM
      /\ Bump(0, mem_wb.valid /\ Waits(past.last, imem[mem_wb.pc]))' = wM
  BY <1>1, <1>2, <1>3 DEF Bump
<1>9. /\ Bump(0, ex_mem.valid /\ Waits(BeforeMem, imem[ex_mem.pc]))' = wE
      /\ Bump(0, past.missed[1])' = m0 /\ Bump(0, past.missed[2])' = m1
  BY <1>1, <1>2, <1>3, <1>6 DEF Bump
<1>10. /\ Lost' = LostMem /\ LostMem' = LostEx
       /\ LostEx' = LostEx + Bump(0, ~id_ex.valid)
  <2>1. /\ stats'.cycles = stats.cycles + 1
        /\ stats'.instructions = Bump(stats.instructions, mem_wb.valid)
        /\ stats.cycles \in Nat /\ stats.instructions \in Nat
    BY <1>1 DEF Observe, Counted, Stats
  <2>2. Lost' = LostMem /\ Lost \in Int
    BY <2>1 DEF Lost, LostMem, Bump
  <2>3. LostMem' = LostEx
    BY <1>2, <2>2 DEF LostMem, LostEx, Bump
  <2>4. LostEx' = LostEx + Bump(0, ~id_ex.valid)
    BY <1>2, <2>3 DEF LostEx, Bump
  <2> QED BY <2>2, <2>3, <2>4
<1>11. past.accesses \in Nat /\ past.interlocks \in Nat /\ past.mispredicts \in Nat
  BY DEF PastOK
<1>12. /\ Charged = 4 + l * (past.accesses + mW) + past.interlocks + wW
                      + 2 * past.mispredicts
       /\ Charged' = 4 + l * (past'.accesses + mM) + past'.interlocks + wM
                       + 2 * past'.mispredicts
  BY <1>5, <1>8 DEF Charged
<1>13. /\ ChargedMem = Charged + Stalled + wM + 2 * m2
       /\ ChargedMem' = Charged' + 0 + wE + 2 * m1
  BY <1>5, <1>9 DEF ChargedMem
<1>14. ChargedEx = ChargedMem + 2 * m1 /\ ChargedEx' = ChargedMem' + 2 * m0
  BY <1>9 DEF ChargedEx
<1> HIDE DEF mW, wW, wM, mM, wE, m0, m1, m2, l
<1>15. /\ l * (past.accesses + mW) \in Int /\ l * mM \in Int
       /\ l * (past'.accesses + mM) = l * (past.accesses + mW) + l * mM
  <2>1. \A x, y, z \in Int : x * y \in Int /\ x * (y + z) = x * y + x * z
    OBVIOUS
  <2>2. l \in Int /\ past.accesses + mW \in Int /\ mM \in Int
    BY <1>4, <1>5, <1>11
  <2> QED BY <1>3, <2>1, <2>2
<1>16. Charged' = ChargedMem /\ ChargedMem \in Int
  BY <1>3, <1>4, <1>5, <1>11, <1>12, <1>13, <1>15
<1>17. ChargedMem' = ChargedEx + wE
  BY <1>4, <1>13, <1>14, <1>16
<1> QED BY <1>7, <1>10, <1>14, <1>16, <1>17 DEF wE, m0

\* Only a branch or a jump redirects fetch, where instructions are fetched
\* from word-aligned addresses: nothing else was predicted taken.
LEMMA RedirectIsControl ==
    ASSUME TypeOK, IInv, ~halted, redirect
    PROVE  id_ex.valid /\ is_control(id_ex.op)
<1>1. id_ex.valid /\ (actual_taken \/ id_ex.predicted_taken)
  BY DEF redirect, actual_taken, Taken, TypeOK, IdEx
<1>2. CASE id_ex.predicted_taken
  <2>1. HasStaticTarget(id_ex.op)
    BY <1>1, <1>2 DEF IInv, PredictionsHaveTargets, StagesHoldProgram
  <2> QED BY <1>1, <2>1 DEF HasStaticTarget, is_control, is_cond_branch, Jumps
<1>3. CASE actual_taken
  <2>1. id_ex.op \in Op
    BY DEF TypeOK, IdEx
  <2>2. id_ex.op \in Branches \cup Jumps
    BY <1>3, <2>1, OperandType, BranchAssumption DEF actual_taken, Taken
  <2> QED BY <1>1, <2>2 DEF is_control, is_cond_branch
<1> QED BY <1>1, <1>2, <1>3

\* The interlock is the one the program has.
LEMMA InterlockIsWait ==
    ASSUME TypeOK, IInv, ~halted, id_ex.valid, if_id.valid
    PROVE  load_use_stall <=> Waits(imem[id_ex.pc], imem[if_id.pc])
<1>1. /\ if_id.raw = imem[if_id.pc]
      /\ id_ex.op = decode(imem[id_ex.pc]).op /\ id_ex.rd = decode(imem[id_ex.pc]).rd
  BY DEF IInv, StagesHoldProgram, Insn
<1>2. is_load(id_ex.op) => id_ex.rd = imem[id_ex.pc].rd
  BY <1>1 DEF decode, is_load, Loads, Branches, Stores, System
<1>3. id_ex.op = imem[id_ex.pc].op
  BY <1>1 DEF decode
<1> QED BY <1>1, <1>2, <1>3 DEF load_use_stall, Waits

\* A cycle on which MEM waits keeps the ledger.
LEMMA StallLedger ==
    ASSUME TypeOK, Plain, PortsBuilt, PortsBuilt', DataPortInStep, stats \in Stats,
           PastOK, OpsOfProgram, Squashes, Ledger, CoreStallTick
    PROVE  Ledger' /\ Squashes'
<1>1. /\ imem' = imem /\ ex_mem' = ex_mem /\ if_id' = if_id /\ ~mem_wb'.valid
      /\ id_ex'.valid <=> id_ex.valid
      /\ id_ex'.pc = id_ex.pc
  BY DEF CoreStallTick, StallTick, CapturedOperands, MemWbBubble
<1>2. past'.missed[1] = past.missed[1] /\ ~past'.missed[2]
  <2>1. past'.missed = <<past.missed[1], FALSE>>
    BY Remembers DEF CoreStallTick
  <2> QED BY <2>1
<1>3. /\ LostMem' = LostMem + 1 /\ LostEx' = LostEx + 1
      /\ ChargedMem' = ChargedMem + 1 /\ ChargedEx' = ChargedEx + 1
      /\ BeforeEx' = BeforeEx
  BY StallCharges
<1>4. LostMem \in Int /\ LostEx \in Int /\ ChargedMem \in Int /\ ChargedEx \in Int
  BY LedgerType, WaitGrows
<1> DEFINE wE == Bump(0, Waits(BeforeEx, imem[id_ex.pc]))
           wF == Bump(0, Waits(BeforeEx, imem[if_id.pc]))
<1>5. /\ wE \in Int /\ wF \in Int
      /\ Bump(0, Waits(BeforeEx', imem'[id_ex'.pc])) = wE
      /\ Bump(0, Waits(BeforeEx', imem'[if_id'.pc])) = wF
      /\ id_ex.valid => LostEx = ChargedEx + wE
      /\ (~id_ex.valid /\ if_id.valid) => LostEx + 1 = ChargedEx + wF
  BY <1>1, <1>3, BumpType DEF Ledger
<1> HIDE DEF wE, wF
<1>6. Ledger'
  <2>1. ex_mem'.valid => LostMem' = ChargedMem'
    BY <1>1, <1>3, <1>4 DEF Ledger
  <2>2. id_ex'.valid =>
          LostEx' = ChargedEx' + Bump(0, Waits(BeforeEx', imem'[id_ex'.pc]))
    BY <1>1, <1>3, <1>4, <1>5
  <2>3. (~id_ex'.valid /\ if_id'.valid) =>
          LostEx' + 1 = ChargedEx' + Bump(0, Waits(BeforeEx', imem'[if_id'.pc]))
    BY <1>1, <1>3, <1>4, <1>5
  <2>4. ~if_id'.valid => LostEx' + 2 = ChargedEx'
    BY <1>1, <1>3, <1>4 DEF Ledger
  <2> QED BY <1>1, <2>1, <2>2, <2>3, <2>4 DEF Ledger
<1>7. Squashes'
  BY <1>1, <1>2, <1>3 DEF Squashes
<1> QED BY <1>6, <1>7

\* A cycle on which the pipeline moves keeps the ledger.
LEMMA AdvanceLedger ==
    ASSUME TypeOK, Plain, PortsBuilt, PortsBuilt', DataPortInStep, stats \in Stats,
           PastOK, OpsOfProgram, IInv, Squashes, Ledger, CoreAdvanceTick
    PROVE  Ledger' /\ Squashes'
<1>1. /\ AdvanceTick(i_served) /\ i_served \in BOOLEAN /\ imem' = imem /\ ~halted
      /\ ~mem_stall /\ Observe
  BY AnswersAreBoolean DEF CoreAdvanceTick, AdvanceTick, Running
<1>2. /\ ex_mem'.valid <=> id_ex.valid
      /\ id_ex.valid => ex_mem'.pc = id_ex.pc /\ ex_mem'.op = id_ex.op
      /\ id_ex'.valid <=> (if_id.valid /\ ~redirect /\ ~load_use_stall)
      /\ id_ex'.valid => id_ex'.pc = if_id.pc
  BY <1>1, AdvanceStages
<1>3. /\ mem_wb'.valid <=> ex_mem.valid
      /\ ex_mem.valid => mem_wb'.op = ex_mem.op
  BY <1>1 DEF AdvanceTick, Accessed, MemWbBubble
<1>4. /\ redirect => ~if_id'.valid
      /\ (~redirect /\ load_use_stall) => if_id' = if_id
      /\ (~redirect /\ ~load_use_stall) => if_id'.valid
  BY <1>1, AlwaysFetched DEF AdvanceTick, FetchLatch, IfIdBubble, Fetched
<1>5. past'.missed = <<redirect, past.missed[1]>>
  BY <1>1, Remembers
<1>6. redirect => id_ex.valid /\ is_control(id_ex.op)
  BY <1>1, RedirectIsControl
<1>7. (id_ex.valid /\ if_id.valid) =>
        (load_use_stall <=> Waits(imem[id_ex.pc], imem[if_id.pc]))
  BY <1>1, InterlockIsWait
<1>8. load_use_stall => id_ex.valid
  BY DEF load_use_stall
<1> DEFINE wE == Bump(0, id_ex.valid /\ Waits(BeforeEx, imem[id_ex.pc]))
<1>9. /\ Lost' = LostMem /\ LostMem' = LostEx
      /\ LostEx' = LostEx + Bump(0, ~id_ex.valid)
      /\ Charged' = ChargedMem /\ ChargedMem' = ChargedEx + wE
      /\ ChargedEx' = ChargedEx + wE + 2 * Bump(0, redirect)
      /\ BeforeEx' = IF id_ex.valid THEN imem[id_ex.pc] ELSE BeforeEx
  BY AdvanceCharges
<1>10. LostMem \in Int /\ LostEx \in Int /\ ChargedMem \in Int /\ ChargedEx \in Int
  BY LedgerType, WaitGrows
<1>11. wE \in {0, 1} /\ (~id_ex.valid => wE = 0)
       /\ (id_ex.valid => wE = Bump(0, Waits(BeforeEx, imem[id_ex.pc])))
  BY DEF Bump
<1>12. /\ id_ex.valid => LostEx = ChargedEx + wE
       /\ (~id_ex.valid /\ if_id.valid) =>
             LostEx + 1 = ChargedEx + Bump(0, Waits(BeforeEx, imem[if_id.pc]))
       /\ ~if_id.valid => LostEx + 2 = ChargedEx
       /\ ex_mem.valid => LostMem = ChargedMem
  BY <1>11 DEF Ledger
<1> HIDE DEF wE
<1>13. Ledger'
  <2>1. mem_wb'.valid => Lost' = Charged'
    BY <1>3, <1>9, <1>12
  <2>2. ex_mem'.valid => LostMem' = ChargedMem'
    BY <1>2, <1>9, <1>12
  <2>3. ASSUME id_ex'.valid
        PROVE  LostEx' = ChargedEx' + Bump(0, Waits(BeforeEx', imem'[id_ex'.pc]))
    <3>1. if_id.valid /\ ~redirect /\ ~load_use_stall /\ id_ex'.pc = if_id.pc
      BY <1>2, <2>3
    <3>2. CASE id_ex.valid
      BY <1>1, <1>7, <1>9, <1>10, <1>11, <1>12, <3>1, <3>2 DEF Bump
    <3>3. CASE ~id_ex.valid
      BY <1>1, <1>9, <1>10, <1>11, <1>12, <3>1, <3>3 DEF Bump
    <3> QED BY <3>2, <3>3
  <2>4. ASSUME ~id_ex'.valid, if_id'.valid
        PROVE  LostEx' + 1
                 = ChargedEx' + Bump(0, Waits(BeforeEx', imem'[if_id'.pc]))
    <3>1. ~redirect /\ (load_use_stall \/ ~if_id.valid)
      BY <1>2, <1>4, <2>4
    <3>2. CASE load_use_stall
      <4>1. id_ex.valid /\ if_id.valid /\ if_id' = if_id
        BY <1>4, <1>8, <3>1, <3>2 DEF Squashes
      <4> QED BY <1>1, <1>7, <1>9, <1>10, <1>11, <1>12, <3>1, <3>2, <4>1 DEF Bump
    <3>3. CASE ~if_id.valid
      <4>1. ~id_ex.valid /\ ~is_load(BeforeEx.op)
        BY <3>3 DEF Squashes
      <4>2. ~Waits(BeforeEx', imem'[if_id'.pc])
        BY <1>9, <4>1 DEF Waits
      <4> QED BY <1>9, <1>10, <1>11, <1>12, <3>1, <3>3, <4>1, <4>2 DEF Bump
    <3> QED BY <3>1, <3>2, <3>3
  <2>5. ASSUME ~if_id'.valid PROVE LostEx' + 2 = ChargedEx'
    <3>1. redirect \/ (load_use_stall /\ ~if_id.valid)
      BY <1>4, <2>5
    <3>2. redirect /\ id_ex.valid
      BY <1>6, <1>8, <3>1 DEF Squashes
    <3> QED BY <1>9, <1>10, <1>11, <1>12, <3>2 DEF Bump
  <2> QED BY <2>1, <2>2, <2>3, <2>4, <2>5 DEF Ledger
<1>14. Squashes'
  <2>1. id_ex'.valid => if_id'.valid
    BY <1>2, <1>4
  <2>2. /\ past'.missed[1] => ex_mem'.valid /\ is_control(ex_mem'.op)
        /\ past'.missed[2] => mem_wb'.valid /\ is_control(mem_wb'.op)
    BY <1>2, <1>3, <1>5, <1>6 DEF Squashes
  <2>3. ASSUME ~if_id'.valid PROVE ~is_load(BeforeEx'.op)
    <3>1. redirect /\ id_ex.valid
      BY <1>4, <1>6, <1>8, <2>3 DEF Squashes
    <3>2. BeforeEx'.op = id_ex.op /\ is_control(id_ex.op)
      BY <1>6, <1>9, <3>1 DEF OpsOfProgram
    <3> QED BY <3>2 DEF is_control, is_cond_branch, is_load, Branches, Jumps, Loads
  <2> QED BY <2>1, <2>2, <2>3 DEF Squashes
<1> QED BY <1>13, <1>14

\* What the ledger is kept for: the cycle on which the machine halts.
LEMMA HaltingTick ==
    ASSUME Plain, PortsBuilt, PortsBuilt', stats \in Stats, PastOK, OpsOfProgram,
           Squashes, Ledger, Halting, Observe
    PROVE  CycleLaw'
<1>1. mem_wb.valid /\ Halts(mem_wb.op) /\ cfg' = cfg
  BY DEF Halting, Observe
<1> DEFINE mW == Bump(0, mem_wb.valid /\ is_mem_op(mem_wb.op))
           wW == Bump(0, mem_wb.valid /\ Waits(past.last, imem[mem_wb.pc]))
           l == dport.backing.latency - 1
<1>2. ~past.missed[2]
  BY <1>1 DEF Squashes, is_control, is_cond_branch, Halts, Branches, Jumps
<1>3. past.accesses \in Nat /\ past.interlocks \in Nat /\ past.mispredicts \in Nat
  BY DEF PastOK
<1>4. /\ past'.accesses = past.accesses + mW
      /\ past'.interlocks = past.interlocks + wW
      /\ past'.mispredicts = past.mispredicts
  BY <1>2, <1>3, Remembers DEF Bump
<1>5. l \in Nat /\ dport'.backing.latency - 1 = l
  BY <1>1, PlainSteady
<1>6. /\ stats'.cycles = stats.cycles + 1
      /\ stats'.instructions = stats.instructions + 1
      /\ stats.cycles \in Nat /\ stats.instructions \in Nat
  BY <1>1 DEF Observe, Counted, Stats, Bump
<1>7. stats.cycles - stats.instructions =
        4 + l * (past.accesses + mW) + past.interlocks + wW + 2 * past.mispredicts
  BY <1>1 DEF Ledger, Lost, Charged
<1>8. mW \in {0, 1} /\ wW \in {0, 1}
  BY BumpType
<1> HIDE DEF mW, wW, l
<1> DEFINE t == l * past'.accesses
<1>9. t \in Int /\ stats.cycles - stats.instructions =
                      4 + t + past.interlocks + wW + 2 * past.mispredicts
  <2>1. past'.accesses \in Int
    BY <1>3, <1>4, <1>8
  <2>2. \A x, y \in Int : x * y \in Int
    OBVIOUS
  <2> QED BY <1>4, <1>5, <1>7, <2>1, <2>2
<1> HIDE DEF t
<1>10. stats'.cycles = stats'.instructions + 4 + 2 * past'.mispredicts
                         + past'.interlocks + t
  <2>1. \A c, n, i, w, m \in Int :
          c - n = 4 + t + i + w + 2 * m => c + 1 = (n + 1) + 4 + 2 * m + (i + w) + t
    BY <1>9
  <2>2. /\ stats.cycles \in Int /\ stats.instructions \in Int
        /\ past.interlocks \in Int /\ past.mispredicts \in Int /\ wW \in Int
    BY <1>3, <1>6, <1>8
  <2> QED BY <1>4, <1>6, <1>9, <2>1, <2>2
<1> QED BY <1>5, <1>10 DEF CycleLaw, t

\* The ledger while the machine runs, the law once it has halted.
TimingInv ==
    /\ PastOK
    /\ (Plain /\ ~halted) => Ledger /\ Squashes
    /\ CycleLaw

\* An empty pipeline owes the four cycles it takes to fill.
LEMMA TimingInit == CoreInit => TimingInv
<1> SUFFICES ASSUME CoreInit PROVE TimingInv
  OBVIOUS
<1>1. /\ past = [control |-> 0, mispredicts |-> 0, accesses |-> 0, interlocks |-> 0,
                 last |-> ZeroWord, missed |-> <<FALSE, FALSE>>]
      /\ stats.cycles = 0 /\ stats.instructions = 0 /\ ~halted
      /\ ~if_id.valid /\ ~id_ex.valid /\ ~ex_mem.valid /\ ~mem_wb.valid
  BY DEF CoreInit, Init, IfIdBubble, IdExBubble, ExMemBubble, MemWbBubble, halted
<1>2. PastOK
  BY <1>1 DEF PastOK
<1>3. PortsBuilt
  BY PortsInit
<1>4. /\ dport.backing.latency - 1 \in Nat /\ ~dport.backing.serving
  <2>1. dport.backing = D!NewMem(cfg.dmem_latency_cycles)
    BY DEF CoreInit, D!NewCache
  <2>2. cfg.dmem_latency_cycles \in Nat
    BY <1>3, ConfigAssumption DEF PortsBuilt, SimConfig
  <2> QED BY <2>1, <2>2 DEF D!NewMem, D!AtLeast1
<1>5. Lost = 0 /\ LostMem = 1 /\ LostEx = 2 /\ Stalled = 0
  BY <1>1, <1>4 DEF Lost, LostMem, LostEx, Bump, Stalled, StalledIn
<1>6. Charged = 4
  <2>1. \A n \in Nat : n * (0 + 0) = 0
    OBVIOUS
  <2>2. /\ past.accesses = 0 /\ past.interlocks = 0 /\ past.mispredicts = 0
        /\ Bump(0, mem_wb.valid /\ is_mem_op(mem_wb.op)) = 0
        /\ Bump(0, mem_wb.valid /\ Waits(past.last, imem[mem_wb.pc])) = 0
    BY <1>1 DEF Bump
  <2> QED BY <1>4, <2>1, <2>2 DEF Charged
<1>7. ChargedEx = 4
  <2>1. ~past.missed[1] /\ ~past.missed[2]
    BY <1>1
  <2> QED BY <1>1, <1>5, <1>6, <2>1 DEF ChargedMem, ChargedEx, Bump
<1>8. Ledger
  BY <1>1, <1>5, <1>7 DEF Ledger
<1>9. Squashes
  <2>1. BeforeEx = ZeroWord /\ ~past.missed[1] /\ ~past.missed[2]
    BY <1>1 DEF BeforeEx, BeforeMem
  <2> QED BY <1>1, <2>1 DEF Squashes, ZeroWord, is_load, Loads
<1> QED BY <1>1, <1>2, <1>8, <1>9 DEF TimingInv, CycleLaw

\* Every step keeps it.
LEMMA TimingNext ==
    ASSUME TypeOK, IInv, OpsOfProgram, PortsBuilt, PortsBuilt', DataPortInStep,
           stats \in Stats, TimingInv, [CoreStep]_all
    PROVE  TimingInv'
<1>1. ASSUME CoreStallTick \/ CoreAdvanceTick PROVE TimingInv'
  <2>1. Observe /\ ~halted /\ DetectHalt /\ cfg' = cfg
    BY <1>1 DEF CoreStallTick, CoreAdvanceTick, StallTick, AdvanceTick, Running,
       Observe
  <2>2. PastOK /\ PastOK'
    BY <2>1, Remembers DEF TimingInv
  <2>3. Plain' <=> Plain
    BY <2>1, PlainSteady
  <2>4. CASE ~Plain
    BY <2>2, <2>3, <2>4 DEF TimingInv, CycleLaw, Plain
  <2>5. CASE Plain
    <3>1. Ledger /\ Squashes
      BY <2>1, <2>5 DEF TimingInv
    <3>2. Ledger' /\ Squashes'
      BY <1>1, <2>2, <2>5, <3>1, StallLedger, AdvanceLedger
    <3>3. CASE Halting
      <4>1. CycleLaw'
        BY <2>1, <2>2, <2>5, <3>1, <3>3, HaltingTick
      <4> QED BY <2>2, <3>2, <4>1 DEF TimingInv
    <3>4. CASE ~Halting
      <4>1. ~halted'
        BY <2>1, <3>4, HaltStep
      <4> QED BY <2>2, <3>2, <4>1 DEF TimingInv, CycleLaw
    <3> QED BY <3>3, <3>4
  <2> QED BY <2>4, <2>5
<1>2. ASSUME UNCHANGED <<imem, if_id, id_ex, ex_mem, mem_wb, halt_reason, cfg, iport,
                         dport, stats, past>>
      PROVE TimingInv'
  <2>1. /\ PastOK' <=> PastOK
        /\ Plain' <=> Plain
        /\ halted' <=> halted
        /\ CycleLaw' <=> CycleLaw
        /\ Squashes' <=> Squashes
    BY <1>2 DEF PastOK, Plain, halted, CycleLaw, Squashes, BeforeEx, BeforeMem
  <2>2. Ledger' <=> Ledger
    BY <1>2 DEF Ledger, Lost, LostMem, LostEx, Charged, ChargedMem, ChargedEx,
                Stalled, StalledIn, BeforeEx, BeforeMem
  <2> QED BY <2>1, <2>2 DEF TimingInv
<1>3. CASE CoreAbortTick
  BY <1>2, <1>3 DEF CoreAbortTick, AbortTick, own, pipe
<1>4. CASE Return
  BY <1>2, <1>4 DEF Return, vars, pipe
<1>5. CASE UNCHANGED all
  BY <1>2, <1>5 DEF all, own, vars, pipe
<1> QED BY <1>1, <1>3, <1>4, <1>5 DEF CoreStep

\* The cycles of a run: with a single-cycle instruction memory and no caches,
\* for every program, predictor and data latency, a run that halts has taken
\* one cycle for each instruction and four to fill the pipeline, two for each
\* misprediction, one for each load-use interlock, and the extra latency of
\* each access, as long as instructions are fetched from word-aligned
\* addresses or there is no predictor.
THEOREM CyclesExact == CoreSpec /\ []Aligned => []CycleLaw
<1>1. CoreSpec => []OpsOfProgram
  BY CoreIsPipeline, OpsInit, OpsNext, PTL DEF Spec
<1>2. CoreSpec /\ []Aligned => []IInv
  BY CoreIsPipeline, InvariantCorrect, PTL
<1>3. Accounts => stats \in Stats
  BY DEF Accounts
<1>4. TimingInv => CycleLaw
  BY DEF TimingInv
<1>5. /\ TypeOK /\ LogFacts /\ IInv /\ OpsOfProgram /\ PortsBuilt /\ PortsBuilt'
      /\ DataPortInStep /\ Accounts /\ TimingInv /\ [CoreStep]_all
      => TimingInv'
  BY <1>3, TimingNext
<1> QED BY <1>1, <1>2, <1>4, <1>5, LatchesCorrect, PortsCorrect, DataPortKeepsStep,
           AccountsCorrect, TimingInit, PTL DEF CoreSpec

\* The same with nothing assumed of the run, without a predictor or for a
\* program of static word-aligned targets.
THEOREM CyclesByProgram ==
    ASSUME AlignedByProgram PROVE CoreSpec => []CycleLaw
  BY CoreIsPipeline, ProgramsStayAligned, CyclesExact, PTL

-----------------------------------------------------------------------------
(***************************************************************************)
(* The gaps between retirements.                                           *)
(***************************************************************************)

\* Ticks before MEM can move on.
MemLeft == IF accessing THEN AccessLeft(dport) ELSE 0

\* The oldest instruction in the pipeline has used up no more of the longest
\* gap than its way to WB leaves; with none in it, fetch is on time.
OldestOnTime ==
    IF mem_wb.valid THEN since <= LongestGap
    ELSE IF ex_mem.valid THEN since + MemLeft + 1 <= LongestGap
    ELSE IF id_ex.valid THEN since + DWorst + 2 <= LongestGap
    ELSE IF if_id.valid THEN since + DWorst + 3 <= LongestGap
    ELSE since + FetchLeft(iport) <= IWorst

GapInv ==
    /\ since \in Nat
    /\ IP!Clean(iport)
    /\ OldestOnTime

\* The longest gap is the longest waits of both ports and the way between.
LEMMA GapIsWorst ==
    TypeOK /\ PortsBuilt /\ IP!Clean(iport)
      => /\ IWorst \in Nat /\ DWorst \in Nat
         /\ LongestGap = IWorst + DWorst + 4
         /\ FetchLeft(iport) \in 0 .. IWorst
         /\ MemLeft \in 0 .. DWorst
<1> SUFFICES ASSUME TypeOK, PortsBuilt, IP!Clean(iport)
             PROVE  /\ IWorst \in Nat /\ DWorst \in Nat
                    /\ LongestGap = IWorst + DWorst + 4
                    /\ FetchLeft(iport) \in 0 .. IWorst
                    /\ MemLeft \in 0 .. DWorst
  OBVIOUS
<1>1. cfg \in Configs /\ iport \in ICaches /\ dport \in DCaches /\ pc \in Word
  BY DEF TypeOK, PortsBuilt
<1>2. IWorst \in Nat /\ FetchLeft(iport) \in 0 .. IWorst
  BY <1>1, IPortWait
<1>3. DWorst \in Nat /\ AccessLeft(dport) \in 0 .. DWorst
  BY <1>1, DRequestType, DPortWait DEF DRequest
<1>4. MemLeft \in 0 .. DWorst
  BY <1>3 DEF MemLeft
<1>5. /\ IP!Parameters(IParams) /\ iport \in IP!Built(IParams)
      /\ DP!Parameters(DParams) /\ dport \in DP!Built(DParams)
  BY <1>1, IBuilt, DBuilt
<1>6. /\ iport.hit_latency \in Nat /\ iport.backing.latency \in Nat
      /\ dport.hit_latency \in Nat /\ dport.backing.latency \in Nat
  BY <1>5, PortGeometry, IP!Members, DP!Members
<1>7. LongestGap = IWorst + DWorst + 4
  <2>1. CASE cfg.icache_enabled
    BY <1>6, <2>1 DEF LongestGap, IWorst, DWorst
  <2>2. CASE ~cfg.icache_enabled
    BY <1>6, <2>2 DEF LongestGap, IWorst, DWorst
  <2> QED BY <2>1, <2>2
<1> QED BY <1>2, <1>3, <1>4, <1>7

\* A configuration keeps its longest waits.
LEMMA WorstSteady ==
    ASSUME PortsBuilt, PortsBuilt', cfg' = cfg
    PROVE  IWorst' = IWorst /\ DWorst' = DWorst /\ LongestGap' = LongestGap
<1>1. /\ iport.backing.latency = I!AtLeast1(cfg.imem_latency_cycles)
      /\ iport.hit_latency = I!AtLeast1(cfg.icache_hit_latency_cycles)
      /\ dport.backing.latency = D!AtLeast1(cfg.dmem_latency_cycles)
      /\ dport.hit_latency = D!AtLeast1(cfg.dcache_hit_latency_cycles)
  BY DEF PortsBuilt, ICaches, DCaches, I!CacheState, D!CacheState, I!MemState,
         D!MemState
<1>2. /\ iport'.backing.latency = I!AtLeast1(cfg'.imem_latency_cycles)
      /\ iport'.hit_latency = I!AtLeast1(cfg'.icache_hit_latency_cycles)
      /\ dport'.backing.latency = D!AtLeast1(cfg'.dmem_latency_cycles)
      /\ dport'.hit_latency = D!AtLeast1(cfg'.dcache_hit_latency_cycles)
  BY DEF PortsBuilt, ICaches, DCaches, I!CacheState, D!CacheState, I!MemState,
         D!MemState
<1> QED BY <1>1, <1>2 DEF IWorst, DWorst, LongestGap

\* While MEM waits, its port comes nearer by as much as the gap grows.
LEMMA StallGap ==
    ASSUME TypeOK, TypeOK', PortsBuilt, PortsBuilt', GapInv, CoreStallTick
    PROVE  GapInv'
<1>1. /\ mem_stall /\ accessing /\ ex_mem.valid /\ ~mem_wb'.valid /\ ex_mem' = ex_mem
      /\ iport' = IAsked /\ dport' = DClocked(DAsked) /\ cfg' = cfg
      /\ since' = IF mem_wb.valid THEN 0 ELSE since + 1
  BY DEF CoreStallTick, StallTick, Observe, MemWbBubble, accessing
<1>2. cfg \in Configs /\ iport \in ICaches /\ dport \in DCaches /\ pc \in Word
  BY DEF TypeOK, PortsBuilt
<1>3. IP!Clean(iport) /\ IP!Clean(iport')
  BY <1>1, <1>2, IPortWait DEF GapInv
<1>4. /\ IWorst \in Nat /\ DWorst \in Nat /\ LongestGap = IWorst + DWorst + 4
      /\ MemLeft \in 0 .. DWorst
  BY <1>3, GapIsWorst
<1>5. DWorst' = DWorst /\ LongestGap' = LongestGap
  BY <1>1, WorstSteady
<1>6. MemLeft' \in 0 .. DWorst
  <2>1. (TypeOK /\ PortsBuilt /\ IP!Clean(iport) => MemLeft \in 0 .. DWorst)'
    BY GapIsWorst, PTL
  <2> QED BY <1>3, <1>5, <2>1
<1>7. MemLeft' <= MemLeft - 1
  <2>1. AccessLeft(DClocked(DAsked)) <= AccessLeft(dport) - 1
    BY <1>1, <1>2, DRequestType, DPortWait DEF DRequest
  <2>2. accessing'
    BY <1>1 DEF accessing
  <2>3. MemLeft' = AccessLeft(DClocked(DAsked))
    BY <1>1, <1>5, <2>2 DEF MemLeft, AccessLeft
  <2> QED BY <1>1, <2>1, <2>3 DEF MemLeft
<1>8. since \in Nat /\ (~mem_wb.valid => since + MemLeft + 1 <= LongestGap)
  BY <1>1 DEF GapInv, OldestOnTime
<1>9. since' \in Nat /\ since' + MemLeft' + 1 <= LongestGap
  <2>0. \A s, m, n, i, d \in Nat :
          /\ n <= d => 0 + n + 1 <= i + d + 4
          /\ (n <= m - 1 /\ s + m + 1 <= i + d + 4) => s + 1 + n + 1 <= i + d + 4
    OBVIOUS
  <2>1. CASE mem_wb.valid
    <3>1. since' = 0 /\ MemLeft' \in Nat /\ MemLeft' <= DWorst
      BY <1>1, <1>4, <1>6, <2>1
    <3> QED BY <1>4, <2>0, <3>1
  <2>2. CASE ~mem_wb.valid
    <3>1. since' = since + 1 /\ MemLeft \in Nat /\ MemLeft' \in Nat
      BY <1>1, <1>4, <1>6, <2>2
    <3>2. since + MemLeft + 1 <= IWorst + DWorst + 4 /\ since \in Nat
      BY <1>4, <1>8, <2>2
    <3>3. IWorst \in Nat /\ DWorst \in Nat
      BY <1>4
    <3>4. since + 1 + MemLeft' + 1 <= IWorst + DWorst + 4
      BY <1>7, <2>0, <3>1, <3>2, <3>3
    <3>5. since' \in Nat
      BY <3>1, <3>2
    <3>6. LongestGap = IWorst + DWorst + 4
      BY <1>4
    <3> QED BY <3>1, <3>4, <3>5, <3>6, Zenon
  <2> QED BY <2>1, <2>2
<1> QED BY <1>1, <1>3, <1>5, <1>9 DEF GapInv, OldestOnTime

\* When the pipeline moves, its oldest instruction moves one stage, and with
\* none in it the fetch port is the only one to wait for.
LEMMA AdvanceGap ==
    ASSUME TypeOK, TypeOK', PortsBuilt, PortsBuilt', GapInv, CoreAdvanceTick
    PROVE  GapInv'
<1>1. /\ AdvanceTick(i_served)
      /\ iport' = IClocked(IAsked) /\ cfg' = cfg
      /\ since' = IF mem_wb.valid THEN 0 ELSE since + 1
  BY DEF CoreAdvanceTick, Observe
<1>2. cfg \in Configs /\ iport \in ICaches /\ dport \in DCaches /\ pc \in Word
  BY DEF TypeOK, PortsBuilt
<1>3. IP!Clean(iport) /\ IP!Clean(iport')
  BY <1>1, <1>2, IPortWait DEF GapInv
<1>4. /\ IWorst \in Nat /\ DWorst \in Nat /\ LongestGap = IWorst + DWorst + 4
      /\ MemLeft \in 0 .. DWorst /\ FetchLeft(iport) \in 0 .. IWorst
  BY <1>3, GapIsWorst
<1>5. IWorst' = IWorst /\ DWorst' = DWorst /\ LongestGap' = LongestGap
  BY <1>1, WorstSteady
<1>6. MemLeft' \in 0 .. DWorst /\ FetchLeft(iport)' \in 0 .. IWorst
  <2>1. (TypeOK /\ PortsBuilt /\ IP!Clean(iport)
           => MemLeft \in 0 .. DWorst /\ FetchLeft(iport) \in 0 .. IWorst)'
    BY GapIsWorst, PTL
  <2> QED BY <1>3, <1>5, <2>1
<1>7. ~i_served => FetchLeft(iport)' <= FetchLeft(iport) - 1
  <2>1. /\ FetchLeft(IAsked) \in Nat /\ FetchLeft(IAsked) <= FetchLeft(iport)
        /\ ~i_served => FetchLeft(IClocked(IAsked)) = FetchLeft(IAsked) - 1
    BY <1>2, <1>3, IPortWait
  <2>2. FetchLeft(iport)' = FetchLeft(IClocked(IAsked))
    BY <1>1, <1>5 DEF FetchLeft
  <2> QED BY <1>4, <2>1, <2>2
<1>8. /\ mem_wb'.valid <=> ex_mem.valid
      /\ ex_mem'.valid <=> id_ex.valid
      /\ ~id_ex.valid => /\ id_ex'.valid <=> if_id.valid
                         /\ if_id'.valid <=> i_served
  <2>1. ~id_ex.valid => ~redirect /\ ~load_use_stall
    BY DEF redirect, load_use_stall
  <2>2. i_served \in BOOLEAN
    BY AnswersAreBoolean
  <2>3. /\ mem_wb'.valid <=> ex_mem.valid
        /\ ex_mem'.valid <=> id_ex.valid
    BY <1>1 DEF AdvanceTick, Accessed, MemWbBubble, Executed, ExMemBubble
  <2>4. ~id_ex.valid => (id_ex'.valid <=> if_id.valid)
    BY <1>1, <2>1, <2>2, AdvanceStages
  <2>5. ~id_ex.valid => (if_id'.valid <=> i_served)
    BY <1>1, <2>1, <2>2 DEF AdvanceTick, FetchLatch, Fetched, IfIdBubble
  <2> QED BY <2>3, <2>4, <2>5
<1>9. since \in Nat /\ OldestOnTime
  BY DEF GapInv
<1>10. since' \in Nat
  BY <1>1, <1>9
<1>11. CASE ex_mem.valid
  <2>1. since' <= LongestGap
    BY <1>1, <1>4, <1>9, <1>11 DEF OldestOnTime
  <2> QED BY <1>3, <1>5, <1>8, <1>10, <1>11, <2>1 DEF GapInv, OldestOnTime
<1>12. CASE ~ex_mem.valid /\ id_ex.valid
  <2>1. \A s, n, i, d \in Nat :
          n <= d => /\ 0 + n + 1 <= i + d + 4
                    /\ s + d + 2 <= i + d + 4 => s + 1 + n + 1 <= i + d + 4
    OBVIOUS
  <2>2. MemLeft' \in Nat /\ MemLeft' <= DWorst
    BY <1>4, <1>6
  <2>3. ~mem_wb.valid => since + DWorst + 2 <= LongestGap
    BY <1>9, <1>12 DEF OldestOnTime
  <2>4. since' + MemLeft' + 1 <= LongestGap
    <3>1. CASE mem_wb.valid
      <4>1. since' = 0
        BY <1>1, <3>1
      <4> QED BY <1>4, <2>1, <2>2, <4>1
    <3>2. CASE ~mem_wb.valid
      <4>1. since' = since + 1
        BY <1>1, <3>2
      <4> QED BY <1>4, <1>9, <2>1, <2>2, <2>3, <3>2, <4>1
    <3> QED BY <3>1, <3>2
  <2> QED BY <1>3, <1>5, <1>8, <1>10, <1>12, <2>4 DEF GapInv, OldestOnTime
<1>13. CASE ~ex_mem.valid /\ ~id_ex.valid /\ if_id.valid
  <2>1. since' + DWorst + 2 <= LongestGap
    BY <1>1, <1>4, <1>9, <1>13 DEF OldestOnTime
  <2> QED BY <1>3, <1>5, <1>8, <1>10, <1>13, <2>1 DEF GapInv, OldestOnTime
<1>14. CASE ~ex_mem.valid /\ ~id_ex.valid /\ ~if_id.valid
  <2>1. ~mem_wb.valid => since + FetchLeft(iport) <= IWorst
    BY <1>9, <1>14 DEF OldestOnTime
  <2>2. since' <= IWorst + 1
    BY <1>1, <1>4, <1>9, <2>1
  <2>3. ~i_served => since' + FetchLeft(iport)' <= IWorst
    BY <1>1, <1>4, <1>6, <1>7, <1>9, <2>1
  <2>4. CASE i_served
    <3>1. \A s, i, d \in Nat : s <= i + 1 => s + d + 3 <= i + d + 4
      OBVIOUS
    <3>2. since' + DWorst + 3 <= LongestGap
      BY <1>4, <1>10, <2>2, <3>1
    <3> QED BY <1>3, <1>5, <1>8, <1>10, <1>14, <2>4, <3>2 DEF GapInv, OldestOnTime
  <2>5. CASE ~i_served
    BY <1>3, <1>5, <1>8, <1>10, <1>14, <2>3, <2>5 DEF GapInv, OldestOnTime
  <2> QED BY <2>4, <2>5
<1> QED BY <1>11, <1>12, <1>13, <1>14

\* A core that starts has nothing in its pipeline and nothing in its caches.
LEMMA GapInit == CoreInit => GapInv
<1> SUFFICES ASSUME CoreInit PROVE GapInv
  OBVIOUS
<1>1. /\ since = 0 /\ TypeOK
      /\ ~if_id.valid /\ ~id_ex.valid /\ ~ex_mem.valid /\ ~mem_wb.valid
  BY InitType DEF CoreInit, Init, IfIdBubble, IdExBubble, ExMemBubble, MemWbBubble
<1>2. PortsBuilt
  BY PortsInit
<1>3. IP!Clean(iport)
  <2>1. iport = IP!NewCache(cfg.icache_hit_latency_cycles, cfg.icache_prefetch_enabled,
                            cfg.icache_prefetch_degree, cfg.imem_latency_cycles)
    BY ISameStates DEF CoreInit
  <2> QED BY <2>1, PortGeometry, IP!CleanNew
<1>4. IWorst \in Nat /\ FetchLeft(iport) \in 0 .. IWorst
  BY <1>1, <1>2, <1>3, GapIsWorst
<1> QED BY <1>1, <1>3, <1>4 DEF GapInv, OldestOnTime

\* Every step keeps it.
LEMMA GapNext ==
    ASSUME TypeOK, TypeOK', PortsBuilt, PortsBuilt', GapInv, [CoreStep]_all
    PROVE  GapInv'
<1>1. ASSUME UNCHANGED <<if_id, id_ex, ex_mem, mem_wb, cfg, iport, dport, since>>
      PROVE  GapInv'
  <2>1. /\ IWorst' = IWorst /\ DWorst' = DWorst /\ LongestGap' = LongestGap
        /\ FetchLeft(iport)' = FetchLeft(iport) /\ MemLeft' = MemLeft
    BY <1>1 DEF IWorst, DWorst, LongestGap, FetchLeft, MemLeft, AccessLeft, accessing
  <2> QED BY <1>1, <2>1 DEF GapInv, OldestOnTime
<1>2. CASE CoreStallTick
  BY <1>2, StallGap
<1>3. CASE CoreAdvanceTick
  BY <1>3, AdvanceGap
<1>4. CASE CoreAbortTick
  BY <1>1, <1>4 DEF CoreAbortTick, AbortTick, own, pipe
<1>5. CASE Return
  BY <1>1, <1>5 DEF Return, vars, pipe
<1>6. CASE UNCHANGED all
  BY <1>1, <1>6 DEF all, own, vars, pipe
<1> QED BY <1>2, <1>3, <1>4, <1>5, <1>6 DEF CoreStep

\* It is what the bound on gaps needs: whatever stage the oldest instruction
\* is in, what it still has to wait is not negative.
LEMMA GapSuffices == TypeOK /\ PortsBuilt /\ GapInv => KeepsRetiring
<1> SUFFICES ASSUME TypeOK, PortsBuilt, GapInv PROVE KeepsRetiring
  OBVIOUS
<1>1. /\ IWorst \in Nat /\ DWorst \in Nat /\ LongestGap = IWorst + DWorst + 4
      /\ MemLeft \in 0 .. DWorst /\ FetchLeft(iport) \in 0 .. IWorst
  BY GapIsWorst DEF GapInv
<1>2. since \in Nat /\ OldestOnTime
  BY DEF GapInv
<1> QED BY <1>1, <1>2 DEF OldestOnTime, KeepsRetiring

\* In every configuration - caches or not, prefetching, every latency - and
\* for every program, also one that leaves word-aligned addresses, the gap
\* between two retirements is at most a fetch that misses, the way through
\* the pipeline and an access that misses on a dirty line.
THEOREM RetirementsKeepComing == CoreSpec => []KeepsRetiring
<1>1. /\ TypeOK /\ LogFacts /\ (TypeOK /\ LogFacts)' /\ PortsBuilt /\ PortsBuilt'
      /\ GapInv /\ [CoreStep]_all
      => GapInv'
  BY GapNext
<1> QED BY <1>1, GapInit, GapSuffices, LatchesCorrect, PortsCorrect, PTL DEF CoreSpec
=============================================================================
