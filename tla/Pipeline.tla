------------------------------ MODULE Pipeline ------------------------------
(***************************************************************************)
(* The five-stage pipeline of Core: fetch, decode, execute, memory access  *)
(* and write-back, with the forwarding unit, the load-use interlock and    *)
(* the branch predictor.                                                   *)
(*                                                                         *)
(* One action is one Core::tick().  A tick first evaluates every stage     *)
(* from the latched state (the operators below, named after the code's     *)
(* evaluate() outputs), then commits: all latches on the full path, only   *)
(* WB, the forwarding unit and MEM when a memory access is not served yet. *)
(*                                                                         *)
(* How long an access takes is the business of FlatMem and Cache.  The     *)
(* pipeline only asks ready(), so here every answer is possible on every   *)
(* cycle: the model covers every latency and every cache configuration on  *)
(* both ports, and what is shown of it holds for all of them.  Module Core *)
(* puts the memories in place.                                             *)
(*                                                                         *)
(* Left out: the raw word behind the ID stage (kept by the code for the    *)
(* tracer's disassembly and the report of an illegal word only).           *)
(***************************************************************************)
EXTENDS Machine, BranchPredictor

VARIABLES
    imem,          \* the program; load_program()/load_elf() ran before
    dmem,          \* contents of data memory
    rf,            \* RegFile
    pc,            \* FetchStage::pc_
    if_id,         \* Latch<IfId>
    id_ex,         \* Latch<IdEx>
    ex_mem,        \* Latch<ExMem>
    mem_wb,        \* Latch<MemWb>
    prev_mem_wb,   \* ForwardUnit::prev_mem_wb_
    bht, btb,      \* BranchPredictor tables
    halt_reason,   \* "None" while the machine runs
    halt_pc,
    aborted        \* an assertion of FlatMem::offset() failed

pipe == <<if_id, id_ex, ex_mem, mem_wb, prev_mem_wb>>
vars == <<imem, dmem, rf, pc, pipe, bht, btb, halt_reason, halt_pc, aborted>>

(***************************************************************************)
(* The latches.  A default-constructed record is a bubble.                 *)
(***************************************************************************)
IfId  == [pc : Word, raw : Raw, predicted_taken : BOOLEAN, valid : BOOLEAN]
IdEx  == [pc : Word, op : Op, rd : Regs, rs1 : Regs, rs2 : Regs, imm : Word,
          rs1_val : Word, rs2_val : Word, predicted_taken : BOOLEAN,
          valid : BOOLEAN]
ExMem == [pc : Word, op : Op, rd : Regs, alu_out : Word, rs2_val : Word,
          branch_taken : BOOLEAN, branch_target : Word, valid : BOOLEAN]
MemWb == [pc : Word, op : Op, rd : Regs, wb_val : Word, mem_addr : Word,
          mem_val : Word, is_store : BOOLEAN, valid : BOOLEAN]

IfIdBubble  == [pc |-> 0, raw |-> ZeroWord, predicted_taken |-> FALSE,
                valid |-> FALSE]
IdExBubble  == [pc |-> 0, op |-> "ILLEGAL", rd |-> 0, rs1 |-> 0, rs2 |-> 0,
                imm |-> 0, rs1_val |-> 0, rs2_val |-> 0,
                predicted_taken |-> FALSE, valid |-> FALSE]
ExMemBubble == [pc |-> 0, op |-> "ILLEGAL", rd |-> 0, alu_out |-> 0,
                rs2_val |-> 0, branch_taken |-> FALSE, branch_target |-> 0,
                valid |-> FALSE]
MemWbBubble == [pc |-> 0, op |-> "ILLEGAL", rd |-> 0, wb_val |-> 0,
                mem_addr |-> 0, mem_val |-> 0, is_store |-> FALSE,
                valid |-> FALSE]

\* Every piece of state keeps to its type: bytes, words and register numbers
\* stay in range, the counters of the predictor between 0 and 3.
TypeOK ==
    /\ imem \in [RamAddr -> Raw]
    /\ dmem \in Mem
    /\ rf \in [Regs -> Word]
    /\ pc \in Word
    /\ if_id \in IfId
    /\ id_ex \in IdEx
    /\ ex_mem \in ExMem
    /\ mem_wb \in MemWb
    /\ prev_mem_wb \in MemWb
    /\ bht \in [BhtIndex -> 0 .. 3]
    /\ btb \in [BtbIndex -> BtbEntry]
    /\ halt_reason \in {"None", "Ebreak", "Illegal"}
    /\ halt_pc \in Word
    /\ aborted \in BOOLEAN

Init ==
    /\ imem \in Programs
    /\ dmem \in InitMems
    /\ rf \in InitRegs
    /\ pc = RamBase
    /\ if_id = IfIdBubble
    /\ id_ex = IdExBubble
    /\ ex_mem = ExMemBubble
    /\ mem_wb = MemWbBubble
    /\ prev_mem_wb = MemWbBubble
    /\ bht = BhtInit
    /\ btb = BtbInit
    /\ halt_reason = "None"
    /\ halt_pc = 0
    /\ aborted = FALSE

-----------------------------------------------------------------------------
(***************************************************************************)
(* Register file.  Writes to x0 are dropped; it reads as zero only because *)
(* it starts as zero.                                                      *)
(***************************************************************************)
RfRead(r) == rf[r]

RfWrite(r, v) == IF r = 0 THEN rf ELSE [rf EXCEPT ![r] = v]

(***************************************************************************)
(* FetchStage::evaluate(), on a cycle where imem answers served.           *)
(***************************************************************************)
Fetched ==
    [pc |-> pc, raw |-> imem[pc],
     predicted_taken |-> PredictTaken(bht, btb, pc), valid |-> TRUE]

(***************************************************************************)
(* DecodeStage::evaluate(): decode and read the registers.                 *)
(***************************************************************************)
Decoded ==
    LET insn == decode(if_id.raw)
    IN  IF ~if_id.valid THEN IdExBubble
        ELSE [pc |-> if_id.pc, op |-> insn.op, rd |-> insn.rd,
              rs1 |-> insn.rs1, rs2 |-> insn.rs2, imm |-> insn.imm,
              rs1_val |-> RfRead(insn.rs1), rs2_val |-> RfRead(insn.rs2),
              predicted_taken |-> if_id.predicted_taken, valid |-> TRUE]

(***************************************************************************)
(* ForwardUnit::resolve(): the youngest producer of reg that has left EX.  *)
(***************************************************************************)
resolve(reg, cur) ==
    IF reg = 0 THEN 0
    ELSE IF ex_mem.valid /\ ex_mem.rd = reg THEN ex_mem.alu_out
    ELSE IF mem_wb.valid /\ mem_wb.rd = reg THEN mem_wb.wb_val
    ELSE IF prev_mem_wb.valid /\ prev_mem_wb.rd = reg THEN prev_mem_wb.wb_val
    ELSE cur

(***************************************************************************)
(* ExecuteStage::evaluate().                                               *)
(***************************************************************************)
rs1 == resolve(id_ex.rs1, id_ex.rs1_val)
rs2 == resolve(id_ex.rs2, id_ex.rs2_val)

\* Faulty EX: AUIPC adds to its (absent) first source.
AluOut_no_pc(i, at, a, b) ==
    IF i.op \in Jumps THEN Plus(at, 4)
    ELSE alu(alu_op_for(i.op), a, IF uses_imm(i.op) THEN i.imm ELSE b)

\* What EX computes for the instruction i at address at from its operands.
AluOut(i, at, a, b) ==
    IF i.op \in Jumps THEN Plus(at, 4)
    ELSE alu(alu_op_for(i.op),
                  IF i.op = "AUIPC" THEN at ELSE a,
                  IF uses_imm(i.op) THEN i.imm ELSE b)

Taken(i, a, b) == i.op \in Jumps \/ compare(i.op, a, b)

Target(i, at, a) ==
    IF i.op = "JALR" THEN ClearBit0(Plus(a, i.imm)) ELSE Plus(at, i.imm)

actual_taken == Taken(id_ex, rs1, rs2)
target       == Target(id_ex, id_ex.pc, rs1)

redirect == id_ex.valid /\ actual_taken # id_ex.predicted_taken

redirect_target == IF actual_taken THEN target ELSE Plus(id_ex.pc, 4)

train ==
    id_ex.valid /\ BpredEnabled /\ (is_cond_branch(id_ex.op) \/ id_ex.op = "JAL")

Executed ==
    IF ~id_ex.valid THEN ExMemBubble
    ELSE [pc |-> id_ex.pc, op |-> id_ex.op, rd |-> id_ex.rd,
          alu_out |-> AluOut(id_ex, id_ex.pc, rs1, rs2), rs2_val |-> rs2,
          branch_taken |-> actual_taken, branch_target |-> target,
          valid |-> TRUE]

\* Faulty interlock: the second source is not looked at.
load_use_stall_rs1 ==
    /\ id_ex.valid
    /\ is_load(id_ex.op)
    /\ id_ex.rd # 0
    /\ id_ex.rd = if_id.raw.rs1

(***************************************************************************)
(* HazardUnit::evaluate(): a load in EX, and a word in ID one of whose raw *)
(* source fields names its destination.                                    *)
(***************************************************************************)
load_use_stall ==
    /\ id_ex.valid
    /\ is_load(id_ex.op)
    /\ id_ex.rd # 0
    /\ id_ex.rd \in {if_id.raw.rs1, if_id.raw.rs2}

(***************************************************************************)
(* MemAccessStage::evaluate().  The access is made on the cycle dmem       *)
(* answers served; until then the stage stalls.                            *)
(***************************************************************************)
accessing == ex_mem.valid /\ is_mem_op(ex_mem.op)

storing == ex_mem.valid /\ is_store(ex_mem.op)

Accessed ==
    IF ~ex_mem.valid THEN MemWbBubble
    ELSE [pc |-> ex_mem.pc, op |-> ex_mem.op, rd |-> ex_mem.rd,
          wb_val |-> IF is_load(ex_mem.op)
                       THEN LoadValue(ex_mem.op, dmem, ex_mem.alu_out)
                     ELSE IF is_store(ex_mem.op) THEN 0
                     ELSE ex_mem.alu_out,
          mem_addr |-> IF is_mem_op(ex_mem.op) THEN ex_mem.alu_out ELSE 0,
          mem_val  |-> IF is_store(ex_mem.op)
                         THEN StoreValue(ex_mem.op, ex_mem.rs2_val) ELSE 0,
          is_store |-> is_store(ex_mem.op),
          valid |-> TRUE]

-----------------------------------------------------------------------------
(***************************************************************************)
(* Effects that both paths of a tick have: WB retires what MEM/WB holds,   *)
(* the forwarding unit keeps it for one more cycle, and a halting          *)
(* instruction seen there stops the machine.                               *)
(***************************************************************************)
halted == halt_reason # "None"

Halting == mem_wb.valid /\ Halts(mem_wb.op)

WriteBack ==
    /\ rf' = IF mem_wb.valid /\ has_writeback(mem_wb.op)
               THEN RfWrite(mem_wb.rd, mem_wb.wb_val) ELSE rf
    /\ prev_mem_wb' = mem_wb

DetectHalt ==
    /\ halt_reason' = IF ~Halting THEN halt_reason
                      ELSE IF mem_wb.op = "EBREAK" THEN "Ebreak" ELSE "Illegal"
    /\ halt_pc' = IF Halting THEN mem_wb.pc ELSE halt_pc

\* A memory access is about to be made outside RAM.
FetchFaults(i_ready) == i_ready /\ pc \notin RamAddr

AccessFaults == accessing /\ ex_mem.alu_out \notin RamAddr

Running == ~halted /\ ~aborted

(***************************************************************************)
(* A tick on which MEM waits for its access.  IF, ID and EX hold; the      *)
(* operands of the instruction held in EX are captured before their        *)
(* producers leave the forwarding window.                                  *)
(***************************************************************************)
\* Faulty capture: the held instruction keeps what decode read.
CapturedOperands_none == id_ex

CapturedOperands ==
    IF ~id_ex.valid THEN id_ex
    ELSE [id_ex EXCEPT !.rs1_val = rs1, !.rs2_val = rs2]

StallTick(i_ready) ==
    /\ Running
    /\ accessing
    /\ ~FetchFaults(i_ready)
    /\ WriteBack
    /\ DetectHalt
    /\ id_ex' = CapturedOperands
    /\ mem_wb' = MemWbBubble
    /\ UNCHANGED <<imem, dmem, pc, if_id, ex_mem, bht, btb, aborted>>

(***************************************************************************)
(* A tick on which the whole pipeline moves.  A redirect from EX beats the *)
(* load-use stall, which beats the I-side wait.                            *)
(***************************************************************************)
FetchLatch(i_ready) ==
    IF redirect
      THEN /\ if_id' = IfIdBubble
           /\ pc' = redirect_target
    ELSE IF load_use_stall
      THEN UNCHANGED <<if_id, pc>>
    ELSE IF i_ready
      THEN /\ if_id' = Fetched
           /\ pc' = PredictedPc(bht, btb, pc)
      ELSE /\ if_id' = IfIdBubble
           /\ UNCHANGED pc

Train ==
    IF train
      THEN /\ bht' = UpdateBht(bht, id_ex.pc, is_cond_branch(id_ex.op),
                               actual_taken)
           /\ btb' = UpdateBtb(btb, id_ex.pc, is_cond_branch(id_ex.op), target)
      ELSE UNCHANGED <<bht, btb>>

\* Faulty interlock: no bubble goes to EX while ID waits.
DecodeLatch_held ==
    id_ex' = IF redirect THEN IdExBubble
             ELSE IF load_use_stall THEN id_ex ELSE Decoded

DecodeLatch ==
    id_ex' = IF redirect \/ load_use_stall THEN IdExBubble ELSE Decoded

AdvanceTick(i_ready) ==
    /\ Running
    /\ ~FetchFaults(i_ready)
    /\ ~AccessFaults
    /\ WriteBack
    /\ DetectHalt
    /\ ex_mem' = Executed
    /\ Train
    /\ dmem' = IF storing
                 THEN StoreResult(ex_mem.op, dmem, ex_mem.alu_out, ex_mem.rs2_val)
                 ELSE dmem
    /\ mem_wb' = Accessed
    /\ DecodeLatch
    /\ FetchLatch(i_ready)
    /\ UNCHANGED <<imem, aborted>>

(***************************************************************************)
(* A tick that ends in the assertion of FlatMem::offset(): the fetch or    *)
(* the data access of this cycle is outside RAM.  Nothing was committed.   *)
(***************************************************************************)
AbortTick(i_ready) ==
    /\ Running
    /\ FetchFaults(i_ready) \/ AccessFaults
    /\ aborted' = TRUE
    /\ UNCHANGED <<imem, dmem, rf, pc, pipe, bht, btb, halt_reason, halt_pc>>

\* tick() of a halted core returns at once.
HaltedTick ==
    /\ halted
    /\ UNCHANGED vars

Tick ==
    \E i_ready \in BOOLEAN :
        StallTick(i_ready) \/ AdvanceTick(i_ready) \/ AbortTick(i_ready)

Next == Tick \/ HaltedTick

Spec == Init /\ [][Next]_vars

-----------------------------------------------------------------------------
(***************************************************************************)
(* The abstract machine a pipeline state stands for.  An instruction takes *)
(* effect when it leaves MEM: its store has been made then, its register   *)
(* result waits in MEM/WB for one more cycle.                              *)
(***************************************************************************)
AbsReg ==
    IF ~halted /\ mem_wb.valid /\ has_writeback(mem_wb.op)
      THEN RfWrite(mem_wb.rd, mem_wb.wb_val) ELSE rf

\* The oldest instruction that has not taken effect, or the next to fetch.
AbsPc ==
    IF halted             THEN halt_pc
    ELSE IF Halting       THEN mem_wb.pc
    ELSE IF ex_mem.valid  THEN ex_mem.pc
    ELSE IF id_ex.valid   THEN id_ex.pc
    ELSE IF if_id.valid   THEN if_id.pc
    ELSE pc

AbsStatus ==
    IF halted THEN "halted" ELSE IF Halting THEN "halting" ELSE "running"

Sequential == INSTANCE Isa WITH
    reg <- AbsReg, mem <- dmem, pc <- AbsPc, status <- AbsStatus

\* Whatever the program, the latencies and the predictor, the registers and
\* the memory change as they do when the program runs one instruction at a
\* time: interlock, forwarding, operand capture, squash and prediction are
\* invisible.
ImplementsIsa == Sequential!Spec
=============================================================================
