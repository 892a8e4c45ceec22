---------------------------- MODULE PipelineInv ----------------------------
(***************************************************************************)
(* The inductive invariant of the pipeline: what relates the latches, the  *)
(* register file and the predictor to the program while the machine runs.  *)
(***************************************************************************)
EXTENDS Pipeline

\* The decoded instruction at an address of the program.
Insn(a) == decode(imem[a])

\* The address control goes to after the instruction in EX/MEM, ...
AfterExMem == IF ex_mem.branch_taken THEN ex_mem.branch_target
                                     ELSE Plus(ex_mem.pc, 4)

\* ... and the one fetch went to, on a prediction, after an instruction at a.
AfterFetch(a, predicted_taken) ==
    IF predicted_taken THEN Plus(a, Insn(a).imm) ELSE Plus(a, 4)

\* The address of the youngest-but-one: what follows EX, what follows ID.
FrontPc  == IF if_id.valid THEN if_id.pc ELSE pc
BehindEx == IF id_ex.valid THEN id_ex.pc ELSE FrontPc

HasStaticTarget(op) == op \in Branches \cup {"JAL"}

\* The predictor indexes and tags without the two low bits of the address:
\* what it stores is sound only while instructions are fetched from
\* word-aligned addresses.
Aligned == BpredEnabled => pc % 4 = 0

\* Where the code leaves it to the program: the branch or jump in EX names a
\* word-aligned target, taken or not (EX trains the predictor either way).
TargetsAligned ==
    (BpredEnabled /\ ~halted /\ id_ex.valid
        /\ (HasStaticTarget(id_ex.op) \/ id_ex.op = "JALR")) => target % 4 = 0

\* A machine whose words are whole numbers of bits and whose RAM starts at a
\* word, as the code's do (256 values, ram_base_addr of SimConfig).
WordMachine == ByteValues % 2 = 0 /\ RamBase % 4 = 0

\* Programs that can only stay on word-aligned addresses: their words jump
\* to static targets, a multiple of four away.
WordPrograms ==
    \A p \in Programs, a \in RamAddr :
        a % 4 = 0 =>
            /\ p[a].op # "JALR"
            /\ HasStaticTarget(p[a].op) => p[a].imm % 4 = 0

\* What can be told before a run: there is no predictor, or the programs
\* keep fetch word-aligned.
AlignedByProgram == ~BpredEnabled \/ (WordMachine /\ WordPrograms)

(***************************************************************************)
(* The parts.                                                              *)
(***************************************************************************)

\* x0 is never written: the register file holds zero there.
ZeroReg == rf[0] = 0

\* Each latch holds the instruction of the program at the address it names:
\* a squash or a stall never mixes two instructions.
StagesHoldProgram ==
    /\ if_id.valid =>
         /\ if_id.pc \in RamAddr
         /\ if_id.raw = imem[if_id.pc]
    /\ id_ex.valid =>
         /\ id_ex.pc \in RamAddr
         /\ id_ex.op  = Insn(id_ex.pc).op
         /\ id_ex.rd  = Insn(id_ex.pc).rd
         /\ id_ex.rs1 = Insn(id_ex.pc).rs1
         /\ id_ex.rs2 = Insn(id_ex.pc).rs2
         /\ id_ex.imm = Insn(id_ex.pc).imm
    /\ ex_mem.valid =>
         /\ ex_mem.pc \in RamAddr
         /\ ex_mem.op = Insn(ex_mem.pc).op
         /\ ex_mem.rd = Insn(ex_mem.pc).rd

\* The only instruction that names a destination without writing it is an
\* illegal one: forwarding by rd alone, without looking at the operation, is
\* right for everything older than the instruction that halts.
DestinationsAreWritten ==
    /\ (mem_wb.valid /\ mem_wb.rd # 0) =>
         has_writeback(mem_wb.op) \/ mem_wb.op = "ILLEGAL"
    /\ (prev_mem_wb.valid /\ prev_mem_wb.rd # 0) =>
         rf[prev_mem_wb.rd] = prev_mem_wb.wb_val

\* Consecutive instructions in the pipeline follow each other in the
\* program: behind EX as predicted, ahead of EX as resolved.
PathLinked ==
    /\ if_id.valid => pc = AfterFetch(if_id.pc, if_id.predicted_taken)
    /\ id_ex.valid => FrontPc = AfterFetch(id_ex.pc, id_ex.predicted_taken)
    /\ ex_mem.valid => BehindEx = AfterExMem
    /\ (Halting /\ ex_mem.valid) => ex_mem.pc = Plus(mem_wb.pc, 4)

\* Only instructions with a static target are ever predicted taken.
PredictionsHaveTargets ==
    /\ (if_id.valid /\ if_id.predicted_taken) =>
         HasStaticTarget(Insn(if_id.pc).op)
    /\ (id_ex.valid /\ id_ex.predicted_taken) =>
         HasStaticTarget(Insn(id_ex.pc).op)

\* A word-aligned address that hits in the branch target buffer is that of a
\* conditional branch or a JAL, and the buffer holds its target.
BtbSound ==
    \A a \in RamAddr :
        (BpredEnabled /\ a % 4 = 0 /\ BtbHit(btb, a)) =>
            /\ HasStaticTarget(Insn(a).op)
            /\ btb[btb_index(a)].target = Plus(a, Insn(a).imm)

StagesAligned ==
    BpredEnabled =>
        /\ if_id.valid => if_id.pc % 4 = 0
        /\ id_ex.valid => id_ex.pc % 4 = 0

\* What decode read for the instruction in EX is still the register's value,
\* or the forwarding unit has the newer one.
OperandsReachable ==
    id_ex.valid =>
        /\ id_ex.rs1 # 0 =>
             \/ id_ex.rs1_val = rf[id_ex.rs1]
             \/ prev_mem_wb.valid /\ prev_mem_wb.rd = id_ex.rs1
        /\ id_ex.rs2 # 0 =>
             \/ id_ex.rs2_val = rf[id_ex.rs2]
             \/ prev_mem_wb.valid /\ prev_mem_wb.rd = id_ex.rs2

\* The interlock: what EX holds never needs the result of a load in MEM.
\* Forwarding would hand it the load's address instead of the data.
NoLoadUse ==
    (id_ex.valid /\ ex_mem.valid /\ is_load(ex_mem.op) /\ ex_mem.rd # 0) =>
        ex_mem.rd \notin {id_ex.rs1, id_ex.rs2}

\* EX/MEM holds what its instruction computes from the registers as all
\* older instructions leave them.
ExecutedFromRegisters ==
    (ex_mem.valid /\ ~Halting) =>
        LET i == Insn(ex_mem.pc)
            a == AbsReg[i.rs1]
            b == AbsReg[i.rs2]
        IN  /\ ex_mem.alu_out = AluOut(i, ex_mem.pc, a, b)
            /\ ex_mem.rs2_val = b
            /\ ex_mem.branch_taken = Taken(i, a, b)
            /\ ex_mem.branch_target = Target(i, ex_mem.pc, a)

IInv ==
    ~halted =>
        /\ ZeroReg
        /\ StagesHoldProgram
        /\ DestinationsAreWritten
        /\ PathLinked
        /\ PredictionsHaveTargets
        /\ BtbSound
        /\ StagesAligned
        /\ OperandsReachable
        /\ NoLoadUse
        /\ ExecutedFromRegisters
=============================================================================
