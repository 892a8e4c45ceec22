-------------------------------- MODULE Isa --------------------------------
(***************************************************************************)
(* The abstract specification: RV32I executed one instruction at a time.   *)
(*                                                                         *)
(* This is what the simulator promises whatever its configuration: the     *)
(* latencies, caches and predictor may change how many cycles a program    *)
(* takes, never what it does.  The program is fixed (instruction and data  *)
(* memory are separate), FENCE and ECALL do nothing, EBREAK and an illegal *)
(* instruction stop the machine.                                           *)
(*                                                                         *)
(* One detail of the implementation shows: the machine stops when the      *)
(* halting instruction leaves the pipeline, one step after it is reached,  *)
(* and in that step a store that follows it in program order may already   *)
(* write to memory.  The abstract machine therefore passes through a       *)
(* "halting" state and may do one such store on the way out of it.         *)
(***************************************************************************)
EXTENDS Machine

VARIABLES
    imem,     \* the program
    reg,      \* the integer registers
    mem,      \* data memory
    pc,       \* address of the next instruction
    status    \* "running", "halting", "halted"

vars == <<imem, reg, mem, pc, status>>

TypeOK ==
    /\ imem \in [RamAddr -> Raw]
    /\ reg \in [Regs -> Word]
    /\ mem \in Mem
    /\ pc \in Word
    /\ status \in {"running", "halting", "halted"}

Init ==
    /\ imem \in Programs
    /\ reg \in InitRegs
    /\ mem \in InitMems
    /\ pc = RamBase
    /\ status = "running"

(***************************************************************************)
(* The meaning of one instruction, given the values of its sources.        *)
(***************************************************************************)
Address(insn, rs1) == Plus(rs1, insn.imm)

Result(insn, at, rs1, rs2, m) ==
    CASE insn.op = "LUI"     -> insn.imm
      [] insn.op = "AUIPC"   -> Plus(at, insn.imm)
      [] insn.op \in Jumps   -> Plus(at, 4)
      [] insn.op \in RegOps  -> alu(alu_op_for(insn.op), rs1, rs2)
      [] insn.op \in ImmOps  -> alu(alu_op_for(insn.op), rs1, insn.imm)
      [] insn.op \in Loads   -> LoadValue(insn.op, m, Address(insn, rs1))
      [] OTHER               -> 0

NextPc(insn, at, rs1, rs2) ==
    CASE insn.op = "JAL"     -> Plus(at, insn.imm)
      [] insn.op = "JALR"    -> ClearBit0(Plus(rs1, insn.imm))
      [] insn.op \in Branches /\ compare(insn.op, rs1, rs2)
                             -> Plus(at, insn.imm)
      [] OTHER               -> Plus(at, 4)

(***************************************************************************)
(* The instruction at pc takes effect.  An access outside RAM has no       *)
(* meaning: the machine does not get past it.                              *)
(***************************************************************************)
Step ==
    LET insn == decode(imem[pc])
        rs1  == reg[insn.rs1]
        rs2  == reg[insn.rs2]
    IN  /\ status = "running"
        /\ pc \in RamAddr
        /\ ~Halts(insn.op)
        /\ is_mem_op(insn.op) => Address(insn, rs1) \in RamAddr
        /\ reg' = IF has_writeback(insn.op) /\ insn.rd # 0
                    THEN [reg EXCEPT ![insn.rd] = Result(insn, pc, rs1, rs2, mem)]
                    ELSE reg
        /\ mem' = IF is_store(insn.op)
                    THEN StoreResult(insn.op, mem, Address(insn, rs1), rs2)
                    ELSE mem
        /\ pc' = NextPc(insn, pc, rs1, rs2)
        /\ UNCHANGED <<imem, status>>

Halt ==
    /\ status = "running"
    /\ pc \in RamAddr
    /\ Halts(imem[pc].op)
    /\ status' = "halting"
    /\ UNCHANGED <<imem, reg, mem, pc>>

\* m and n are the same memory but for the bytes of one access.
DifferByOneAccess(m, n) ==
    \E a \in RamAddr : \A b \in RamBytes : b \notin a .. (a + 3) => m[b] = n[b]

Settle ==
    /\ status = "halting"
    /\ status' = "halted"
    /\ \/ mem' = mem
       \/ /\ Plus(pc, 4) \in RamAddr
          /\ is_store(imem[Plus(pc, 4)].op)
          /\ mem' \in Mem
          /\ DifferByOneAccess(mem, mem')
    /\ UNCHANGED <<imem, reg, pc>>

Next == Step \/ Halt \/ Settle

Spec == Init /\ [][Next]_vars
=============================================================================
