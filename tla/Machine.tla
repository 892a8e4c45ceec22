------------------------------ MODULE Machine ------------------------------
(***************************************************************************)
(* What the abstract machine (Isa) and the pipeline (Pipeline) share: the  *)
(* ALU and the branch comparator, which are parameters here so that what   *)
(* is shown holds for every ALU, and the inputs of a run: the program, the *)
(* registers (write_reg) and the data memory (store_word, load_elf) as     *)
(* they are when the first tick() is called.                               *)
(***************************************************************************)
EXTENDS FlatMem

CONSTANTS
    alu(_, _, _),       \* AluOp, a, b: the ALU, see module Alu
    compare(_, _, _),   \* Op, rs1, rs2: the comparator, see module Alu
    Programs,                \* contents of instruction memory
    InitRegs,                \* register files to start from
    InitMems                 \* data memories to start from

\* The ALU yields words; address generation and LUI rely on two operations.
ASSUME AluAssumption ==
    /\ \A op \in AluOp, a, b \in Word : alu(op, a, b) \in Word
    /\ \A a, b \in Word : alu("ADD", a, b) = Plus(a, b)
    /\ \A a, b \in Word : alu("PASS_B", a, b) = b

\* Only conditional branches are ever found taken by the comparator.
ASSUME BranchAssumption ==
    /\ \A op \in Branches, a, b \in Word : compare(op, a, b) \in BOOLEAN
    /\ \A op \in Op \ Branches, a, b \in Word : compare(op, a, b) = FALSE

ASSUME InputAssumption ==
    /\ Programs \subseteq [RamAddr -> Raw]
    /\ InitRegs \subseteq {r \in [Regs -> Word] : r[0] = 0}
    /\ InitMems \subseteq Mem
=============================================================================
