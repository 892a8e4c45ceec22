------------------------------- MODULE Rv32i -------------------------------
(***************************************************************************)
(* The RV32I instruction set as the simulator sees it: the operations, the *)
(* classes of operations the pipeline stages test for, 32-bit word         *)
(* arithmetic, and the decoder's treatment of the operand fields.          *)
(*                                                                         *)
(* An instruction word is abstracted to the record of its fields: the      *)
(* operation its opcode and funct bits select, the three register fields   *)
(* as they stand in bits 11:7, 19:15 and 24:20, and the immediate of its   *)
(* format.  The register fields are there whether or not the format uses   *)
(* them: decode() zeroes the unused ones, the hazard unit does not.        *)
(***************************************************************************)
EXTENDS Integers

CONSTANTS
    ByteValues,   \* number of values of a byte (256 in the code)
    NRegs         \* number of integer registers (32 in the code)

ASSUME MachineAssumption ==
    /\ ByteValues \in Nat /\ ByteValues >= 2
    /\ NRegs \in Nat /\ NRegs >= 1

Byte == 0 .. (ByteValues - 1)

HalfValues == ByteValues * ByteValues
WordValues == HalfValues * HalfValues

Word == 0 .. (WordValues - 1)   \* uint32_t

Regs == 0 .. (NRegs - 1)        \* uint8_t register numbers

(***************************************************************************)
(* Unsigned arithmetic wraps around (uint32_t).                            *)
(***************************************************************************)
Plus(a, b) == (a + b) % WordValues

ClearBit0(a) == a - (a % 2)     \* a & ~1u

(***************************************************************************)
(* The operations, by format.                                              *)
(***************************************************************************)
Loads    == {"LB", "LH", "LW", "LBU", "LHU"}
Stores   == {"SB", "SH", "SW"}
Branches == {"BEQ", "BNE", "BLT", "BGE", "BLTU", "BGEU"}
Upper    == {"LUI", "AUIPC"}
Jumps    == {"JAL", "JALR"}
ImmOps   == {"ADDI", "SLTI", "SLTIU", "XORI", "ORI", "ANDI",
             "SLLI", "SRLI", "SRAI"}
RegOps   == {"ADD", "SUB", "SLL", "SLT", "SLTU", "XOR", "SRL", "SRA",
             "OR", "AND"}
System   == {"FENCE", "ECALL", "EBREAK"}

Op == Loads \cup Stores \cup Branches \cup Upper \cup Jumps \cup ImmOps
        \cup RegOps \cup System \cup {"ILLEGAL"}

is_load(op)        == op \in Loads
is_store(op)       == op \in Stores
is_mem_op(op)      == op \in Loads \cup Stores
is_cond_branch(op) == op \in Branches
uses_imm(op)       == op \notin RegOps
has_writeback(op)  ==
    op \notin Stores \cup Branches \cup System \cup {"ILLEGAL"}

\* The operations that stop the machine when they reach write-back.
Halts(op) == op \in {"EBREAK", "ILLEGAL"}

AluOp == {"ADD", "SUB", "AND", "OR", "XOR", "SLL", "SRL", "SRA", "SLT",
          "SLTU", "PASS_B"}

alu_op_for(op) ==
    CASE op \in {"SUB"}            -> "SUB"
      [] op \in {"AND", "ANDI"}    -> "AND"
      [] op \in {"OR", "ORI"}      -> "OR"
      [] op \in {"XOR", "XORI"}    -> "XOR"
      [] op \in {"SLL", "SLLI"}    -> "SLL"
      [] op \in {"SRL", "SRLI"}    -> "SRL"
      [] op \in {"SRA", "SRAI"}    -> "SRA"
      [] op \in {"SLT", "SLTI"}    -> "SLT"
      [] op \in {"SLTU", "SLTIU"}  -> "SLTU"
      [] op = "LUI"                -> "PASS_B"
      [] OTHER                     -> "ADD"

(***************************************************************************)
(* Instruction words.  ZeroWord is the all-zero word: no RV32I opcode is   *)
(* zero, so it is an illegal instruction; cleared memory and the raw field *)
(* of an IF/ID bubble hold it.                                             *)
(***************************************************************************)
Raw == [op : Op, rd : Regs, rs1 : Regs, rs2 : Regs, imm : Word]

ZeroWord == [op |-> "ILLEGAL", rd |-> 0, rs1 |-> 0, rs2 |-> 0, imm |-> 0]

(***************************************************************************)
(* decode() clears the register fields the format does not have, and the   *)
(* immediate of the R format and of the system instructions.  A word that  *)
(* matches no instruction is ILLEGAL and keeps its register fields here;   *)
(* decode() clears some of them, by the opcode (module Decoder).  Nothing  *)
(* an ILLEGAL instruction reads or computes is used by the machine, so     *)
(* these words are not told apart.                                         *)
(***************************************************************************)
decode(raw) ==
    LET op == raw.op
    IN  [op  |-> op,
         rd  |-> IF op \in Branches \cup Stores \cup System
                   THEN 0 ELSE raw.rd,
         rs1 |-> IF op \in Upper \cup {"JAL"} \cup System
                   THEN 0 ELSE raw.rs1,
         rs2 |-> IF op \in Upper \cup Jumps \cup Loads \cup ImmOps \cup System
                   THEN 0 ELSE raw.rs2,
         imm |-> IF op \in RegOps \cup System
                   THEN 0 ELSE raw.imm]
=============================================================================
