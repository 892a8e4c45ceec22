------------------------------ MODULE Decoder ------------------------------
(***************************************************************************)
(* decode() on instruction words.  A word is the record of the bit fields  *)
(* every format has in the same place; the immediates are put together     *)
(* from the bits of these fields.                                          *)
(***************************************************************************)
EXTENDS Rv32i

\* opcode [6:0], rd [11:7], funct3 [14:12], rs1 [19:15], rs2 [24:20],
\* funct7 [31:25].
InsnWord == [opc : 0 .. 127, rd : 0 .. 31, f3 : 0 .. 7, rs1 : 0 .. 31,
             rs2 : 0 .. 31, f7 : 0 .. 127]

funct12(w) == w.f7 * 32 + w.rs2

\* The opcodes of defs.h.
OPC_LUI    == 55
OPC_AUIPC  == 23
OPC_JAL    == 111
OPC_JALR   == 103
OPC_BRANCH == 99
OPC_LOAD   == 3
OPC_STORE  == 35
OPC_OP_IMM == 19
OPC_OP     == 51
OPC_MISC_MEM == 15
OPC_SYSTEM == 115

F7_BASE == 0
F7_ALT  == 32

-----------------------------------------------------------------------------
\* Bits hi .. lo of a field.
Bits(v, hi, lo) == (v \div 2 ^ lo) % 2 ^ (hi - lo + 1)

sext(val, bits) == IF val >= 2 ^ (bits - 1) THEN val - 2 ^ bits ELSE val

imm_i(w) == sext(funct12(w), 12)

imm_s(w) == sext(w.f7 * 32 + w.rd, 12)

\* Faulty imm_b(): the bits of rd are taken as in a store.
imm_b_as_store(w) ==
    sext(Bits(w.f7, 6, 6) * 2 ^ 12 + Bits(w.f7, 5, 0) * 32 + w.rd, 13)

imm_b(w) == sext(Bits(w.f7, 6, 6) * 2 ^ 12 + Bits(w.rd, 0, 0) * 2 ^ 11
                   + Bits(w.f7, 5, 0) * 32 + Bits(w.rd, 4, 1) * 2, 13)

\* A multiple of 2^12; the sign bit is bit 31 itself.
imm_u(w) ==
    sext(w.f7 * 2 ^ 13 + w.rs2 * 2 ^ 8 + w.rs1 * 8 + w.f3, 20) * 2 ^ 12

imm_j(w) == sext(Bits(w.f7, 6, 6) * 2 ^ 20 + (w.rs1 * 8 + w.f3) * 2 ^ 12
                   + Bits(w.rs2, 0, 0) * 2 ^ 11 + Bits(w.f7, 5, 0) * 32
                   + Bits(w.rs2, 4, 1) * 2, 21)

-----------------------------------------------------------------------------
(***************************************************************************)
(* The operation a word encodes, by opcode, funct3 and funct7.             *)
(***************************************************************************)
BranchOp(f3) ==
    CASE f3 = 0 -> "BEQ" [] f3 = 1 -> "BNE"  [] f3 = 4 -> "BLT"
      [] f3 = 5 -> "BGE" [] f3 = 6 -> "BLTU" [] f3 = 7 -> "BGEU"
      [] OTHER -> "ILLEGAL"

LoadOp(f3) ==
    CASE f3 = 0 -> "LB"  [] f3 = 1 -> "LH"  [] f3 = 2 -> "LW"
      [] f3 = 4 -> "LBU" [] f3 = 5 -> "LHU" [] OTHER -> "ILLEGAL"

StoreOp(f3) ==
    CASE f3 = 0 -> "SB" [] f3 = 1 -> "SH" [] f3 = 2 -> "SW" [] OTHER -> "ILLEGAL"

\* imm[11:5] of a shift stands where funct7 does.
ShiftOp(f3, f7) ==
    CASE f3 = 1 /\ f7 = F7_BASE -> "SLLI"
      [] f3 = 5 /\ f7 = F7_BASE -> "SRLI"
      [] f3 = 5 /\ f7 = F7_ALT  -> "SRAI"
      [] OTHER -> "ILLEGAL"

OpImmOp(f3, f7) ==
    CASE f3 = 0 -> "ADDI" [] f3 = 2 -> "SLTI" [] f3 = 3 -> "SLTIU"
      [] f3 = 4 -> "XORI" [] f3 = 6 -> "ORI"  [] f3 = 7 -> "ANDI"
      [] OTHER -> ShiftOp(f3, f7)

BaseOps == <<"ADD", "SLL", "SLT", "SLTU", "XOR", "SRL", "OR", "AND">>

OpOp(f3, f7) ==
    CASE f7 = F7_BASE            -> BaseOps[f3 + 1]
      [] f7 = F7_ALT /\ f3 = 0   -> "SUB"
      [] f7 = F7_ALT /\ f3 = 5   -> "SRA"
      [] OTHER -> "ILLEGAL"

SystemOp(f12) == CASE f12 = 0 -> "ECALL" [] f12 = 1 -> "EBREAK" [] OTHER -> "ILLEGAL"

\* Faulty SYSTEM and MISC_MEM: funct3 is not looked at.
PrivilegedOp_any_f3(w) ==
    IF w.opc = OPC_MISC_MEM THEN "FENCE" ELSE SystemOp(funct12(w))

PrivilegedOp(w) ==
    IF w.f3 # 0 THEN "ILLEGAL"
    ELSE IF w.opc = OPC_MISC_MEM THEN "FENCE" ELSE SystemOp(funct12(w))

OpOf(w) ==
    CASE w.opc = OPC_LUI    -> "LUI"
      [] w.opc = OPC_AUIPC  -> "AUIPC"
      [] w.opc = OPC_JAL    -> "JAL"
      [] w.opc = OPC_JALR   -> IF w.f3 = 0 THEN "JALR" ELSE "ILLEGAL"
      [] w.opc = OPC_BRANCH -> BranchOp(w.f3)
      [] w.opc = OPC_LOAD   -> LoadOp(w.f3)
      [] w.opc = OPC_STORE  -> StoreOp(w.f3)
      [] w.opc = OPC_OP_IMM -> OpImmOp(w.f3, w.f7)
      [] w.opc = OPC_OP     -> OpOp(w.f3, w.f7)
      [] w.opc \in {OPC_MISC_MEM, OPC_SYSTEM} -> PrivilegedOp(w)
      [] OTHER -> "ILLEGAL"

\* The fields a word of this opcode loses, legal or not.
Privileged(w) == w.opc \in {OPC_MISC_MEM, OPC_SYSTEM} /\ w.f3 = 0
UpperFormat   == {OPC_LUI, OPC_AUIPC, OPC_JAL}
ImmFormat     == {OPC_LOAD, OPC_OP_IMM}

\* Faulty decode(): JALR keeps what stands in place of rs2.
ClearsRs2_not_jalr(w) == w.opc \in UpperFormat \cup ImmFormat \/ Privileged(w)

ClearsRd(w)  == w.opc \in {OPC_BRANCH, OPC_STORE} \/ Privileged(w)
ClearsRs1(w) == w.opc \in UpperFormat \/ Privileged(w)
ClearsRs2(w) == \/ w.opc \in UpperFormat \cup ImmFormat
                \/ w.opc = OPC_JALR /\ w.f3 = 0
                \/ Privileged(w)

ImmOf(w) ==
    CASE w.opc \in {OPC_LUI, OPC_AUIPC} -> imm_u(w)
      [] w.opc = OPC_JAL                -> imm_j(w)
      [] w.opc = OPC_BRANCH             -> imm_b(w)
      [] w.opc = OPC_STORE              -> imm_s(w)
      [] w.opc = OPC_LOAD \/ (w.opc = OPC_JALR /\ w.f3 = 0) -> imm_i(w)
      [] w.opc = OPC_OP_IMM             ->
           IF OpOf(w) \in {"SLLI", "SRLI", "SRAI"} THEN imm_i(w) % 32 ELSE imm_i(w)
      [] OTHER -> 0

decode_word(w) ==
    [op  |-> OpOf(w),
     rd  |-> IF ClearsRd(w)  THEN 0 ELSE w.rd,
     rs1 |-> IF ClearsRs1(w) THEN 0 ELSE w.rs1,
     rs2 |-> IF ClearsRs2(w) THEN 0 ELSE w.rs2,
     imm |-> ImmOf(w)]
=============================================================================
