------------------------------- MODULE Units -------------------------------
(***************************************************************************)
(* The units that are functions - the ALU and the comparator, the decoder, *)
(* the replacement policy - against reference definitions: each unit is    *)
(* given one of its inputs, the replacement policy every sequence of       *)
(* accesses to one set.                                                    *)
(***************************************************************************)
EXTENDS Alu, Decoder, TreePlru, Sequences

CONSTANTS
    Words,           \* the words the decoder is given
    Instructions     \* the instructions the encoder is given

-----------------------------------------------------------------------------
(***************************************************************************)
(* Legal instructions: the register fields and the immediates their format *)
(* has; what it does not have is zero.                                     *)
(***************************************************************************)
Shifts == {"SLLI", "SRLI", "SRAI"}

Format(op) ==
    CASE op \in RegOps   -> "R"
      [] op \in Shifts   -> "shift"
      [] op \in Loads \cup (ImmOps \ Shifts) \cup {"JALR"} -> "I"
      [] op \in Stores   -> "S"
      [] op \in Branches -> "B"
      [] op \in Upper    -> "U"
      [] op = "JAL"      -> "J"
      [] OTHER           -> "none"

\* A sign-extended immediate, without the low bits the format leaves out.
ImmFits(f, m) ==
    CASE f \in {"I", "S"} -> m \in -(2 ^ 11) .. (2 ^ 11 - 1)
      [] f = "B"          -> m \in -(2 ^ 12) .. (2 ^ 12 - 1) /\ m % 2 = 0
      [] f = "U"          -> m \div 2 ^ 12 \in -(2 ^ 19) .. (2 ^ 19 - 1) /\ m % 2 ^ 12 = 0
      [] f = "J"          -> m \in -(2 ^ 20) .. (2 ^ 20 - 1) /\ m % 2 = 0
      [] f = "shift"      -> m \in 0 .. 31
      [] OTHER            -> m = 0

RegFits(r, has) == r \in 0 .. 31 /\ (has \/ r = 0)

Legal(i) ==
    LET f == Format(i.op)
    IN  /\ i.op \in Op \ {"ILLEGAL"}
        /\ i = [op |-> i.op, rd |-> i.rd, rs1 |-> i.rs1, rs2 |-> i.rs2, imm |-> i.imm]
        /\ RegFits(i.rd,  f \in {"R", "I", "U", "J", "shift"})
        /\ RegFits(i.rs1, f \in {"R", "I", "S", "B", "shift"})
        /\ RegFits(i.rs2, f \in {"R", "S", "B"})
        /\ i.imm \in Int /\ ImmFits(f, i.imm)

ASSUME InputsAssumption ==
    /\ Words \subseteq InsnWord
    /\ \A i \in Instructions : Legal(i)

-----------------------------------------------------------------------------
VARIABLES
    unit,      \* the unit under test
    input      \* what it is given

vars == <<unit, input>>

Operands == [a : Word, b : Word]

Init ==
    \/ unit = "alu"     /\ input \in Operands
    \/ unit = "decoder" /\ input \in Words
    \/ unit = "encoder" /\ input \in Instructions
    \/ unit = "plru"    /\ input = [bits |-> PlruInit, recent |-> <<>>]

Levels == CHOOSE k \in 0 .. 8 : Ways = Pow2[k]

\* One access to the set: recent holds the last log2(Ways) ways, the latest
\* first.
Touch(w) ==
    LET r == <<w>> \o input.recent
    IN  /\ unit = "plru"
        /\ input' = [bits   |-> touch(input.bits, w),
                     recent |-> IF Len(r) <= Levels THEN r ELSE SubSeq(r, 1, Levels)]
        /\ UNCHANGED unit

Next == \E w \in Way : Touch(w)

Spec == Init /\ [][Next]_vars

-----------------------------------------------------------------------------
BitNo == 0 .. (WordBits - 1)
Top   == WordBits - 1

IsSet(x, i) == Bit(x, i) = 1

\* The logical and shift operations move and combine single bits, the
\* arithmetic shift copies the sign into every vacated bit, and a shift
\* amount beyond the width only counts modulo it.  No operation yields more
\* than a word.
BitsMatch ==
    unit = "alu" =>
        LET a == input.a
            b == input.b
            n == b % WordBits
            res == [op \in AluOp |-> alu_exec(op, a, b)]
        IN  /\ \A op \in AluOp : res[op] \in Word
            /\ \A i \in BitNo :
                 /\ IsSet(res["AND"], i) <=> IsSet(a, i) /\ IsSet(b, i)
                 /\ IsSet(res["OR"], i)  <=> IsSet(a, i) \/ IsSet(b, i)
                 /\ IsSet(res["XOR"], i) <=> ~(IsSet(a, i) <=> IsSet(b, i))
                 /\ IsSet(res["SLL"], i) <=> i >= n /\ IsSet(a, i - n)
                 /\ IsSet(res["SRL"], i) <=> i + n <= Top /\ IsSet(a, i + n)
                 /\ IsSet(res["SRA"], i) <=> IsSet(a, IF i + n <= Top THEN i + n ELSE Top)

\* Subtraction undoes addition around the wrap, and the three comparisons
\* of the ALU and the six of the branch unit are the same two orders: the
\* unsigned one, and the signed one, which is the unsigned order with the
\* sign bit of both operands inverted.
ComparisonsAgree ==
    unit = "alu" =>
        LET a == input.a
            b == input.b
            flip(x) == (x + Pow2[Top]) % WordValues
            ltu == alu_exec("SLTU", a, b) = 1
            lt  == alu_exec("SLT", a, b) = 1
        IN  /\ alu_exec("ADD", alu_exec("SUB", a, b), b) = a
            /\ ltu <=> \E i \in BitNo :
                         /\ ~IsSet(a, i) /\ IsSet(b, i)
                         /\ \A j \in BitNo : j > i => (IsSet(a, j) <=> IsSet(b, j))
            /\ lt  <=> alu_exec("SLTU", flip(a), flip(b)) = 1
            /\ branch_taken("BLT", a, b) = lt   /\ branch_taken("BGE", a, b) = ~lt
            /\ branch_taken("BLTU", a, b) = ltu /\ branch_taken("BGEU", a, b) = ~ltu
            /\ branch_taken("BEQ", a, b) = (alu_exec("XOR", a, b) = 0)
            /\ branch_taken("BNE", a, b) = ~branch_taken("BEQ", a, b)

-----------------------------------------------------------------------------
(***************************************************************************)
(* The reference encoder, after the format diagram of encoding.h: it looks *)
(* at an instruction where decode() looks at a word.                       *)
(***************************************************************************)
OpcodeOf(op) ==
    CASE op \in Branches -> 99 [] op \in Loads -> 3 [] op \in Stores -> 35
      [] op \in ImmOps -> 19   [] op \in RegOps -> 51
      [] op = "LUI" -> 55 [] op = "AUIPC" -> 23 [] op = "JAL" -> 111 [] op = "JALR" -> 103
      [] op = "FENCE" -> 15 [] op \in {"ECALL", "EBREAK"} -> 115

\* funct3 and funct7, numbered by the instruction listing of RV32I.
Funct3(op) ==
    CASE op \in {"SLL", "SLLI", "BNE", "LH", "SH"}           -> 1
      [] op \in {"SLT", "SLTI", "LW", "SW"}                  -> 2
      [] op \in {"SLTU", "SLTIU"}                            -> 3
      [] op \in {"XOR", "XORI", "BLT", "LBU"}                -> 4
      [] op \in {"SRL", "SRLI", "SRA", "SRAI", "BGE", "LHU"} -> 5
      [] op \in {"OR", "ORI", "BLTU"}                        -> 6
      [] op \in {"AND", "ANDI", "BGEU"}                      -> 7
      [] OTHER                                               -> 0

Funct7(op) == IF op \in {"SUB", "SRA", "SRAI"} THEN 32 ELSE 0

Encode(i) ==
    LET f == Format(i.op)
        m == i.imm
        base == [opc |-> OpcodeOf(i.op), rd |-> i.rd, f3 |-> Funct3(i.op),
                 rs1 |-> i.rs1, rs2 |-> i.rs2, f7 |-> Funct7(i.op)]
    IN  CASE f = "R"     -> base
          [] f = "shift" -> [base EXCEPT !.rs2 = m]
          [] f = "I"     -> [base EXCEPT !.rs2 = Bits(m, 4, 0), !.f7 = Bits(m, 11, 5)]
          [] f = "S"     -> [base EXCEPT !.rd = Bits(m, 4, 0), !.f7 = Bits(m, 11, 5)]
          [] f = "B"     -> [base EXCEPT !.rd = Bits(m, 4, 1) * 2 + Bits(m, 11, 11),
                                         !.f7 = Bits(m, 12, 12) * 64 + Bits(m, 10, 5)]
          [] f = "U"     -> [base EXCEPT !.f3 = Bits(m, 14, 12), !.rs1 = Bits(m, 19, 15),
                                         !.rs2 = Bits(m, 24, 20),
                                         !.f7 = (m \div 2 ^ 25) % 128]
          [] f = "J"     -> [base EXCEPT !.f3 = Bits(m, 14, 12), !.rs1 = Bits(m, 19, 15),
                                         !.rs2 = Bits(m, 4, 1) * 2 + Bits(m, 11, 11),
                                         !.f7 = Bits(m, 20, 20) * 64 + Bits(m, 10, 5)]
          [] f = "none"  -> [base EXCEPT !.rs2 = IF i.op = "EBREAK" THEN 1 ELSE 0]

\* decode() recovers every legal instruction from its encoding: operation,
\* registers and the immediate with its scattered bits and its sign.
EncodedIsDecoded == unit = "encoder" => decode_word(Encode(input)) = input

\* Only encodings are accepted: a word decode() takes for an instruction is
\* the encoding of what it says.  The fields FENCE, ECALL and EBREAK ignore
\* are not compared.
DecodedIsEncoded ==
    unit = "decoder" =>
        LET i == decode_word(input)
            e == Encode(i)
        IN  i.op # "ILLEGAL" =>
                /\ e.opc = input.opc
                /\ IF Format(i.op) # "none" THEN e = input
                   ELSE /\ e.f3 = input.f3
                        /\ i.op # "FENCE" => e.rs2 = input.rs2 /\ e.f7 = input.f7

\* The pipeline's models see a word as operation, raw register fields and
\* immediate, and clear fields by the operation; decode() clears them by the
\* opcode.  On legal words the two agree.
PipelineViewAgrees ==
    unit = "decoder" =>
        LET i == decode_word(input)
        IN  i.op # "ILLEGAL" =>
                i = decode([op |-> i.op, rd |-> input.rd, rs1 |-> input.rs1,
                            rs2 |-> input.rs2, imm |-> i.imm])

-----------------------------------------------------------------------------
\* The victim is never one of the last log2(Ways) ways touched: a line just
\* used or just installed survives that many accesses.
RecentSurvive ==
    unit = "plru" =>
        \A i \in DOMAIN input.recent : victim(input.bits) # input.recent[i]

\* From any state, Ways misses in a row replace every way once: no line can
\* hide in the tree from a stream of misses.
MissesReplaceAll ==
    unit = "plru" =>
        LET after[n \in 0 .. Ways] ==
                IF n = 0 THEN input.bits ELSE touch(after[n - 1], victim(after[n - 1]))
        IN  { victim(after[n]) : n \in 0 .. (Ways - 1) } = Way
=============================================================================
