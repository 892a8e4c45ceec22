-------------------------------- MODULE Alu --------------------------------
(***************************************************************************)
(* The ALU and the branch comparator as operators on words.                *)
(***************************************************************************)
EXTENDS Rv32i

CONSTANT WordBits       \* width of a word (32 in the code)

Pow2[n \in Nat] == IF n = 0 THEN 1 ELSE 2 * Pow2[n - 1]

ASSUME WidthAssumption == WordBits \in Nat \ {0} /\ WordValues = Pow2[WordBits]

Bit(a, i) == (a \div Pow2[i]) % 2

\* The operators &, | and ^: what they do to a pair of bits, for every bit.
AndBit == [x \in {0, 1} |-> [y \in {0, 1} |-> x * y]]
OrBit  == [x \in {0, 1} |-> [y \in {0, 1} |-> IF x + y = 0 THEN 0 ELSE 1]]
XorBit == [x \in {0, 1} |-> [y \in {0, 1} |-> (x + y) % 2]]

EachBit(f, a, b) ==
    LET low[n \in 0 .. WordBits] ==
            IF n = 0 THEN 0
            ELSE low[n - 1] + Pow2[n - 1] * f[Bit(a, n - 1)][Bit(b, n - 1)]
    IN  low[WordBits]

\* Faulty conversion: the sign bit is not seen.
Signed_dropped(a) == a

\* static_cast<int32_t>: two's complement.
Signed(a) == IF a >= WordValues \div 2 THEN a - WordValues ELSE a

\* static_cast<uint32_t>
Unsigned(i) == i % WordValues

\* Faulty shift amount: masked with one bit too many.
Shamt_wide(b) == b % (2 * WordBits)

\* The shift amount: the low bits of the operand (b & 0x1f).
Shamt(b) == b % WordBits

Flag(p) == IF p THEN 1 ELSE 0

alu_exec(op, a, b) ==
    CASE op = "ADD"    -> Unsigned(a + b)
      [] op = "SUB"    -> Unsigned(a - b)
      [] op = "AND"    -> EachBit(AndBit, a, b)
      [] op = "OR"     -> EachBit(OrBit, a, b)
      [] op = "XOR"    -> EachBit(XorBit, a, b)
      [] op = "SLL"    -> Unsigned(a * Pow2[Shamt(b)])
      [] op = "SRL"    -> a \div Pow2[Shamt(b)]
      [] op = "SRA"    -> Unsigned(Signed(a) \div Pow2[Shamt(b)])
      [] op = "SLT"    -> Flag(Signed(a) < Signed(b))
      [] op = "SLTU"   -> Flag(a < b)
      [] op = "PASS_B" -> b

branch_taken(op, a, b) ==
    CASE op = "BEQ"  -> a = b
      [] op = "BNE"  -> a # b
      [] op = "BLT"  -> Signed(a) < Signed(b)
      [] op = "BGE"  -> Signed(a) >= Signed(b)
      [] op = "BLTU" -> a < b
      [] op = "BGEU" -> a >= b
      [] OTHER       -> FALSE
=============================================================================
