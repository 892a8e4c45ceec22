------------------------------ MODULE MCUnits ------------------------------
(***************************************************************************)
(* Model checking the units: all operands of the ALU, a choice of words    *)
(* and of legal instructions.                                              *)
(***************************************************************************)
EXTENDS Units

\* Words: every opcode and funct3; the other fields around the values the
\* decoder tells apart.
MCWords == [opc : 0 .. 127, f3 : 0 .. 7, f7 : {0, 1, 32, 33, 64, 127},
          rd : {0, 1, 30}, rs1 : {0, 21}, rs2 : {0, 1, 30}]

\* Single bits and ends of an immediate of bits n-1 .. lo, sign extended.
Immediates(n, lo) ==
    {0, -(2 ^ (n - 1)), 2 ^ (n - 1) - 2 ^ lo, -(2 ^ lo)} \cup { 2 ^ i : i \in lo .. (n - 2) }

ImmediatesOf(f) ==
    CASE f \in {"I", "S"} -> Immediates(12, 0)
      [] f = "B"          -> Immediates(13, 1)
      [] f = "U"          -> {0, -4096, -(2 ^ 30) - 2 ^ 30} \cup
                             { 4096 * 2 ^ i : i \in 0 .. 18 }
      [] f = "J"          -> Immediates(21, 1)
      [] f = "shift"      -> {0, 1, 2, 4, 8, 16, 31}
      [] OTHER            -> {0}

RegsOf(f, with) == IF f \in with THEN {0, 1, 2, 16, 31} ELSE {0}

MCInstructions ==
    UNION { LET f == Format(op)
            IN  [op : {op}, rd : RegsOf(f, {"R", "I", "U", "J", "shift"}),
                 rs1 : RegsOf(f, {"R", "I", "S", "B", "shift"}),
                 rs2 : RegsOf(f, {"R", "S", "B"}), imm : ImmediatesOf(f)] :
            op \in Op \ {"ILLEGAL"} }
=============================================================================
