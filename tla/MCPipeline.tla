----------------------------- MODULE MCPipeline -----------------------------
(***************************************************************************)
(* Model checking the pipeline: short programs over a menu of instructions *)
(* chosen so that every producer-consumer distance, both directions of     *)
(* prediction, every redirect and both halting instructions occur.  A byte *)
(* has two bits, a word eight; RAM holds four words at address 16.         *)
(***************************************************************************)
EXTENDS PipelineInv, Sequences

ALU == INSTANCE Alu WITH WordBits <- 8

MCalu(op, a, b) == ALU!alu_exec(op, a, b)
MCcompare(op, a, b) == ALU!branch_taken(op, a, b)

\* Instruction words.  Fields a format does not have hold what is given.
Enc(op, rd, s1, s2, imm) ==
    [op |-> op, rd |-> rd, rs1 |-> s1, rs2 |-> s2, imm |-> imm % WordValues]

\* load_program(): consecutive words from the base of RAM, zero elsewhere.
Loaded(words) ==
    [a \in RamAddr |->
        LET i == (a - RamBase) \div 4 + 1
        IN  IF a % 4 = 0 /\ i <= Len(words) THEN words[i] ELSE ZeroWord]

Menu ==
    { Enc("ADDI", 1, 1, 0, 4),      \* addi x1, x1, 4
      Enc("ADD",  2, 1, 2, 0),      \* add  x2, x1, x2
      Enc("LW",   1, 1, 0, 0),      \* lw   x1, 0(x1)
      Enc("LW",   2, 1, 0, 4),      \* lw   x2, 4(x1)
      Enc("SW",   0, 1, 2, 0),      \* sw   x2, 0(x1)
      Enc("BEQ",  0, 1, 2, 8),      \* beq  x1, x2, +8
      Enc("BNE",  0, 2, 1, -4),     \* bne  x2, x1, -4
      Enc("JAL",  2, 0, 0, 8),      \* jal  x2, +8
      Enc("JALR", 2, 1, 0, 0),      \* jalr x2, 0(x1)
      Enc("LUI",  1, 2, 0, 20),     \* lui  x1, 20 (bits 19:15 hold 2)
      Enc("ILLEGAL", 1, 2, 0, 0) }  \* an illegal word, bits 11:7 hold 1

Last == { Enc("EBREAK", 0, 0, 0, 0),
          Enc("SW",  0, 1, 2, 0),
          Enc("BNE", 0, 1, 2, -12) }

First == { Enc("ADDI", 1, 1, 0, 4),
           Enc("LW",   2, 1, 0, 4),
           Enc("BNE",  0, 1, 2, 8) }

MCPrograms ==
    { Loaded(<<a, b, c, d>>) : a \in First, b, c \in Menu, d \in Last }

MCRegs == { [r \in Regs |-> CASE r = 0 -> 0 [] r = 1 -> 16 [] r = 2 -> 24] }

\* The word at 16 holds 20, the next one 16, the others zero.
MCMems ==
    { [b \in RamBytes |-> CASE b = 17 -> 1 [] b = 18 -> 1 [] b = 22 -> 1
                            [] OTHER -> 0] }

-----------------------------------------------------------------------------
(***************************************************************************)
(* A jump into the middle of a word.  16: beq x0, x0, 24 trains the        *)
(* predictor; 24: jalr x0, 2(x1) goes to 18, whose halves make up the      *)
(* branch beq x0, x0, 28; 28: ebreak.                                      *)
(***************************************************************************)
HalfwordTarget ==
    { [a \in RamAddr |-> CASE a = 16 -> Enc("BEQ", 0, 0, 0, 8)
                           [] a = 18 -> Enc("BEQ", 0, 0, 0, 10)
                           [] a = 24 -> Enc("JALR", 0, 1, 0, 2)
                           [] a = 28 -> Enc("EBREAK", 0, 0, 0, 0)
                           [] OTHER -> ZeroWord] }

\* What execute.cpp and branch_predictor.h say: a prediction whose direction
\* is right has the right target.
DirectionIsEnough ==
    (id_ex.valid /\ id_ex.predicted_taken /\ actual_taken) => FrontPc = target

(***************************************************************************)
(* Programs that end with the last word of RAM, which runs backwards or    *)
(* stops the machine: the next word is fetched all the same.               *)
(***************************************************************************)
ToTheEnd == { Loaded(<<Enc("ADDI", 1, 1, 0, 4), Enc("EBREAK", 0, 0, 0, 0),
                       Enc("ADD", 2, 1, 2, 0), d>>) :
              d \in {Enc("EBREAK", 0, 0, 0, 0), Enc("JAL", 0, 0, 0, -8)} }

\* The fetch of this cycle is not on the program's path: EX redirects it, or
\* an instruction ahead of it stops the machine or jumps away.
WrongPathFetch ==
    \/ redirect
    \/ if_id.valid /\ (\/ Halts(if_id.raw.op)
                       \/ if_id.raw.op = "JAL" /\ ~if_id.predicted_taken)
    \/ id_ex.valid /\ Halts(id_ex.op)
    \/ ex_mem.valid /\ Halts(ex_mem.op)
    \/ Halting

\* What docs/simulation.md says of wrong-path garbage: it cannot stop the
\* machine.
NoWrongPathAbort == ~(aborted /\ WrongPathFetch /\ ~AccessFaults)
=============================================================================
