------------------------------- MODULE MCCore -------------------------------
(***************************************************************************)
(* Programs and configurations for the whole core.  Given both, a run is   *)
(* determined, so that there can be many of them.  Bytes and registers are *)
(* as in MCPipeline; a cache line holds two words; RAM has ten, so that    *)
(* the fetches behind EBREAK stay inside.                                  *)
(***************************************************************************)
EXTENDS Core, MCPipeline

(***************************************************************************)
(* Every operation once, followed by a store of what it may have written.  *)
(* Immediates are ones the format has, and targets are whole words.        *)
(***************************************************************************)
Immediates(op) == IF op = "JALR" THEN {9, 13, -7}
                  ELSE IF op \in Branches \cup {"JAL"} THEN {8, 12, -8}
                  ELSE {3, 8, -8}

OneOfEach ==
    UNION { { Loaded(<<Enc(op, 2, 1, 2, imm), Enc("SW", 0, 0, 2, 28),
                       Enc("EBREAK", 0, 0, 0, 0)>>) : imm \in Immediates(op) } :
            op \in Op }

\* Base addresses (no jump comes back to the start of the program from
\* them), operands of either sign, the last bytes of RAM.
OperandRegs ==
    { [r \in Regs |-> CASE r = 0 -> 0 [] r = 1 -> x[1] [] r = 2 -> x[2]] :
        x \in {<<16, 2>>, <<16, 131>>, <<47, 47>>, <<250, 25>>} }

\* Bytes with and without the sign bit, all distinct in a word.
SignedMems == { [b \in RamBytes |-> (b + 2) % 4] }

(***************************************************************************)
(* Three instructions of the menu that do not jump back, and EBREAK.  Like *)
(* the programs above, these stop: behind them memory is cleared, and zero *)
(* is an illegal word.                                                     *)
(***************************************************************************)
Forward ==
    { Loaded(<<a, b, c, Enc("EBREAK", 0, 0, 0, 0)>>) :
        a \in First,
        b \in { i \in Menu : i.op \notin {"JALR", "BNE"} },
        c \in { i \in Menu : i.op \in {"ADD", "SW", "LW", "BEQ"} } }

\* Counted loops: x2 goes down to zero while x1 or a store walks through
\* memory.  Behind EBREAK stands the guard of benchmarks/start.S, or a store
\* that is made although the machine stops in front of it.
Loops ==
    { Loaded(<<Enc("ADDI", 2, 0, 0, 3), body, Enc("ADDI", 2, 2, 0, -1),
               Enc("BNE", 0, 2, 0, -8), Enc("EBREAK", 0, 0, 0, 0), behind>>) :
        body \in { Enc("SW", 0, 1, 2, 20), Enc("LW", 1, 1, 0, 0),
                   Enc("SB", 0, 2, 1, 36), Enc("ADDI", 1, 1, 0, 8) },
        behind \in { Enc("JAL", 0, 0, 0, 0), Enc("SW", 0, 0, 2, 28) } }

CorePrograms == OneOfEach \cup Forward \cup Loops

(***************************************************************************)
(* Configurations: imem latency, icache and its hit latency, prefetch and  *)
(* its degree; dmem latency, dcache and its hit latency; the cycle limit.  *)
(***************************************************************************)
Conf(il, ic, ih, pf, deg, dl, dc, dh, max) ==
    [imem_latency_cycles |-> il, icache_enabled |-> ic,
     icache_hit_latency_cycles |-> ih, icache_prefetch_enabled |-> pf,
     icache_prefetch_degree |-> deg,
     dmem_latency_cycles |-> dl, dcache_enabled |-> dc,
     dcache_hit_latency_cycles |-> dh, max_cycles |-> max]

\* A limit no program here reaches.
Unlimited == 60

CoreConfigs ==
    { Conf(1, FALSE, 1, FALSE, 1, 3, FALSE, 1, Unlimited),
      Conf(3, FALSE, 1, FALSE, 1, 2, FALSE, 1, Unlimited),
      Conf(3, TRUE,  1, TRUE,  2, 2, TRUE,  2, Unlimited),
      Conf(2, TRUE,  2, FALSE, 1, 3, TRUE,  1, Unlimited),
      Conf(0, FALSE, 0, FALSE, 0, 0, FALSE, 0, 9) }

\* The programs all stop when run one instruction at a time; they do in the
\* pipeline, with any memories and the fairness of a loop alone: stalls,
\* bubbles, misses and squashes do not chase each other.
Terminates == (cfg.max_cycles = Unlimited) ~> (exit \in {0, 3} \/ aborted)
=============================================================================
