--------------------------- MODULE PipelineProofs ---------------------------
(***************************************************************************)
(* Proofs about the pipeline, for every word size, register count, RAM,    *)
(* predictor geometry, program, ALU and memory latency.                    *)
(***************************************************************************)
EXTENDS PipelineInv, TLAPS

-----------------------------------------------------------------------------
(***************************************************************************)
(* Words and memory.                                                       *)
(***************************************************************************)

\* The quantities a half-word and a word can hold.
LEMMA Sizes ==
    /\ ByteValues \in Nat /\ ByteValues >= 2
    /\ HalfValues \in Nat /\ HalfValues >= 4
    /\ WordValues \in Nat /\ WordValues >= 16
<1>1. ByteValues \in Nat /\ ByteValues >= 2
  BY MachineAssumption
<1>2. \A m, n \in Nat : (m >= 2 /\ n >= 2) => (m * n \in Nat /\ m * n >= 4)
  OBVIOUS
<1>3. HalfValues \in Nat /\ HalfValues >= 4
  BY <1>1, <1>2 DEF HalfValues
<1>4. \A m, n \in Nat : (m >= 4 /\ n >= 4) => (m * n \in Nat /\ m * n >= 16)
  OBVIOUS
<1>5. WordValues \in Nat /\ WordValues >= 16
  BY <1>3, <1>4 DEF WordValues
<1> QED BY <1>1, <1>3, <1>5

\* Reducing an integer to a size leaves a quantity of that size.
LEMMA Reduced ==
    /\ \A x \in Int : x % ByteValues \in Byte
    /\ \A x \in Int : x % HalfValues \in 0 .. (HalfValues - 1)
    /\ \A x \in Int : x % WordValues \in Word
<1>1. \A x \in Int, n \in Nat : n >= 1 => x % n \in 0 .. (n - 1)
  OBVIOUS
<1>2. \A x \in Int : x % ByteValues \in Byte
  BY <1>1, MachineAssumption DEF Byte
<1>3. \A x \in Int : x % HalfValues \in 0 .. (HalfValues - 1)
  <2>1. HalfValues \in Nat /\ HalfValues >= 1
    BY Sizes
  <2> QED BY <1>1, <2>1
<1>4. \A x \in Int : x % WordValues \in Word
  <2>1. WordValues \in Nat /\ WordValues >= 1
    BY Sizes
  <2> QED BY <1>1, <2>1 DEF Word
<1> QED BY <1>2, <1>3, <1>4

\* 32-bit addition and clearing bit 0 yield words.
LEMMA PlusType ==
    /\ \A a, b \in Word : Plus(a, b) \in Word
    /\ \A a \in Word : Plus(a, 4) \in Word
    /\ \A a \in Word : ClearBit0(a) \in Word
<1>1. \A a, b \in Int : Plus(a, b) \in Word
  BY Reduced DEF Plus
<1>2. Word \subseteq Int
  BY Sizes DEF Word
<1>3. \A a \in Word : ClearBit0(a) \in Word
  BY Sizes DEF Word, ClearBit0
<1> QED BY <1>1, <1>2, <1>3

\* Addresses of RAM are words.
LEMMA RamWords == RamAddr \subseteq Word /\ RamBase \in Word
  BY RamAssumption, Sizes DEF RamAddr, Word

\* A load yields a word.
LEMMA LoadType ==
    ASSUME NEW op \in Loads, NEW m \in Mem, NEW a \in RamAddr
    PROVE  LoadValue(op, m, a) \in Word
<1>1. /\ a \in RamBytes /\ a + 1 \in RamBytes
      /\ a + 2 \in RamBytes /\ a + 2 + 1 \in RamBytes
  BY RamAssumption DEF RamAddr, RamBytes
<1>2. \A x \in RamBytes : m[x] \in Int
  BY Sizes DEF Mem, Byte
<1>3. load_half(m, a) \in Int /\ load_half(m, a + 2) \in Int
  BY <1>1, <1>2, Sizes DEF load_half
<1>4. load_word(m, a) \in Word
  BY <1>3, Sizes, Reduced DEF load_word
<1>5. \A x, n \in Int : SignExtend(x, n) \in Word /\ ZeroExtend(x) \in Word
  <2> SUFFICES ASSUME NEW x \in Int, NEW n \in Int
               PROVE  SignExtend(x, n) \in Word /\ ZeroExtend(x) \in Word
    OBVIOUS
  <2>1. (IF 2 * x >= n THEN x + WordValues - n ELSE x) \in Int
    BY Sizes
  <2> QED BY <2>1, Reduced DEF SignExtend, ZeroExtend
<1>6. load_byte(m, a) \in Int
  BY <1>1, <1>2 DEF load_byte
<1> QED BY <1>3, <1>4, <1>5, <1>6, Sizes DEF LoadValue, Loads

\* A store leaves memory well-formed.
LEMMA StoreType ==
    ASSUME NEW op \in Stores, NEW m \in Mem, NEW a \in RamAddr, NEW v \in Word
    PROVE  StoreResult(op, m, a, v) \in Mem /\ StoreValue(op, v) \in Word
<1>1. v \in Nat /\ RamAddr \subseteq Int
  BY Sizes, RamAssumption DEF Word, RamAddr
<1>2. \A x \in Int :
        x % ByteValues \in Byte /\ (x \div ByteValues) % ByteValues \in Byte
  <2>1. \A x \in Int : x \div ByteValues \in Int
    BY Sizes
  <2> QED BY <2>1, Reduced
<1>3. \A n \in Mem, b, x \in Int : store_byte(n, b, x) \in Mem
  BY <1>2 DEF store_byte, Mem
<1>4. \A n \in Mem, b, x \in Int : store_half(n, b, x) \in Mem
  BY <1>2 DEF store_half, Mem
<1>5. \A n \in Mem, b, x \in Int : store_word(n, b, x) \in Mem
  <2>1. \A x \in Int : x % HalfValues \in Int /\ x \div HalfValues \in Int
    BY Sizes
  <2> QED BY <1>4, <2>1 DEF store_word
<1>6. StoreValue(op, v) \in Nat /\ StoreValue(op, v) <= v
  BY <1>1, Sizes DEF StoreValue, Stores
<1>7. StoreValue(op, v) \in Word
  BY <1>6, <1>1, Sizes DEF Word
<1> QED BY <1>1, <1>3, <1>4, <1>5, <1>6, <1>7 DEF StoreResult, Stores

-----------------------------------------------------------------------------
(***************************************************************************)
(* Types of what the stages compute.                                       *)
(***************************************************************************)

\* Zero is a register, a byte and a word.
LEMMA Zero == 0 \in Regs /\ 0 \in Word /\ RamAddr \subseteq Int
  BY MachineAssumption, Sizes, RamAssumption DEF Regs, Word, RamAddr

\* Decoding a word yields an operation, registers and an immediate.
LEMMA DecodeType ==
    ASSUME NEW raw \in Raw
    PROVE  /\ decode(raw).op = raw.op /\ raw.op \in Op
           /\ decode(raw).rd \in Regs
           /\ decode(raw).rs1 \in Regs
           /\ decode(raw).rs2 \in Regs
           /\ decode(raw).imm \in Word
  BY Zero DEF decode, Raw

\* A branch, a store or a system instruction decodes to destination x0.
LEMMA DecodeRd ==
    ASSUME NEW raw \in Raw, decode(raw).rd # 0
    PROVE  has_writeback(raw.op) \/ raw.op = "ILLEGAL"
  BY DEF decode, Raw, has_writeback

\* Every operation has an ALU function.
LEMMA AluOpType == \A op \in Op : alu_op_for(op) \in AluOp
  BY DEF alu_op_for, AluOp

\* EX computes words and truth values.
LEMMA ExecuteType ==
    ASSUME NEW i, i.op \in Op, i.imm \in Word,
           NEW at \in Word, NEW a \in Word, NEW b \in Word
    PROVE  /\ AluOut(i, at, a, b) \in Word
           /\ Taken(i, a, b) \in BOOLEAN
           /\ Target(i, at, a) \in Word
<1>1. AluOut(i, at, a, b) \in Word
  <2>1. alu_op_for(i.op) \in AluOp
    BY AluOpType
  <2>2. (IF i.op = "AUIPC" THEN at ELSE a) \in Word
    OBVIOUS
  <2>3. (IF uses_imm(i.op) THEN i.imm ELSE b) \in Word
    OBVIOUS
  <2>4. Plus(at, 4) \in Word
    BY PlusType
  <2> QED BY <2>1, <2>2, <2>3, <2>4, AluAssumption DEF AluOut
<1>2. Taken(i, a, b) \in BOOLEAN
  BY DEF Taken
<1>3. Target(i, at, a) \in Word
  BY PlusType DEF Target
<1> QED BY <1>1, <1>2, <1>3

\* Indices into the predictor's tables are in range.
LEMMA IndexType ==
    \A a \in Word : /\ bht_index(a) \in BhtIndex
                    /\ btb_index(a) \in BtbIndex
                    /\ btb_tag(a) \in Nat
<1> SUFFICES ASSUME NEW a \in Word
             PROVE  /\ bht_index(a) \in BhtIndex
                    /\ btb_index(a) \in BtbIndex
                    /\ btb_tag(a) \in Nat
  OBVIOUS
<1> DEFINE q == a \div 4
<1>1. q \in Nat
  BY Sizes DEF Word
<1>2. \A x \in Nat, n \in Nat :
        n >= 1 => x % n \in 0 .. (n - 1) /\ x \div n \in Nat
  OBVIOUS
<1> HIDE DEF q
<1>3. /\ q % BhtEntries \in BhtIndex
      /\ q % BtbEntries \in BtbIndex
      /\ q \div BtbEntries \in Nat
  BY <1>1, <1>2, PredictorAssumption DEF BhtIndex, BtbIndex
<1> QED BY <1>3 DEF q, bht_index, btb_index, btb_tag

\* Forwarding yields words.
LEMMA ResolveType ==
    ASSUME TypeOK, NEW r \in Regs, NEW cur \in Word
    PROVE  resolve(r, cur) \in Word
  BY Zero DEF TypeOK, resolve, ExMem, MemWb

\* So do the operands EX works on.
LEMMA OperandType ==
    ASSUME TypeOK
    PROVE  rs1 \in Word /\ rs2 \in Word
<1>1. /\ id_ex.rs1 \in Regs /\ id_ex.rs1_val \in Word
      /\ id_ex.rs2 \in Regs /\ id_ex.rs2_val \in Word
  BY DEF TypeOK, IdEx
<1> QED BY <1>1, ResolveType DEF rs1, rs2

\* A bubble is a legal content of each latch.
LEMMA BubbleType ==
    /\ ZeroWord \in Raw
    /\ IfIdBubble \in IfId
    /\ IdExBubble \in IdEx
    /\ ExMemBubble \in ExMem
    /\ MemWbBubble \in MemWb
<1>1. ZeroWord \in Raw
  BY Zero DEF ZeroWord, Raw, Op
<1> QED BY <1>1, Zero
        DEF IfIdBubble, IfId, IdExBubble, IdEx, ExMemBubble, ExMem,
            MemWbBubble, MemWb, Op

\* The initial state is well-typed.
LEMMA InitType == Init => TypeOK
<1> SUFFICES ASSUME Init PROVE TypeOK
  OBVIOUS
<1>1. imem \in [RamAddr -> Raw] /\ dmem \in Mem /\ rf \in [Regs -> Word]
  BY InputAssumption DEF Init
<1>2. pc \in Word /\ halt_pc \in Word
  BY RamWords, Zero DEF Init
<1>3. bht \in [BhtIndex -> 0 .. 3]
  BY DEF Init, BhtInit
<1>4. btb \in [BtbIndex -> BtbEntry]
  BY Zero DEF Init, BtbInit, NoEntry, BtbEntry
<1> QED BY <1>1, <1>2, <1>3, <1>4, BubbleType DEF Init, TypeOK

\* What the stages hand to the latches is well-typed.
LEMMA StageTypes ==
    ASSUME TypeOK
    PROVE  /\ Decoded \in IdEx
           /\ Executed \in ExMem
           /\ ~AccessFaults => Accessed \in MemWb
           /\ pc \in RamAddr => Fetched \in IfId
           /\ CapturedOperands \in IdEx
           /\ redirect_target \in Word
           /\ target \in Word
<1>1. Decoded \in IdEx
  <2>1. if_id.raw \in Raw /\ if_id.pc \in Word /\ if_id.predicted_taken \in BOOLEAN
    BY DEF TypeOK, IfId
  <2> DEFINE d == decode(if_id.raw)
  <2>2. /\ d.op \in Op /\ d.rd \in Regs /\ d.rs1 \in Regs /\ d.rs2 \in Regs
        /\ d.imm \in Word
    BY <2>1, DecodeType
  <2>3. RfRead(d.rs1) \in Word /\ RfRead(d.rs2) \in Word
    BY <2>2 DEF TypeOK, RfRead
  <2> HIDE DEF d
  <2> QED BY <2>1, <2>2, <2>3, BubbleType DEF Decoded, IdEx, d
<1>2. /\ id_ex.op \in Op /\ id_ex.imm \in Word /\ id_ex.pc \in Word
      /\ id_ex.rd \in Regs
  BY DEF TypeOK, IdEx
<1>3. /\ AluOut(id_ex, id_ex.pc, rs1, rs2) \in Word
      /\ actual_taken \in BOOLEAN /\ target \in Word
  BY <1>2, OperandType, ExecuteType DEF actual_taken, target
<1>4. Executed \in ExMem
  BY <1>2, <1>3, OperandType, BubbleType DEF Executed, ExMem
<1>5. ASSUME ~AccessFaults PROVE Accessed \in MemWb
  <2>1. /\ ex_mem.pc \in Word /\ ex_mem.op \in Op /\ ex_mem.rd \in Regs
        /\ ex_mem.alu_out \in Word /\ ex_mem.rs2_val \in Word
    BY DEF TypeOK, ExMem
  <2>0. is_store(ex_mem.op) \in BOOLEAN
    BY DEF is_store
  <2>2. CASE ~ex_mem.valid
    BY <2>2, BubbleType DEF Accessed
  <2>3. CASE ex_mem.valid /\ is_load(ex_mem.op)
    <3>1. LoadValue(ex_mem.op, dmem, ex_mem.alu_out) \in Word
      BY <2>3, <1>5, LoadType
         DEF AccessFaults, accessing, is_mem_op, is_load, TypeOK
    <3>2. ~is_store(ex_mem.op)
      BY <2>3 DEF is_load, is_store, Loads, Stores
    <3> QED BY <2>0, <2>1, <2>3, <3>1, <3>2, Zero DEF Accessed, MemWb
  <2>4. CASE ex_mem.valid /\ is_store(ex_mem.op)
    <3>1. StoreValue(ex_mem.op, ex_mem.rs2_val) \in Word
      BY <2>1, <2>4, <1>5, StoreType
         DEF AccessFaults, accessing, is_mem_op, is_store, TypeOK
    <3>2. ~is_load(ex_mem.op)
      BY <2>4 DEF is_load, is_store, Loads, Stores
    <3> QED BY <2>0, <2>1, <2>4, <3>1, <3>2, Zero DEF Accessed, MemWb
  <2>5. CASE ex_mem.valid /\ ~is_load(ex_mem.op) /\ ~is_store(ex_mem.op)
    BY <2>1, <2>5, Zero DEF Accessed, MemWb, is_store
  <2> QED BY <2>2, <2>3, <2>4, <2>5
<1>6. ASSUME pc \in RamAddr PROVE Fetched \in IfId
  BY <1>6 DEF Fetched, IfId, TypeOK, PredictTaken, BtbHit
<1>7. CapturedOperands \in IdEx
  BY OperandType DEF CapturedOperands, IdEx, TypeOK
<1>8. redirect_target \in Word
  BY <1>2, <1>3, PlusType DEF redirect_target
<1> QED BY <1>1, <1>3, <1>4, <1>5, <1>6, <1>7, <1>8

\* Write-back and halt detection keep the types.
LEMMA RetireType ==
    ASSUME TypeOK, WriteBack, DetectHalt
    PROVE  /\ rf' \in [Regs -> Word]
           /\ prev_mem_wb' \in MemWb
           /\ halt_reason' \in {"None", "Ebreak", "Illegal"}
           /\ halt_pc' \in Word
<1>1. mem_wb.rd \in Regs /\ mem_wb.wb_val \in Word /\ mem_wb.pc \in Word
  BY DEF TypeOK, MemWb
<1> QED BY <1>1 DEF TypeOK, WriteBack, DetectHalt, RfWrite

\* Training keeps the counters between 0 and 3 and the entries well-formed.
LEMMA TrainType ==
    ASSUME TypeOK, Train
    PROVE  bht' \in [BhtIndex -> 0 .. 3] /\ btb' \in [BtbIndex -> BtbEntry]
<1>1. id_ex.pc \in Word /\ target \in Word
  BY StageTypes DEF TypeOK, IdEx
<1>2. /\ bht_index(id_ex.pc) \in BhtIndex /\ btb_index(id_ex.pc) \in BtbIndex
      /\ btb_tag(id_ex.pc) \in Nat
  BY <1>1, IndexType
<1>3. bht' \in [BhtIndex -> 0 .. 3]
  BY <1>2 DEF TypeOK, Train, UpdateBht
<1>4. btb' \in [BtbIndex -> BtbEntry]
  <2> DEFINE e == [valid |-> TRUE, tag |-> btb_tag(id_ex.pc),
                   target |-> target, cond |-> is_cond_branch(id_ex.op)]
  <2>1. e \in BtbEntry
    BY <1>1, <1>2 DEF BtbEntry, is_cond_branch
  <2>2. train => btb' = [btb EXCEPT ![btb_index(id_ex.pc)] = e]
    BY DEF Train, UpdateBtb
  <2> HIDE DEF e
  <2> QED BY <1>2, <2>1, <2>2 DEF TypeOK, Train
<1> QED BY <1>3, <1>4

\* Every tick keeps the types.
LEMMA NextType == TypeOK /\ [Next]_vars => TypeOK'
<1> SUFFICES ASSUME TypeOK, [Next]_vars PROVE TypeOK'
  OBVIOUS
<1>1. ASSUME NEW i \in BOOLEAN, StallTick(i) PROVE TypeOK'
  BY <1>1, RetireType, StageTypes, BubbleType DEF StallTick, TypeOK
<1>2. ASSUME NEW i \in BOOLEAN, AdvanceTick(i) PROVE TypeOK'
  <2>1. /\ rf' \in [Regs -> Word] /\ prev_mem_wb' \in MemWb
        /\ halt_reason' \in {"None", "Ebreak", "Illegal"} /\ halt_pc' \in Word
    BY <1>2, RetireType DEF AdvanceTick
  <2>2. bht' \in [BhtIndex -> 0 .. 3] /\ btb' \in [BtbIndex -> BtbEntry]
    BY <1>2, TrainType DEF AdvanceTick
  <2>3. ex_mem' \in ExMem /\ mem_wb' \in MemWb /\ id_ex' \in IdEx
    BY <1>2, StageTypes, BubbleType DEF AdvanceTick, DecodeLatch
  <2>4. dmem' \in Mem
    <3>1. CASE storing
      <4>1. /\ ex_mem.op \in Stores /\ ex_mem.alu_out \in RamAddr
            /\ ex_mem.rs2_val \in Word
        BY <1>2, <3>1 DEF AdvanceTick, AccessFaults, accessing, storing,
              is_store, is_mem_op, TypeOK, ExMem
      <4> QED BY <1>2, <3>1, <4>1, StoreType DEF AdvanceTick, TypeOK
    <3>2. CASE ~storing
      BY <1>2, <3>2 DEF AdvanceTick, TypeOK
    <3> QED BY <3>1, <3>2
  <2>5. if_id' \in IfId /\ pc' \in Word
    <3>1. PredictedPc(bht, btb, pc) \in Word
      <4>1. btb_index(pc) \in BtbIndex
        BY IndexType DEF TypeOK
      <4>2. btb[btb_index(pc)].target \in Word
        BY <4>1 DEF TypeOK, BtbEntry
      <4> QED BY <4>2, PlusType DEF PredictedPc, TypeOK
    <3>2. FetchLatch(i) /\ ~FetchFaults(i)
      BY <1>2 DEF AdvanceTick
    <3> QED BY <3>1, <3>2, StageTypes, BubbleType
            DEF FetchLatch, FetchFaults, TypeOK
  <2>6. imem' \in [RamAddr -> Raw] /\ aborted' \in BOOLEAN
    BY <1>2 DEF AdvanceTick, TypeOK
  <2> QED BY <2>1, <2>2, <2>3, <2>4, <2>5, <2>6 DEF TypeOK
<1>3. ASSUME NEW i \in BOOLEAN, AbortTick(i) PROVE TypeOK'
  BY <1>3 DEF AbortTick, TypeOK, pipe
<1>4. CASE UNCHANGED vars
  BY <1>4 DEF TypeOK, vars, pipe
<1> QED BY <1>1, <1>2, <1>3, <1>4 DEF Next, Tick, HaltedTick

\* Bytes, words, register numbers and predictor counters stay in range
\* whatever the program does and however long its accesses take.
THEOREM TypeCorrect == Spec => []TypeOK
  BY InitType, NextType, PTL DEF Spec

-----------------------------------------------------------------------------
(***************************************************************************)
(* The inductive invariant.                                                *)
(***************************************************************************)

\* Index and tag together determine a word-aligned address.
LEMMA IndexTagInjective ==
    ASSUME NEW a \in Word, NEW b \in Word, a % 4 = 0, b % 4 = 0,
           btb_index(a) = btb_index(b), btb_tag(a) = btb_tag(b)
    PROVE  a = b
<1>1. \A n, x, y \in Nat :
        (n >= 1 /\ x % n = y % n /\ x \div n = y \div n) => x = y
  OBVIOUS
<1>2. /\ a \div 4 \in Nat /\ b \div 4 \in Nat
      /\ a = 4 * (a \div 4) /\ b = 4 * (b \div 4)
  BY Sizes DEF Word
<1>3. a \div 4 = b \div 4
  BY <1>1, <1>2, PredictorAssumption DEF btb_index, btb_tag
<1> QED BY <1>2, <1>3

\* The registers once the instruction in EX/MEM has taken effect too.
Committed ==
    IF ex_mem.valid /\ has_writeback(ex_mem.op) /\ ex_mem.rd # 0
      THEN [AbsReg EXCEPT ![ex_mem.rd] = Accessed.wb_val]
      ELSE AbsReg

\* The architectural registers are words, and x0 is zero.
LEMMA AbsRegType ==
    ASSUME TypeOK
    PROVE  /\ AbsReg \in [Regs -> Word]
           /\ rf[0] = 0 => AbsReg[0] = 0
  BY Zero DEF TypeOK, AbsReg, RfWrite, MemWb

\* Write-back brings the register file up to the architectural registers.
LEMMA RfCatchesUp ==
    ASSUME TypeOK, ~halted, WriteBack
    PROVE  rf' = AbsReg
  BY DEF AbsReg, WriteBack

\* The invariant, with the facts about the latches' instructions that
\* follow from it.
LEMMA DestinationFacts ==
    ASSUME TypeOK, IInv, ~halted
    PROVE  /\ (ex_mem.valid /\ ex_mem.rd # 0) =>
                 has_writeback(ex_mem.op) \/ ex_mem.op = "ILLEGAL"
           /\ (ex_mem.valid /\ is_store(ex_mem.op)) => ex_mem.rd = 0
<1>1. SUFFICES ASSUME ex_mem.valid, ex_mem.rd # 0
               PROVE  has_writeback(ex_mem.op) \/ ex_mem.op = "ILLEGAL"
  BY DEF has_writeback, is_store, Stores
<1>2. /\ imem[ex_mem.pc] \in Raw
      /\ ex_mem.op = decode(imem[ex_mem.pc]).op
      /\ ex_mem.rd = decode(imem[ex_mem.pc]).rd
  BY <1>1 DEF IInv, StagesHoldProgram, Insn, TypeOK
<1> QED BY <1>1, <1>2, DecodeRd, DecodeType

\* Forwarding delivers the architectural value: for a register whose latched
\* copy is current or superseded in the forwarding window, and which is not
\* the destination of a load in MEM.
LEMMA ForwardingCorrect ==
    ASSUME TypeOK, IInv, ~halted, ~Halting,
           ~(ex_mem.valid /\ Halts(ex_mem.op)),
           NEW r \in Regs, NEW cur \in Word,
           r # 0 => \/ cur = rf[r]
                    \/ prev_mem_wb.valid /\ prev_mem_wb.rd = r,
           ~(r # 0 /\ ex_mem.valid /\ is_load(ex_mem.op) /\ ex_mem.rd = r)
    PROVE  resolve(r, cur) = Committed[r]
<1>1. AbsReg \in [Regs -> Word] /\ AbsReg[0] = 0
  BY AbsRegType DEF IInv, ZeroReg
<1>2. ex_mem.rd \in Regs /\ mem_wb.rd \in Regs
  BY DEF TypeOK, ExMem, MemWb
<1>3. CASE r = 0
  BY <1>1, <1>2, <1>3 DEF resolve, Committed
<1>4. CASE r # 0 /\ ex_mem.valid /\ ex_mem.rd = r
  <2>1. has_writeback(ex_mem.op)
    BY <1>4, DestinationFacts DEF Halts
  <2>2. ~is_load(ex_mem.op) /\ ~is_store(ex_mem.op)
    BY <1>4, <2>1 DEF has_writeback, is_store
  <2>3. Accessed.wb_val = ex_mem.alu_out
    BY <1>4, <2>2 DEF Accessed
  <2> QED BY <1>1, <1>2, <1>4, <2>1, <2>3 DEF resolve, Committed
<1>5. CASE r # 0 /\ ~(ex_mem.valid /\ ex_mem.rd = r)
  <2>1. Committed[r] = AbsReg[r]
    BY <1>1, <1>2, <1>5 DEF Committed
  <2>2. CASE mem_wb.valid /\ mem_wb.rd = r
    <3>1. has_writeback(mem_wb.op)
      BY <1>5, <2>2 DEF IInv, DestinationsAreWritten, Halting, Halts
    <3> QED BY <1>2, <1>5, <2>1, <2>2, <3>1
            DEF resolve, AbsReg, RfWrite, TypeOK
  <2>3. CASE ~(mem_wb.valid /\ mem_wb.rd = r)
    <3>1. AbsReg[r] = rf[r]
      BY <1>2, <2>3 DEF AbsReg, RfWrite, TypeOK
    <3>2. (prev_mem_wb.valid /\ prev_mem_wb.rd = r) =>
             prev_mem_wb.wb_val = rf[r]
      BY <1>5 DEF IInv, DestinationsAreWritten
    <3> QED BY <1>5, <2>1, <2>3, <3>1, <3>2 DEF resolve
  <2> QED BY <2>2, <2>3
<1> QED BY <1>3, <1>4, <1>5

\* In particular for the operands of the instruction in EX.
LEMMA OperandsCorrect ==
    ASSUME TypeOK, IInv, ~halted, ~Halting,
           ~(ex_mem.valid /\ Halts(ex_mem.op)), id_ex.valid
    PROVE  rs1 = Committed[id_ex.rs1] /\ rs2 = Committed[id_ex.rs2]
<1>1. /\ id_ex.rs1 \in Regs /\ id_ex.rs1_val \in Word
      /\ id_ex.rs2 \in Regs /\ id_ex.rs2_val \in Word
  BY DEF TypeOK, IdEx
<1>2. OperandsReachable /\ NoLoadUse
  BY DEF IInv
<1>3. rs1 = Committed[id_ex.rs1]
  BY <1>1, <1>2, ForwardingCorrect DEF OperandsReachable, NoLoadUse, rs1
<1>4. rs2 = Committed[id_ex.rs2]
  BY <1>1, <1>2, ForwardingCorrect DEF OperandsReachable, NoLoadUse, rs2
<1> QED BY <1>3, <1>4

\* The invariant holds initially: the pipeline is empty, the predictor cold.
LEMMA InitInv == Init => IInv
<1> SUFFICES ASSUME Init PROVE IInv
  OBVIOUS
<1>1. TypeOK
  BY InitType
<1>2. ZeroReg
  BY InputAssumption DEF Init, ZeroReg
<1>3. /\ ~if_id.valid /\ ~id_ex.valid /\ ~ex_mem.valid /\ ~mem_wb.valid
      /\ ~prev_mem_wb.valid
  BY DEF Init, IfIdBubble, IdExBubble, ExMemBubble, MemWbBubble
<1>4. BtbSound
  <2> SUFFICES ASSUME NEW a \in RamAddr PROVE ~BtbHit(btb, a)
    BY DEF BtbSound
  <2>1. btb_index(a) \in BtbIndex
    BY RamWords, IndexType
  <2> QED BY <2>1 DEF Init, BtbInit, NoEntry, BtbHit
<1> QED BY <1>2, <1>3, <1>4
        DEF IInv, StagesHoldProgram, DestinationsAreWritten, PathLinked,
            Halting, PredictionsHaveTargets, StagesAligned,
            OperandsReachable, NoLoadUse, ExecutedFromRegisters

\* A halting instruction in MEM/WB stops the machine on the next tick; any
\* other leaves it running.
LEMMA HaltStep ==
    ASSUME DetectHalt, ~halted
    PROVE  halted' <=> Halting
  BY DEF DetectHalt, halted, Halting

\* Waiting for memory preserves the invariant: what EX needs from the
\* forwarding window is captured before it drains.
LEMMA StallInv ==
    ASSUME TypeOK, IInv, ~halted, ~Halting, NEW i \in BOOLEAN, StallTick(i)
    PROVE  IInv'
<1>0. /\ ZeroReg /\ StagesHoldProgram /\ DestinationsAreWritten
      /\ PathLinked /\ PredictionsHaveTargets /\ BtbSound /\ StagesAligned
      /\ OperandsReachable /\ NoLoadUse /\ ExecutedFromRegisters
  BY DEF IInv
<1>1. /\ WriteBack /\ DetectHalt /\ accessing
      /\ id_ex' = CapturedOperands /\ mem_wb' = MemWbBubble
      /\ imem' = imem /\ pc' = pc /\ if_id' = if_id /\ ex_mem' = ex_mem
      /\ btb' = btb
  BY DEF StallTick
<1>2. rf' = AbsReg /\ prev_mem_wb' = mem_wb
  BY <1>1, RfCatchesUp DEF WriteBack
<1>3. ~mem_wb'.valid /\ ~Halting'
  BY <1>1 DEF MemWbBubble, Halting
<1>4. AbsReg' = AbsReg
  BY <1>2, <1>3 DEF AbsReg
<1>5. /\ id_ex'.valid = id_ex.valid /\ id_ex'.pc = id_ex.pc
      /\ id_ex'.op = id_ex.op /\ id_ex'.rd = id_ex.rd
      /\ id_ex'.rs1 = id_ex.rs1 /\ id_ex'.rs2 = id_ex.rs2
      /\ id_ex'.imm = id_ex.imm
      /\ id_ex'.predicted_taken = id_ex.predicted_taken
      /\ id_ex.valid => id_ex'.rs1_val = rs1 /\ id_ex'.rs2_val = rs2
  BY <1>1 DEF CapturedOperands, TypeOK, IdEx
<1>6. ZeroReg'
  BY <1>0, <1>2, AbsRegType DEF ZeroReg
<1>7. StagesHoldProgram'
  BY <1>0, <1>1, <1>5 DEF StagesHoldProgram, Insn
<1>8. DestinationsAreWritten'
  <2>1. mem_wb.rd \in Regs
    BY DEF TypeOK, MemWb
  <2>2. (mem_wb.valid /\ mem_wb.rd # 0) => has_writeback(mem_wb.op)
    BY <1>0 DEF DestinationsAreWritten, Halting, Halts
  <2>3. (mem_wb.valid /\ mem_wb.rd # 0) => AbsReg[mem_wb.rd] = mem_wb.wb_val
    BY <2>1, <2>2 DEF AbsReg, RfWrite, TypeOK
  <2> QED BY <1>2, <1>3, <2>3 DEF DestinationsAreWritten
<1>9. PathLinked'
  BY <1>0, <1>1, <1>3, <1>5
     DEF PathLinked, FrontPc, BehindEx, AfterFetch, AfterExMem, Insn
<1>10. PredictionsHaveTargets'
  BY <1>0, <1>1, <1>5 DEF PredictionsHaveTargets, Insn
<1>11. BtbSound'
  BY <1>0, <1>1 DEF BtbSound, BtbHit, Insn
<1>12. StagesAligned'
  BY <1>0, <1>1, <1>5 DEF StagesAligned
<1>13. OperandsReachable'
  <2> SUFFICES ASSUME id_ex.valid
               PROVE  id_ex'.rs1_val = rf'[id_ex.rs1] /\ id_ex'.rs2_val = rf'[id_ex.rs2]
    BY <1>5 DEF OperandsReachable
  <2>1. ~(ex_mem.valid /\ Halts(ex_mem.op))
    BY <1>1 DEF accessing, is_mem_op, Halts, Loads, Stores
  <2>2. rs1 = Committed[id_ex.rs1] /\ rs2 = Committed[id_ex.rs2]
    BY <2>1, OperandsCorrect
  <2>3. is_load(ex_mem.op) \/ is_store(ex_mem.op)
    BY <1>1 DEF accessing, is_mem_op, is_load, is_store
  <2>4. /\ id_ex.rs1 \in Regs /\ id_ex.rs2 \in Regs /\ ex_mem.rd \in Regs
    BY DEF TypeOK, IdEx, ExMem
  <2>5. \A r \in {id_ex.rs1, id_ex.rs2} : Committed[r] = AbsReg[r]
    <3>1. CASE is_store(ex_mem.op)
      <4>1. ~has_writeback(ex_mem.op)
        BY <3>1 DEF is_store, has_writeback
      <4> QED BY <4>1 DEF Committed
    <3>2. CASE is_load(ex_mem.op) /\ ex_mem.rd # 0
      <4>1. ex_mem.rd \notin {id_ex.rs1, id_ex.rs2}
        BY <1>0, <1>1, <3>2 DEF NoLoadUse, accessing
      <4>2. AbsReg \in [Regs -> Word]
        BY AbsRegType
      <4> QED BY <2>4, <4>1, <4>2 DEF Committed
    <3>3. CASE ex_mem.rd = 0
      BY <3>3 DEF Committed
    <3> QED BY <2>3, <3>1, <3>2, <3>3
  <2> QED BY <1>2, <1>5, <2>2, <2>5
<1>14. NoLoadUse'
  BY <1>0, <1>1, <1>5 DEF NoLoadUse
<1>15. ExecutedFromRegisters'
  BY <1>0, <1>1, <1>3, <1>4 DEF ExecutedFromRegisters, Insn, AluOut, Taken, Target
<1> QED BY <1>6, <1>7, <1>8, <1>9, <1>10, <1>11, <1>12, <1>13, <1>14, <1>15
        DEF IInv

\* When the pipeline moves, the architectural registers take the effect of
\* the instruction that leaves MEM.
LEMMA AdvanceReg ==
    ASSUME TypeOK, ~halted, ~Halting, NEW i \in BOOLEAN, AdvanceTick(i)
    PROVE  /\ rf' = AbsReg
           /\ ~halted'
           /\ ~Halting' => AbsReg' = Committed
           /\ Halting' <=> (ex_mem.valid /\ Halts(ex_mem.op))
<1>1. WriteBack /\ DetectHalt /\ mem_wb' = Accessed
  BY DEF AdvanceTick
<1>2. rf' = AbsReg /\ ~halted'
  BY <1>1, RfCatchesUp, HaltStep
<1>3. /\ mem_wb'.valid = ex_mem.valid
      /\ ex_mem.valid => /\ mem_wb'.op = ex_mem.op
                         /\ mem_wb'.rd = ex_mem.rd
                         /\ mem_wb'.wb_val = Accessed.wb_val
  <2>1. ex_mem.valid \in BOOLEAN
    BY DEF TypeOK, ExMem
  <2> QED BY <1>1, <2>1 DEF Accessed, MemWbBubble
<1>4. Halting' <=> (ex_mem.valid /\ Halts(ex_mem.op))
  BY <1>3 DEF Halting
<1>5. AbsReg' = Committed
  BY <1>2, <1>3 DEF AbsReg, Committed, RfWrite
<1> QED BY <1>2, <1>4, <1>5

\* What each latch holds after the pipeline has moved.
LEMMA AdvanceStages ==
    ASSUME TypeOK, NEW i \in BOOLEAN, AdvanceTick(i)
    PROVE  /\ ex_mem'.valid = id_ex.valid
           /\ id_ex.valid =>
                /\ ex_mem'.pc = id_ex.pc /\ ex_mem'.op = id_ex.op
                /\ ex_mem'.rd = id_ex.rd
                /\ ex_mem'.alu_out = AluOut(id_ex, id_ex.pc, rs1, rs2)
                /\ ex_mem'.rs2_val = rs2
                /\ ex_mem'.branch_taken = actual_taken
                /\ ex_mem'.branch_target = target
           /\ id_ex'.valid <=> (if_id.valid /\ ~redirect /\ ~load_use_stall)
           /\ id_ex'.valid =>
                /\ id_ex'.pc = if_id.pc
                /\ id_ex'.op  = decode(if_id.raw).op
                /\ id_ex'.rd  = decode(if_id.raw).rd
                /\ id_ex'.rs1 = decode(if_id.raw).rs1
                /\ id_ex'.rs2 = decode(if_id.raw).rs2
                /\ id_ex'.imm = decode(if_id.raw).imm
                /\ id_ex'.rs1_val = rf[id_ex'.rs1]
                /\ id_ex'.rs2_val = rf[id_ex'.rs2]
                /\ id_ex'.predicted_taken = if_id.predicted_taken
<1>1. ex_mem' = Executed
  BY DEF AdvanceTick
<1>2. id_ex' = IF redirect \/ load_use_stall THEN IdExBubble ELSE Decoded
  BY DEF AdvanceTick, DecodeLatch
<1>3. id_ex.valid \in BOOLEAN /\ if_id.valid \in BOOLEAN
  BY DEF TypeOK, IdEx, IfId
<1>4. ex_mem'.valid = id_ex.valid
  BY <1>1, <1>3 DEF Executed, ExMemBubble
<1>5. id_ex.valid =>
        /\ ex_mem'.pc = id_ex.pc /\ ex_mem'.op = id_ex.op
        /\ ex_mem'.rd = id_ex.rd
        /\ ex_mem'.alu_out = AluOut(id_ex, id_ex.pc, rs1, rs2)
        /\ ex_mem'.rs2_val = rs2
        /\ ex_mem'.branch_taken = actual_taken
        /\ ex_mem'.branch_target = target
  BY <1>1 DEF Executed
<1>6. id_ex'.valid <=> (if_id.valid /\ ~redirect /\ ~load_use_stall)
  BY <1>2 DEF Decoded, IdExBubble
<1>7. id_ex'.valid =>
        /\ id_ex'.pc = if_id.pc
        /\ id_ex'.op  = decode(if_id.raw).op
        /\ id_ex'.rd  = decode(if_id.raw).rd
        /\ id_ex'.rs1 = decode(if_id.raw).rs1
        /\ id_ex'.rs2 = decode(if_id.raw).rs2
        /\ id_ex'.imm = decode(if_id.raw).imm
        /\ id_ex'.rs1_val = rf[id_ex'.rs1]
        /\ id_ex'.rs2_val = rf[id_ex'.rs2]
        /\ id_ex'.predicted_taken = if_id.predicted_taken
  BY <1>2, <1>6 DEF Decoded, RfRead
<1> QED BY <1>4, <1>5, <1>6, <1>7

\* What fetch does when the pipeline moves.
LEMMA AdvanceFetch ==
    ASSUME TypeOK, NEW i \in BOOLEAN, AdvanceTick(i)
    PROVE  /\ redirect => ~if_id'.valid /\ pc' = redirect_target
           /\ (~redirect /\ load_use_stall) => if_id' = if_id /\ pc' = pc
           /\ (~redirect /\ ~load_use_stall) =>
                \/ /\ if_id' = Fetched /\ pc \in RamAddr
                   /\ pc' = PredictedPc(bht, btb, pc)
                \/ ~if_id'.valid /\ pc' = pc
  BY DEF AdvanceTick, FetchLatch, FetchFaults, IfIdBubble

\* A prediction at a word-aligned address of the program is about a branch
\* or a jump with a static target, and leads to that target.
LEMMA PredictionSound ==
    ASSUME TypeOK, BtbSound, Aligned, pc \in RamAddr
    PROVE  /\ PredictTaken(bht, btb, pc) => HasStaticTarget(Insn(pc).op)
           /\ PredictedPc(bht, btb, pc) =
                AfterFetch(pc, PredictTaken(bht, btb, pc))
<1>1. PredictTaken(bht, btb, pc) =>
        /\ HasStaticTarget(Insn(pc).op)
        /\ btb[btb_index(pc)].target = Plus(pc, Insn(pc).imm)
  BY DEF PredictTaken, Aligned, BtbSound
<1> QED BY <1>1 DEF PredictedPc, AfterFetch

\* When EX finds the prediction right, fetch is where control really goes.
LEMMA NoRedirect ==
    ASSUME TypeOK, IInv, ~halted, id_ex.valid, ~redirect
    PROVE  FrontPc = IF actual_taken THEN target ELSE Plus(id_ex.pc, 4)
<1>1. /\ FrontPc = AfterFetch(id_ex.pc, id_ex.predicted_taken)
      /\ id_ex.predicted_taken => HasStaticTarget(Insn(id_ex.pc).op)
      /\ id_ex.op = Insn(id_ex.pc).op /\ id_ex.imm = Insn(id_ex.pc).imm
  BY DEF IInv, PathLinked, PredictionsHaveTargets, StagesHoldProgram
<1>2. actual_taken = id_ex.predicted_taken
  BY DEF redirect
<1>3. CASE actual_taken
  <2>1. id_ex.op # "JALR"
    BY <1>1, <1>2, <1>3 DEF HasStaticTarget, Branches
  <2> QED BY <1>1, <1>2, <1>3, <2>1 DEF target, Target, AfterFetch
<1>4. CASE ~actual_taken
  BY <1>1, <1>2, <1>4 DEF AfterFetch
<1> QED BY <1>3, <1>4

\* Without a redirect the addresses behind EX move up one stage.
LEMMA FrontMoves ==
    ASSUME TypeOK, NEW i \in BOOLEAN, AdvanceTick(i), ~redirect
    PROVE  /\ ~load_use_stall => FrontPc' = pc
           /\ BehindEx' = FrontPc
<1>1. ~load_use_stall => FrontPc' = pc
  BY AdvanceFetch DEF FrontPc, Fetched
<1>2. CASE load_use_stall
  BY <1>2, AdvanceFetch, AdvanceStages DEF BehindEx, FrontPc
<1>3. CASE ~load_use_stall
  BY <1>1, <1>3, AdvanceStages DEF BehindEx, FrontPc
<1> QED BY <1>1, <1>2, <1>3

\* The links of the path survive a tick that moves the pipeline.
LEMMA AdvancePath ==
    ASSUME TypeOK, IInv, Aligned, ~halted, ~Halting,
           NEW i \in BOOLEAN, AdvanceTick(i)
    PROVE  PathLinked'
<1>0. /\ PathLinked /\ BtbSound /\ StagesHoldProgram /\ ExecutedFromRegisters
  BY DEF IInv
<1>1. imem' = imem
  BY DEF AdvanceTick
<1>2. \A a, p : AfterFetch(a, p)' = AfterFetch(a, p)
  BY <1>1 DEF AfterFetch, Insn
<1>3. if_id'.valid => pc' = AfterFetch(if_id'.pc, if_id'.predicted_taken)
  <2>1. CASE redirect
    BY <2>1, AdvanceFetch
  <2>2. CASE ~redirect /\ load_use_stall
    BY <1>0, <2>2, AdvanceFetch DEF PathLinked
  <2>3. CASE ~redirect /\ ~load_use_stall
    BY <1>0, <2>3, AdvanceFetch, PredictionSound DEF Fetched
  <2> QED BY <2>1, <2>2, <2>3
<1>5. id_ex'.valid => FrontPc' = AfterFetch(id_ex'.pc, id_ex'.predicted_taken)
  BY <1>0, FrontMoves, AdvanceStages DEF PathLinked
<1>7. ex_mem'.valid => BehindEx' = AfterExMem'
  <2> SUFFICES ASSUME id_ex.valid
               PROVE  BehindEx' = IF actual_taken THEN target
                                                  ELSE Plus(id_ex.pc, 4)
    BY AdvanceStages DEF AfterExMem
  <2>1. CASE redirect
    BY <2>1, AdvanceFetch, AdvanceStages DEF BehindEx, FrontPc, redirect_target
  <2>2. CASE ~redirect
    BY <2>2, FrontMoves, NoRedirect
  <2> QED BY <2>1, <2>2
<1>8. (Halting' /\ ex_mem'.valid) => ex_mem'.pc = Plus(mem_wb'.pc, 4)
  <2> SUFFICES ASSUME ex_mem.valid, Halts(ex_mem.op), id_ex.valid
               PROVE  id_ex.pc = Plus(ex_mem.pc, 4)
    <3>1. mem_wb' = Accessed
      BY DEF AdvanceTick
    <3> QED BY <3>1, AdvanceReg, AdvanceStages DEF Accessed
  <2>1. id_ex.pc = AfterExMem
    BY <1>0 DEF PathLinked, BehindEx
  <2> DEFINE d == Insn(ex_mem.pc)
  <2> DEFINE a == AbsReg[d.rs1]
  <2> DEFINE b == AbsReg[d.rs2]
  <2>2. /\ imem[ex_mem.pc] \in Raw /\ d.op = ex_mem.op /\ d.op \in Op
        /\ d.rs1 \in Regs /\ d.rs2 \in Regs
    BY <1>0, DecodeType DEF StagesHoldProgram, Insn, TypeOK
  <2>3. a \in Word /\ b \in Word
    BY <2>2, AbsRegType
  <2>4. ex_mem.branch_taken = Taken(d, a, b)
    BY <1>0 DEF ExecutedFromRegisters
  <2> HIDE DEF d, a, b
  <2>5. d.op \in Op \ Branches /\ d.op \notin Jumps
    BY <2>2 DEF Halts, Branches, Jumps
  <2>6. ~ex_mem.branch_taken
    BY <2>3, <2>4, <2>5, BranchAssumption DEF Taken
  <2> QED BY <2>1, <2>6 DEF AfterExMem
<1> QED BY <1>2, <1>3, <1>5, <1>7, <1>8 DEF PathLinked

\* Training keeps the branch target buffer sound.
LEMMA AdvanceBtb ==
    ASSUME TypeOK, IInv, ~halted, NEW i \in BOOLEAN, AdvanceTick(i)
    PROVE  BtbSound'
<1>0. BtbSound /\ StagesHoldProgram /\ StagesAligned
  BY DEF IInv
<1>1. imem' = imem /\ Train
  BY DEF AdvanceTick
<1>2. CASE ~train
  BY <1>0, <1>1, <1>2 DEF BtbSound, BtbHit, Insn, Train
<1>3. CASE train
  <2> SUFFICES ASSUME NEW a \in RamAddr, BpredEnabled, a % 4 = 0,
                      BtbHit(btb', a)
               PROVE  /\ HasStaticTarget(Insn(a).op)
                      /\ btb'[btb_index(a)].target = Plus(a, Insn(a).imm)
    BY <1>1 DEF BtbSound, BtbHit, Insn
  <2>1. /\ id_ex.valid /\ HasStaticTarget(id_ex.op)
        /\ id_ex.pc \in RamAddr /\ id_ex.pc % 4 = 0
        /\ id_ex.op = Insn(id_ex.pc).op /\ id_ex.imm = Insn(id_ex.pc).imm
    BY <1>0, <1>3 DEF train, is_cond_branch, HasStaticTarget,
          StagesHoldProgram, StagesAligned
  <2>2. /\ a \in Word /\ id_ex.pc \in Word
        /\ btb_index(a) \in BtbIndex /\ btb_index(id_ex.pc) \in BtbIndex
    BY <2>1, RamWords, IndexType
  <2>3. btb' = UpdateBtb(btb, id_ex.pc, is_cond_branch(id_ex.op), target)
    BY <1>1, <1>3 DEF Train
  <2>4. CASE btb_index(a) = btb_index(id_ex.pc)
    <3>1. /\ btb'[btb_index(a)].tag = btb_tag(id_ex.pc)
          /\ btb'[btb_index(a)].target = target
      BY <2>2, <2>3, <2>4 DEF UpdateBtb, TypeOK
    <3>2. a = id_ex.pc
      BY <2>1, <2>2, <2>4, <3>1, IndexTagInjective DEF BtbHit
    <3>3. target = Plus(id_ex.pc, id_ex.imm)
      BY <2>1 DEF target, Target, HasStaticTarget, Branches
    <3> QED BY <2>1, <3>1, <3>2, <3>3
  <2>5. CASE btb_index(a) # btb_index(id_ex.pc)
    <3>1. btb'[btb_index(a)] = btb[btb_index(a)]
      BY <2>2, <2>3, <2>5 DEF UpdateBtb, TypeOK
    <3> QED BY <1>0, <3>1 DEF BtbSound, BtbHit
  <2> QED BY <2>4, <2>5
<1> QED BY <1>2, <1>3

\* Moving the pipeline preserves the invariant.
LEMMA AdvanceInv ==
    ASSUME TypeOK, IInv, Aligned, ~halted, ~Halting,
           NEW i \in BOOLEAN, AdvanceTick(i)
    PROVE  IInv'
<1>0. /\ ZeroReg /\ StagesHoldProgram /\ DestinationsAreWritten
      /\ PathLinked /\ PredictionsHaveTargets /\ BtbSound /\ StagesAligned
      /\ OperandsReachable /\ NoLoadUse /\ ExecutedFromRegisters
  BY DEF IInv
<1>1. /\ imem' = imem /\ prev_mem_wb' = mem_wb /\ mem_wb' = Accessed
      /\ rf' = AbsReg
  BY AdvanceReg DEF AdvanceTick, WriteBack
<1>2. ZeroReg'
  BY <1>0, <1>1, AbsRegType DEF ZeroReg
<1>3. StagesHoldProgram'
  <2>1. if_id'.valid => if_id'.pc \in RamAddr /\ if_id'.raw = imem[if_id'.pc]
    <3>1. CASE ~redirect /\ ~load_use_stall
      BY <3>1, AdvanceFetch DEF Fetched
    <3>2. CASE redirect \/ load_use_stall
      BY <1>0, <3>2, AdvanceFetch DEF StagesHoldProgram
    <3> QED BY <3>1, <3>2
  <2>2. id_ex'.valid =>
          /\ id_ex'.pc \in RamAddr
          /\ id_ex'.op  = Insn(id_ex'.pc).op /\ id_ex'.rd  = Insn(id_ex'.pc).rd
          /\ id_ex'.rs1 = Insn(id_ex'.pc).rs1 /\ id_ex'.rs2 = Insn(id_ex'.pc).rs2
          /\ id_ex'.imm = Insn(id_ex'.pc).imm
    BY <1>0, AdvanceStages DEF StagesHoldProgram, Insn
  <2>3. ex_mem'.valid =>
          /\ ex_mem'.pc \in RamAddr
          /\ ex_mem'.op = Insn(ex_mem'.pc).op /\ ex_mem'.rd = Insn(ex_mem'.pc).rd
    BY <1>0, AdvanceStages DEF StagesHoldProgram
  <2> QED BY <1>1, <2>1, <2>2, <2>3 DEF StagesHoldProgram, Insn
<1>4. DestinationsAreWritten'
  <2>1. mem_wb.rd \in Regs
    BY DEF TypeOK, MemWb
  <2>2. (mem_wb.valid /\ mem_wb.rd # 0) => has_writeback(mem_wb.op)
    BY <1>0 DEF DestinationsAreWritten, Halting, Halts
  <2>3. (mem_wb.valid /\ mem_wb.rd # 0) => AbsReg[mem_wb.rd] = mem_wb.wb_val
    BY <2>1, <2>2 DEF AbsReg, RfWrite, TypeOK
  <2>4. (mem_wb'.valid /\ mem_wb'.rd # 0) =>
          has_writeback(mem_wb'.op) \/ mem_wb'.op = "ILLEGAL"
    BY <1>1, DestinationFacts DEF Accessed, MemWbBubble
  <2> QED BY <1>1, <2>3, <2>4 DEF DestinationsAreWritten
<1>5. PathLinked'
  BY AdvancePath
<1>6. PredictionsHaveTargets'
  <2>1. (if_id'.valid /\ if_id'.predicted_taken) =>
           HasStaticTarget(Insn(if_id'.pc).op)
    <3>1. CASE ~redirect /\ ~load_use_stall
      BY <1>0, <3>1, AdvanceFetch, PredictionSound DEF Fetched
    <3>2. CASE redirect \/ load_use_stall
      BY <1>0, <3>2, AdvanceFetch DEF PredictionsHaveTargets
    <3> QED BY <3>1, <3>2
  <2>2. (id_ex'.valid /\ id_ex'.predicted_taken) =>
           HasStaticTarget(Insn(id_ex'.pc).op)
    BY <1>0, AdvanceStages DEF PredictionsHaveTargets
  <2> QED BY <1>1, <2>1, <2>2 DEF PredictionsHaveTargets, Insn
<1>7. BtbSound'
  BY AdvanceBtb
<1>8. StagesAligned'
  <2>1. BpredEnabled /\ if_id'.valid => if_id'.pc % 4 = 0
    <3>1. CASE ~redirect /\ ~load_use_stall
      BY <3>1, AdvanceFetch DEF Fetched, Aligned
    <3>2. CASE redirect \/ load_use_stall
      BY <1>0, <3>2, AdvanceFetch DEF StagesAligned
    <3> QED BY <3>1, <3>2
  <2>2. BpredEnabled /\ id_ex'.valid => id_ex'.pc % 4 = 0
    BY <1>0, AdvanceStages DEF StagesAligned
  <2> QED BY <2>1, <2>2 DEF StagesAligned
<1>9. OperandsReachable'
  <2> SUFFICES ASSUME id_ex'.valid, NEW r \in Regs, r # 0
               PROVE  rf'[r] = rf[r] \/ (mem_wb.valid /\ mem_wb.rd = r)
    <3>1. id_ex'.rs1 \in Regs /\ id_ex'.rs2 \in Regs
      BY NextType DEF Next, Tick, TypeOK, IdEx
    <3> QED BY <1>1, <3>1, AdvanceStages DEF OperandsReachable
  <2> QED BY <1>1 DEF AbsReg, RfWrite, TypeOK
<1>10. NoLoadUse'
  <2> SUFFICES ASSUME id_ex'.valid, id_ex.valid, is_load(id_ex.op), id_ex.rd # 0
               PROVE  id_ex.rd \notin {id_ex'.rs1, id_ex'.rs2}
    BY AdvanceStages DEF NoLoadUse
  <2>1. id_ex.rd \notin {if_id.raw.rs1, if_id.raw.rs2}
    BY AdvanceStages DEF load_use_stall
  <2>2. id_ex'.rs1 \in {0, if_id.raw.rs1} /\ id_ex'.rs2 \in {0, if_id.raw.rs2}
    BY AdvanceStages DEF decode
  <2> QED BY <2>1, <2>2
<1>11. ExecutedFromRegisters'
  <2> SUFFICES ASSUME id_ex.valid, ~Halting'
               PROVE  LET d == Insn(id_ex.pc)
                          a == Committed[d.rs1]
                          b == Committed[d.rs2]
                      IN  /\ ex_mem'.alu_out = AluOut(d, id_ex.pc, a, b)
                          /\ ex_mem'.rs2_val = b
                          /\ ex_mem'.branch_taken = Taken(d, a, b)
                          /\ ex_mem'.branch_target = Target(d, id_ex.pc, a)
    BY <1>1, AdvanceReg, AdvanceStages
       DEF ExecutedFromRegisters, Insn, AluOut, Taken, Target
  <2>1. rs1 = Committed[id_ex.rs1] /\ rs2 = Committed[id_ex.rs2]
    BY AdvanceReg, OperandsCorrect
  <2>2. /\ id_ex.op = Insn(id_ex.pc).op /\ id_ex.imm = Insn(id_ex.pc).imm
        /\ id_ex.rs1 = Insn(id_ex.pc).rs1 /\ id_ex.rs2 = Insn(id_ex.pc).rs2
    BY <1>0 DEF StagesHoldProgram
  <2> QED BY <2>1, <2>2, AdvanceStages
          DEF AluOut, Taken, Target, actual_taken, target
<1> QED BY <1>2, <1>3, <1>4, <1>5, <1>6, <1>7, <1>8, <1>9, <1>10, <1>11
        DEF IInv

\* Every step preserves the invariant while fetch is word-aligned.
LEMMA NextInv == TypeOK /\ Aligned /\ IInv /\ [Next]_vars => IInv'
<1> SUFFICES ASSUME TypeOK, Aligned, IInv, [Next]_vars PROVE IInv'
  OBVIOUS
<1>1. ASSUME NEW i \in BOOLEAN, StallTick(i) \/ AdvanceTick(i) PROVE IInv'
  <2>1. ~halted /\ DetectHalt
    BY <1>1 DEF StallTick, AdvanceTick, Running
  <2>2. CASE Halting
    BY <2>1, <2>2, HaltStep DEF IInv
  <2>3. CASE ~Halting
    BY <1>1, <2>1, <2>3, StallInv, AdvanceInv
  <2> QED BY <2>2, <2>3
<1>2. ASSUME UNCHANGED <<imem, rf, pc, pipe, btb, halt_reason>> PROVE IInv'
  <2>1. /\ imem' = imem /\ rf' = rf /\ pc' = pc /\ if_id' = if_id
        /\ id_ex' = id_ex /\ ex_mem' = ex_mem /\ mem_wb' = mem_wb
        /\ prev_mem_wb' = prev_mem_wb /\ btb' = btb
        /\ halt_reason' = halt_reason
    BY <1>2 DEF pipe
  <2>2. AbsReg' = AbsReg /\ (halted' <=> halted) /\ (Halting' <=> Halting)
    BY <2>1 DEF AbsReg, halted, Halting, RfWrite
  <2>3. ZeroReg => ZeroReg'
    BY <2>1 DEF ZeroReg
  <2>4. StagesHoldProgram => StagesHoldProgram'
    BY <2>1 DEF StagesHoldProgram, Insn
  <2>5. DestinationsAreWritten => DestinationsAreWritten'
    BY <2>1 DEF DestinationsAreWritten
  <2>6. PathLinked => PathLinked'
    BY <2>1, <2>2 DEF PathLinked, FrontPc, BehindEx, AfterFetch, AfterExMem, Insn
  <2>7. PredictionsHaveTargets => PredictionsHaveTargets'
    BY <2>1 DEF PredictionsHaveTargets, Insn
  <2>8. BtbSound => BtbSound'
    BY <2>1 DEF BtbSound, BtbHit, Insn
  <2>9. StagesAligned => StagesAligned'
    BY <2>1 DEF StagesAligned
  <2>10. OperandsReachable => OperandsReachable'
    BY <2>1 DEF OperandsReachable
  <2>11. NoLoadUse => NoLoadUse'
    BY <2>1 DEF NoLoadUse
  <2>12. ExecutedFromRegisters => ExecutedFromRegisters'
    BY <2>1, <2>2 DEF ExecutedFromRegisters, Insn, AluOut, Taken, Target
  <2> QED BY <2>2, <2>3, <2>4, <2>5, <2>6, <2>7, <2>8, <2>9, <2>10, <2>11,
             <2>12 DEF IInv
<1>3. ASSUME NEW i \in BOOLEAN, AbortTick(i) PROVE IInv'
  BY <1>2, <1>3 DEF AbortTick
<1>4. CASE UNCHANGED vars
  BY <1>2, <1>4 DEF vars
<1> QED BY <1>1, <1>3, <1>4 DEF Next, Tick, HaltedTick

\* While instructions are fetched from word-aligned addresses (or without a
\* predictor, whatever the addresses), the pipeline holds consecutive
\* instructions of the program and works on their architectural operands.
THEOREM InvariantCorrect == Spec /\ []Aligned => []IInv
  BY TypeCorrect, InitInv, NextInv, PTL DEF Spec

-----------------------------------------------------------------------------
(***************************************************************************)
(* The pipeline implements the sequential machine.                         *)
(***************************************************************************)

\* The sequential machine is built from the same words, memories and
\* instruction classes.
LEMMA SameSets ==
    /\ Sequential!HalfValues = HalfValues
    /\ Sequential!WordValues = WordValues
    /\ Sequential!Loads = Loads /\ Sequential!Stores = Stores
    /\ Sequential!Branches = Branches /\ Sequential!Jumps = Jumps
    /\ Sequential!Upper = Upper /\ Sequential!ImmOps = ImmOps
    /\ Sequential!RegOps = RegOps /\ Sequential!System = System
    /\ Sequential!RamAddr = RamAddr /\ Sequential!RamBytes = RamBytes
    /\ Sequential!Mem = Mem
<1>1. /\ Sequential!HalfValues = HalfValues
      /\ Sequential!WordValues = WordValues
  BY DEF HalfValues, Sequential!HalfValues, WordValues, Sequential!WordValues
<1>2. /\ Sequential!Loads = Loads /\ Sequential!Stores = Stores
      /\ Sequential!Branches = Branches /\ Sequential!Jumps = Jumps
      /\ Sequential!Upper = Upper /\ Sequential!ImmOps = ImmOps
      /\ Sequential!RegOps = RegOps /\ Sequential!System = System
  BY DEF Loads, Sequential!Loads, Stores, Sequential!Stores, Branches,
         Sequential!Branches, Jumps, Sequential!Jumps, Upper, Sequential!Upper,
         ImmOps, Sequential!ImmOps, RegOps, Sequential!RegOps, System,
         Sequential!System
<1>3. /\ Sequential!RamAddr = RamAddr /\ Sequential!RamBytes = RamBytes
      /\ Sequential!Mem = Mem
  BY DEF RamAddr, Sequential!RamAddr, RamBytes, Sequential!RamBytes, Mem,
         Sequential!Mem, Byte, Sequential!Byte
<1> QED BY <1>1, <1>2, <1>3

\* Word arithmetic, words and decoding, seen through the instance.
LEMMA SameWords ==
    /\ \A a, b : Sequential!Plus(a, b) = Plus(a, b)
    /\ \A a : Sequential!ClearBit0(a) = ClearBit0(a)
    /\ \A op : Sequential!alu_op_for(op) = alu_op_for(op)
    /\ \A raw : Sequential!decode(raw) = decode(raw)
<1>1. \A a, b : Sequential!Plus(a, b) = Plus(a, b)
  BY SameSets DEF Plus, Sequential!Plus
<1>2. \A a : Sequential!ClearBit0(a) = ClearBit0(a)
  BY DEF ClearBit0, Sequential!ClearBit0
<1>3. \A op : Sequential!alu_op_for(op) = alu_op_for(op)
  BY DEF alu_op_for, Sequential!alu_op_for
<1>4. \A raw : Sequential!decode(raw) = decode(raw)
  BY SameSets DEF decode, Sequential!decode
<1> QED BY <1>1, <1>2, <1>3, <1>4

\* The classes of operations, seen through the instance.
LEMMA SameClasses ==
    \A op : /\ Sequential!is_mem_op(op) <=> is_mem_op(op)
            /\ Sequential!is_store(op) <=> is_store(op)
            /\ Sequential!has_writeback(op) <=> has_writeback(op)
            /\ Sequential!Halts(op) <=> Halts(op)
  BY SameSets DEF is_mem_op, Sequential!is_mem_op, is_store,
       Sequential!is_store, has_writeback, Sequential!has_writeback, Halts,
       Sequential!Halts

\* Loads and stores, seen through the instance.
LEMMA SameMemory ==
    /\ \A op, m, a :
         op \in Loads => Sequential!LoadValue(op, m, a) = LoadValue(op, m, a)
    /\ \A op, m, a, v :
         Sequential!StoreResult(op, m, a, v) = StoreResult(op, m, a, v)
<1>1. \A m, a : /\ Sequential!load_byte(m, a) = load_byte(m, a)
                /\ Sequential!load_half(m, a) = load_half(m, a)
  BY SameSets DEF load_byte, Sequential!load_byte, load_half,
       Sequential!load_half
<1>2. \A m, a : Sequential!load_word(m, a) = load_word(m, a)
  BY <1>1, SameSets DEF load_word, Sequential!load_word
<1>3. \A v, n : /\ Sequential!SignExtend(v, n) = SignExtend(v, n)
                /\ Sequential!ZeroExtend(v) = ZeroExtend(v)
  BY SameSets DEF SignExtend, Sequential!SignExtend, ZeroExtend,
       Sequential!ZeroExtend
<1>4. \A op, m, a :
        op \in Loads => Sequential!LoadValue(op, m, a) = LoadValue(op, m, a)
  BY <1>1, <1>2, <1>3, SameSets DEF LoadValue, Sequential!LoadValue, Loads
<1>5. \A m, a, v : /\ Sequential!store_byte(m, a, v) = store_byte(m, a, v)
                   /\ Sequential!store_half(m, a, v) = store_half(m, a, v)
  BY DEF store_byte, Sequential!store_byte, store_half, Sequential!store_half
<1>6. \A m, a, v : Sequential!store_word(m, a, v) = store_word(m, a, v)
  BY <1>5, SameSets DEF store_word, Sequential!store_word
<1>7. \A op, v : Sequential!StoreValue(op, v) = StoreValue(op, v)
  BY SameSets DEF StoreValue, Sequential!StoreValue
<1>8. \A op, m, a, v :
        Sequential!StoreResult(op, m, a, v) = StoreResult(op, m, a, v)
  BY <1>5, <1>6, <1>7 DEF StoreResult, Sequential!StoreResult
<1> QED BY <1>4, <1>8

\* A store changes at most the four bytes from its address on.
LEMMA StoreFrame ==
    ASSUME NEW op \in Stores, NEW m \in Mem, NEW a \in RamAddr, NEW v \in Word
    PROVE  Sequential!DifferByOneAccess(m, StoreResult(op, m, a, v))
<1> DEFINE n == StoreResult(op, m, a, v)
<1>1. \A x, b : b \in RamBytes /\ b # a => store_byte(m, a, x)[b] = m[b]
  BY DEF store_byte, Mem
<1>2. a \in Int
  BY Zero
<1>3. \A k \in Mem, c \in Int : \A x, b :
        (b \in RamBytes /\ b # c /\ b # c + 1) => store_half(k, c, x)[b] = k[b]
  BY DEF store_half, Mem
<1>4. \A x \in Int : store_half(m, a, x) \in Mem
  <2>1. \A x \in Int :
          x % ByteValues \in Byte /\ (x \div ByteValues) % ByteValues \in Byte
    <3>1. \A x \in Int : x \div ByteValues \in Int
      BY Sizes
    <3> QED BY <3>1, Reduced
  <2> QED BY <2>1 DEF store_half, Mem
<1>5. \A x \in Int : \A b :
        (b \in RamBytes /\ b # a /\ b # a + 1 /\ b # a + 2 /\ b # a + 2 + 1) =>
           store_word(m, a, x)[b] = m[b]
  <2>1. \A x \in Int : x % HalfValues \in Int
    BY Sizes
  <2>2. a + 2 \in Int
    BY <1>2
  <2> QED BY <1>2, <1>3, <1>4, <2>1, <2>2 DEF store_word
<1>6. StoreValue(op, v) \in Int
  BY StoreType, Sizes DEF Word
<1>7. \A b \in RamBytes : b \notin a .. (a + 3) =>
         b # a /\ b # a + 1 /\ b # a + 2 /\ b # a + 2 + 1
  BY <1>2
<1>8. \A b \in RamBytes : b \notin a .. (a + 3) => m[b] = n[b]
  BY <1>1, <1>2, <1>3, <1>5, <1>6, <1>7 DEF StoreResult, Stores
<1> QED BY <1>8, SameSets DEF Sequential!DifferByOneAccess

\* What EX computes is what the instruction means.
LEMMA DatapathCorrect ==
    ASSUME NEW i, i.op \in Op, i.imm \in Word,
           NEW at \in Word, NEW a \in Word, NEW b \in Word, NEW m
    PROVE  /\ is_mem_op(i.op) => AluOut(i, at, a, b) = Sequential!Address(i, a)
           /\ is_load(i.op) =>
                LoadValue(i.op, m, AluOut(i, at, a, b)) =
                  Sequential!Result(i, at, a, b, m)
           /\ (has_writeback(i.op) /\ ~is_load(i.op)) =>
                AluOut(i, at, a, b) = Sequential!Result(i, at, a, b, m)
           /\ (IF Taken(i, a, b) THEN Target(i, at, a) ELSE Plus(at, 4)) =
                Sequential!NextPc(i, at, a, b)
<1>1. is_mem_op(i.op) => AluOut(i, at, a, b) = Plus(a, i.imm)
  <2> SUFFICES ASSUME is_mem_op(i.op) PROVE AluOut(i, at, a, b) = Plus(a, i.imm)
    OBVIOUS
  <2>1. alu_op_for(i.op) = "ADD"
    BY DEF is_mem_op, alu_op_for, Loads, Stores
  <2>2. i.op \notin Jumps /\ i.op # "AUIPC" /\ uses_imm(i.op)
    BY DEF is_mem_op, Loads, Stores, Jumps, uses_imm, RegOps
  <2> QED BY <2>1, <2>2, AluAssumption DEF AluOut
<1>2. is_mem_op(i.op) => AluOut(i, at, a, b) = Sequential!Address(i, a)
  BY <1>1, SameWords DEF Sequential!Address
<1>3. is_load(i.op) =>
        LoadValue(i.op, m, AluOut(i, at, a, b)) =
          Sequential!Result(i, at, a, b, m)
  <2> SUFFICES ASSUME is_load(i.op)
               PROVE  LoadValue(i.op, m, AluOut(i, at, a, b)) =
                        Sequential!Result(i, at, a, b, m)
    OBVIOUS
  <2>1. i.op \in Loads /\ is_mem_op(i.op)
    BY DEF is_load, is_mem_op
  <2>2. Sequential!Result(i, at, a, b, m) =
          LoadValue(i.op, m, Sequential!Address(i, a))
    BY <2>1, SameSets, SameMemory DEF Sequential!Result, Loads, Jumps, RegOps, ImmOps
  <2> QED BY <1>2, <2>1, <2>2
<1>4. (has_writeback(i.op) /\ ~is_load(i.op)) =>
         AluOut(i, at, a, b) = Sequential!Result(i, at, a, b, m)
  <2> SUFFICES ASSUME has_writeback(i.op), ~is_load(i.op)
               PROVE  AluOut(i, at, a, b) = Sequential!Result(i, at, a, b, m)
    OBVIOUS
  <2>1. i.op \in Upper \cup Jumps \cup ImmOps \cup RegOps
    BY DEF has_writeback, is_load, Op
  <2>2. CASE i.op = "LUI"
    <3>1. alu_op_for(i.op) = "PASS_B" /\ i.op \notin Jumps /\ uses_imm(i.op)
      BY <2>2 DEF alu_op_for, Jumps, uses_imm, RegOps
    <3> QED BY <2>2, <3>1, AluAssumption, SameSets, SameWords
            DEF AluOut, Sequential!Result, Jumps, RegOps, ImmOps, Loads
  <2>3. CASE i.op = "AUIPC"
    <3>1. alu_op_for(i.op) = "ADD" /\ i.op \notin Jumps /\ uses_imm(i.op)
      BY <2>3 DEF alu_op_for, Jumps, uses_imm, RegOps
    <3> QED BY <2>3, <3>1, AluAssumption, SameSets, SameWords
            DEF AluOut, Sequential!Result, Jumps, RegOps, ImmOps, Loads
  <2>4. CASE i.op \in Jumps
    BY <2>4, SameSets, SameWords 
       DEF AluOut, Sequential!Result, Jumps, RegOps, ImmOps, Loads
  <2>5. CASE i.op \in RegOps
    <3>1. i.op \notin Jumps /\ i.op # "AUIPC" /\ i.op # "LUI" /\ ~uses_imm(i.op)
      BY <2>5 DEF Jumps, uses_imm, RegOps
    <3> QED BY <2>5, <3>1, SameSets, SameWords
            DEF AluOut, Sequential!Result, Jumps, RegOps, ImmOps, Loads
  <2>6. CASE i.op \in ImmOps
    <3>1. /\ i.op \notin Jumps /\ i.op # "AUIPC" /\ i.op # "LUI"
          /\ uses_imm(i.op) /\ i.op \notin RegOps
      BY <2>6 DEF Jumps, uses_imm, RegOps, ImmOps
    <3> QED BY <2>6, <3>1, SameSets, SameWords
            DEF AluOut, Sequential!Result, Jumps, RegOps, ImmOps, Loads
  <2> QED BY <2>1, <2>2, <2>3, <2>4, <2>5, <2>6 DEF Upper
<1>5. (IF Taken(i, a, b) THEN Target(i, at, a) ELSE Plus(at, 4)) =
         Sequential!NextPc(i, at, a, b)
  <2>1. CASE i.op = "JAL"
    BY <2>1, SameSets, SameWords 
       DEF Taken, Target, Jumps, Branches, Sequential!NextPc
  <2>2. CASE i.op = "JALR"
    BY <2>2, SameSets, SameWords 
       DEF Taken, Target, Jumps, Branches, Sequential!NextPc
  <2>3. CASE i.op \in Branches
    BY <2>3, SameSets, SameWords DEF Taken, Target, Jumps, Branches, Sequential!NextPc
  <2>4. CASE i.op \notin Branches \cup Jumps
    <3>1. ~Taken(i, a, b)
      BY <2>4, BranchAssumption DEF Taken
    <3> QED BY <2>4, <3>1, SameSets, SameWords DEF Jumps, Sequential!NextPc
  <2> QED BY <2>1, <2>2, <2>3, <2>4 DEF Jumps
<1> QED BY <1>2, <1>3, <1>4, <1>5

\* An empty pipeline over loaded memories is the initial sequential machine.
LEMMA InitRefines == Init => Sequential!Init
<1> SUFFICES ASSUME Init PROVE Sequential!Init
  OBVIOUS
<1>1. /\ ~if_id.valid /\ ~id_ex.valid /\ ~ex_mem.valid /\ ~mem_wb.valid
      /\ ~halted /\ ~Halting
  BY DEF Init, IfIdBubble, IdExBubble, ExMemBubble, MemWbBubble, halted, Halting
<1>2. AbsReg = rf /\ AbsPc = pc /\ AbsStatus = "running"
  BY <1>1 DEF AbsReg, AbsPc, AbsStatus
<1> QED BY <1>2 DEF Init, Sequential!Init

\* The program counter of the sequential machine goes where the instruction
\* that leaves MEM sends it, and stays when none does.
LEMMA AbsPcMoves ==
    ASSUME TypeOK, IInv, ~halted, ~Halting, NEW i \in BOOLEAN, AdvanceTick(i)
    PROVE  ~Halting' => AbsPc' = IF ex_mem.valid THEN AfterExMem ELSE AbsPc
<1> SUFFICES ASSUME ~Halting'
             PROVE  AbsPc' = IF ex_mem.valid THEN AfterExMem ELSE AbsPc
  OBVIOUS
<1>1. ~halted'
  BY AdvanceReg
<1>2. AbsPc' = BehindEx
  <2>1. CASE id_ex.valid
    BY <1>1, <2>1, AdvanceStages DEF AbsPc, BehindEx
  <2>2. CASE ~id_ex.valid
    <3>1. ~redirect /\ ~ex_mem'.valid
      BY <2>2, AdvanceStages DEF redirect
    <3>2. AbsPc' = BehindEx'
      BY <1>1, <3>1 DEF AbsPc, BehindEx, FrontPc
    <3> QED BY <2>2, <3>1, <3>2, FrontMoves DEF BehindEx
  <2> QED BY <2>1, <2>2
<1>3. ex_mem.valid => BehindEx = AfterExMem
  BY DEF IInv, PathLinked
<1>4. ~ex_mem.valid => AbsPc = BehindEx
  BY DEF AbsPc, BehindEx, FrontPc
<1> QED BY <1>2, <1>3, <1>4

\* While MEM waits the sequential machine does nothing.
LEMMA StallRefines ==
    ASSUME TypeOK, IInv, ~halted, ~Halting, NEW i \in BOOLEAN, StallTick(i)
    PROVE  UNCHANGED Sequential!vars
<1>1. /\ WriteBack /\ DetectHalt /\ accessing
      /\ id_ex' = CapturedOperands /\ mem_wb' = MemWbBubble
      /\ imem' = imem /\ pc' = pc /\ if_id' = if_id /\ ex_mem' = ex_mem
      /\ dmem' = dmem
  BY DEF StallTick
<1>2. ~halted' /\ ~Halting' /\ ~mem_wb'.valid
  BY <1>1, HaltStep DEF MemWbBubble, Halting
<1>3. AbsReg' = AbsReg
  BY <1>1, <1>2, RfCatchesUp DEF AbsReg
<1>4. AbsPc' = AbsPc
  BY <1>1, <1>2 DEF AbsPc, accessing
<1>5. AbsStatus' = AbsStatus
  BY <1>2 DEF AbsStatus
<1> QED BY <1>1, <1>3, <1>4, <1>5 DEF Sequential!vars

\* An instruction that leaves MEM takes effect in the sequential machine.
LEMMA CommitRefines ==
    ASSUME TypeOK, IInv, ~halted, ~Halting, NEW i \in BOOLEAN, AdvanceTick(i),
           ex_mem.valid, ~Halts(ex_mem.op)
    PROVE  Sequential!Step
<1> DEFINE d == decode(imem[ex_mem.pc])
<1> DEFINE a == AbsReg[d.rs1]
<1> DEFINE b == AbsReg[d.rs2]
<1>1. /\ ex_mem.pc \in RamAddr /\ ex_mem.op = d.op /\ ex_mem.rd = d.rd
      /\ imem[ex_mem.pc] \in Raw /\ ex_mem.pc \in Word
  BY RamWords DEF IInv, StagesHoldProgram, Insn, TypeOK
<1>2. /\ d.op \in Op /\ d.rd \in Regs /\ d.rs1 \in Regs /\ d.rs2 \in Regs
      /\ d.imm \in Word
  BY <1>1, DecodeType
<1>3. AbsReg \in [Regs -> Word] /\ a \in Word /\ b \in Word
  BY <1>2, AbsRegType
<1>4. /\ ex_mem.alu_out = AluOut(d, ex_mem.pc, a, b)
      /\ ex_mem.rs2_val = b
      /\ ex_mem.branch_taken = Taken(d, a, b)
      /\ ex_mem.branch_target = Target(d, ex_mem.pc, a)
  BY DEF IInv, ExecutedFromRegisters, Insn
<1>5. /\ ~halted' /\ ~Halting' /\ AbsReg' = Committed
  BY AdvanceReg
<1>6. AbsStatus = "running" /\ AbsStatus' = "running" /\ AbsPc = ex_mem.pc
  BY <1>5 DEF AbsStatus, AbsPc
<1> HIDE DEF d, a, b
<1>7. is_mem_op(d.op) => /\ ex_mem.alu_out = Sequential!Address(d, a)
                         /\ ex_mem.alu_out \in RamAddr
  BY <1>1, <1>2, <1>3, <1>4, DatapathCorrect
     DEF AdvanceTick, AccessFaults, accessing
<1>8. AbsPc' = Sequential!NextPc(d, ex_mem.pc, a, b)
  <2>1. (IF Taken(d, a, b) THEN Target(d, ex_mem.pc, a)
                           ELSE Plus(ex_mem.pc, 4)) =
          Sequential!NextPc(d, ex_mem.pc, a, b)
    BY <1>1, <1>2, <1>3, DatapathCorrect
  <2>2. AbsPc' = AfterExMem
    BY <1>5, AbsPcMoves
  <2> QED BY <1>4, <2>1, <2>2 DEF AfterExMem
<1>9. AbsReg' = IF has_writeback(d.op) /\ d.rd # 0
                  THEN [AbsReg EXCEPT ![d.rd] =
                          Sequential!Result(d, ex_mem.pc, a, b, dmem)]
                  ELSE AbsReg
  <2>1. CASE has_writeback(d.op) /\ d.rd # 0
    <3>1. Accessed.wb_val = Sequential!Result(d, ex_mem.pc, a, b, dmem)
      <4>1. ~is_store(d.op)
        BY <2>1 DEF has_writeback, is_store
      <4>2. /\ is_load(d.op) =>
                 LoadValue(d.op, dmem, AluOut(d, ex_mem.pc, a, b)) =
                   Sequential!Result(d, ex_mem.pc, a, b, dmem)
            /\ ~is_load(d.op) =>
                 AluOut(d, ex_mem.pc, a, b) =
                   Sequential!Result(d, ex_mem.pc, a, b, dmem)
        BY <1>1, <1>2, <1>3, <2>1, DatapathCorrect
      <4> QED BY <1>1, <1>4, <4>1, <4>2 DEF Accessed
    <3> QED BY <1>1, <1>5, <2>1, <3>1 DEF Committed
  <2>2. CASE ~(has_writeback(d.op) /\ d.rd # 0)
    BY <1>1, <1>5, <2>2 DEF Committed
  <2> QED BY <2>1, <2>2
<1>10. dmem' = IF is_store(d.op)
                 THEN StoreResult(d.op, dmem, Sequential!Address(d, a), b)
                 ELSE dmem
  <2>1. is_store(d.op) => is_mem_op(d.op)
    BY DEF is_store, is_mem_op
  <2> QED BY <1>1, <1>4, <1>7, <2>1 DEF AdvanceTick, storing
<1>11. imem' = imem
  BY DEF AdvanceTick
<1>12. Sequential!decode(imem[AbsPc]) = d
  BY <1>6, SameWords DEF d
<1> QED BY <1>1, <1>5, <1>6, <1>7, <1>8, <1>9, <1>10, <1>11, <1>12,
           SameSets, SameClasses, SameMemory
        DEF Sequential!Step, a, b

\* A halting instruction that leaves MEM puts the machine into "halting".
LEMMA HaltRefines ==
    ASSUME TypeOK, IInv, ~halted, ~Halting, NEW i \in BOOLEAN, AdvanceTick(i),
           ex_mem.valid, Halts(ex_mem.op)
    PROVE  Sequential!Halt
<1>1. /\ ex_mem.pc \in RamAddr /\ ex_mem.op = imem[ex_mem.pc].op
  BY DecodeType DEF IInv, StagesHoldProgram, Insn, TypeOK
<1>2. /\ ~halted' /\ Halting' /\ rf' = AbsReg
  BY AdvanceReg
<1>3. mem_wb' = Accessed /\ imem' = imem
  BY DEF AdvanceTick
<1>4. AbsStatus = "running" /\ AbsStatus' = "halting"
  BY <1>2 DEF AbsStatus
<1>5. AbsPc = ex_mem.pc /\ AbsPc' = ex_mem.pc
  BY <1>2, <1>3 DEF AbsPc, Accessed
<1>6. AbsReg' = AbsReg
  <2>1. ~has_writeback(mem_wb'.op)
    BY <1>3 DEF Accessed, Halts, has_writeback, System
  <2> QED BY <1>2, <2>1 DEF AbsReg
<1>7. dmem' = dmem
  BY DEF AdvanceTick, storing, is_store, Stores, Halts
<1> QED BY <1>1, <1>3, <1>4, <1>5, <1>6, <1>7, SameSets, SameClasses
        DEF Sequential!Halt

\* The tick after that halts it; a store behind it may be made on the way.
LEMMA SettleRefines ==
    ASSUME TypeOK, IInv, ~halted, Halting, NEW i \in BOOLEAN,
           StallTick(i) \/ AdvanceTick(i)
    PROVE  Sequential!Settle
<1>1. WriteBack /\ DetectHalt /\ imem' = imem
  BY DEF StallTick, AdvanceTick
<1>2. halted' /\ halt_pc' = mem_wb.pc
  BY <1>1, HaltStep DEF DetectHalt
<1>3. AbsStatus = "halting" /\ AbsStatus' = "halted"
  BY <1>2 DEF AbsStatus
<1>4. AbsPc = mem_wb.pc /\ AbsPc' = AbsPc
  BY <1>2 DEF AbsPc
<1>5. AbsReg' = AbsReg
  BY <1>1, <1>2, RfCatchesUp DEF AbsReg
<1>6. CASE dmem' = dmem
  BY <1>1, <1>3, <1>4, <1>5, <1>6 DEF Sequential!Settle
<1>7. CASE dmem' # dmem
  <2>1. /\ AdvanceTick(i) /\ storing
        /\ dmem' = StoreResult(ex_mem.op, dmem, ex_mem.alu_out, ex_mem.rs2_val)
    BY <1>7 DEF StallTick, AdvanceTick
  <2>2. /\ ex_mem.valid /\ ex_mem.op \in Stores /\ ex_mem.alu_out \in RamAddr
        /\ ex_mem.rs2_val \in Word /\ dmem \in Mem
    BY <2>1 DEF AdvanceTick, AccessFaults, accessing, storing, is_store,
          is_mem_op, TypeOK, ExMem
  <2>3. dmem' \in Mem /\ Sequential!DifferByOneAccess(dmem, dmem')
    BY <2>1, <2>2, StoreType, StoreFrame
  <2>4. /\ ex_mem.pc = Plus(AbsPc, 4) /\ ex_mem.pc \in RamAddr
        /\ ex_mem.op = imem[ex_mem.pc].op
    BY <1>4, <2>2, DecodeType DEF IInv, PathLinked, StagesHoldProgram, Insn, TypeOK
  <2>5. is_store(imem[Plus(AbsPc, 4)].op)
    BY <2>2, <2>4 DEF is_store
  <2> QED BY <1>1, <1>3, <1>4, <1>5, <2>3, <2>4, <2>5, SameSets, SameWords,
             SameClasses DEF Sequential!Settle
<1> QED BY <1>6, <1>7

\* Every step of the pipeline is a step of the sequential machine or none.
LEMMA NextRefines ==
    TypeOK /\ IInv /\ [Next]_vars => [Sequential!Next]_(Sequential!vars)
<1> SUFFICES ASSUME TypeOK, IInv, [Next]_vars
             PROVE  [Sequential!Next]_(Sequential!vars)
  OBVIOUS
<1>1. ASSUME NEW i \in BOOLEAN, StallTick(i)
      PROVE  [Sequential!Next]_(Sequential!vars)
  <2>1. ~halted
    BY <1>1 DEF StallTick, Running
  <2> QED BY <1>1, <2>1, StallRefines, SettleRefines DEF Sequential!Next
<1>2. ASSUME NEW i \in BOOLEAN, AdvanceTick(i)
      PROVE  [Sequential!Next]_(Sequential!vars)
  <2>1. ~halted
    BY <1>2 DEF AdvanceTick, Running
  <2>2. CASE Halting
    BY <1>2, <2>1, <2>2, SettleRefines DEF Sequential!Next
  <2>3. CASE ~Halting /\ ex_mem.valid
    BY <1>2, <2>1, <2>3, HaltRefines, CommitRefines DEF Sequential!Next
  <2>4. CASE ~Halting /\ ~ex_mem.valid
    <3>1. ~halted' /\ ~Halting' /\ AbsReg' = AbsReg
      BY <1>2, <2>1, <2>4, AdvanceReg DEF Committed
    <3>2. AbsPc' = AbsPc
      BY <1>2, <2>1, <2>4, <3>1, AbsPcMoves
    <3>3. AbsStatus' = AbsStatus
      BY <2>1, <2>4, <3>1 DEF AbsStatus
    <3>4. imem' = imem /\ dmem' = dmem
      BY <1>2, <2>4 DEF AdvanceTick, storing
    <3> QED BY <3>1, <3>2, <3>3, <3>4 DEF Sequential!vars
  <2> QED BY <2>2, <2>3, <2>4
<1>3. ASSUME UNCHANGED <<imem, dmem, rf, pc, pipe, halt_reason, halt_pc>>
      PROVE  UNCHANGED Sequential!vars
  <2>1. AbsReg' = AbsReg /\ AbsPc' = AbsPc /\ AbsStatus' = AbsStatus
    BY <1>3 DEF AbsReg, AbsPc, AbsStatus, RfWrite, halted, Halting, pipe
  <2> QED BY <1>3, <2>1 DEF Sequential!vars
<1>4. ASSUME NEW i \in BOOLEAN, AbortTick(i) PROVE UNCHANGED Sequential!vars
  BY <1>3, <1>4 DEF AbortTick
<1>5. CASE UNCHANGED vars
  BY <1>3, <1>5 DEF vars
<1> QED BY <1>1, <1>2, <1>4, <1>5 DEF Next, Tick, HaltedTick

\* The pipeline implements the sequential machine: for every program, ALU,
\* latency, cache and predictor geometry, as long as instructions are
\* fetched from word-aligned addresses or there is no predictor.
THEOREM Refinement == Spec /\ []Aligned => ImplementsIsa
<1>1. Spec => []TypeOK
  BY TypeCorrect
<1>2. Spec /\ []Aligned => []IInv
  BY InvariantCorrect
<1> QED BY <1>1, <1>2, InitRefines, NextRefines, PTL
        DEF Spec, ImplementsIsa, Sequential!Spec

-----------------------------------------------------------------------------
(***************************************************************************)
(* Word-aligned fetch.  The code does not ensure it, so the theorems above *)
(* assume it; it comes down to the targets of the jumps that execute, and  *)
(* for programs without JALR to the immediates they hold.                  *)
(***************************************************************************)

\* Fetch, and every place the predictor may send it to, is word-aligned.
FetchAligned ==
    BpredEnabled => /\ pc % 4 = 0
                    /\ \A i \in BtbIndex : btb[i].target % 4 = 0

\* Addition that wraps around at a word keeps multiples of four.
LEMMA PlusAligned ==
    ASSUME WordMachine, NEW a \in Word, NEW b \in Nat, a % 4 = 0, b % 4 = 0
    PROVE  Plus(a, b) % 4 = 0
<1>1. PICK k \in Nat : ByteValues = 2 * k
  <2> DEFINE h == ByteValues \div 2
  <2>1. h \in Nat /\ ByteValues = 2 * h
    BY Sizes DEF WordMachine
  <2> HIDE DEF h
  <2> QED BY <2>1
<1>2. HalfValues = 4 * (k * k)
  BY <1>1 DEF HalfValues
<1>3. WordValues = 4 * ((k * k) * HalfValues) /\ (k * k) * HalfValues \in Nat
  <2>1. k * k \in Nat /\ HalfValues \in Nat
    BY <1>1, Sizes
  <2>2. \A x, y, z \in Nat : x = 4 * y => x * z = 4 * (y * z) /\ y * z \in Nat
    OBVIOUS
  <2> QED BY <1>2, <2>1, <2>2 DEF WordValues
<1>4. PICK m \in Nat : WordValues = 4 * m
  BY <1>3
<1>5. a \in Nat
  BY Sizes DEF Word
<1>6. m >= 1
  BY <1>4, Sizes
<1>7. PICK n \in Nat : a + b = 4 * n
  <2>1. (a + b) \div 4 \in Nat /\ a + b = 4 * ((a + b) \div 4)
    BY <1>5
  <2> QED BY <2>1
<1>8. (4 * n) % (4 * m) = 4 * (n % m)
  <2> DEFINE quo == n \div m
             rem == n % m
  <2>1. quo \in Nat /\ rem \in Nat /\ rem < m /\ n = m * quo + rem
    BY <1>6
  <2>2. \A q, r \in Nat : (n = m * q + r /\ r < m) => (4 * n) % (4 * m) = 4 * r
    <3> SUFFICES ASSUME NEW q \in Nat, NEW r \in Nat, n = m * q + r, r < m
                 PROVE  (4 * n) % (4 * m) = 4 * r
      OBVIOUS
    <3>1. 4 * n = (4 * m) * q + 4 * r
      OBVIOUS
    <3>2. \A d, e, x \in Nat : (d > 0 /\ e < d) => (d * x + e) % d = e
      OBVIOUS
    <3>3. 4 * m \in Nat /\ 4 * m > 0 /\ 4 * r \in Nat /\ 4 * r < 4 * m
      BY <1>6
    <3> QED BY <3>1, <3>2, <3>3
  <2>3. (4 * n) % (4 * m) = 4 * rem
    <3> HIDE DEF quo, rem
    <3> QED BY <2>1, <2>2
  <2> QED BY <2>3
<1>9. n % m \in Nat
  BY <1>6
<1> QED BY <1>4, <1>7, <1>8, <1>9 DEF Plus

\* Fetch starts at the base of RAM with an empty predictor.
LEMMA FetchAlignedInit == ASSUME WordMachine PROVE Init => FetchAligned
  BY DEF Init, FetchAligned, WordMachine, BtbInit, NoEntry

\* A tick goes on at the next word, at a target the predictor holds, or at
\* the one of the branch or jump in EX, and stores only that one.
LEMMA FetchAlignedNext ==
    ASSUME WordMachine, TypeOK, IInv, FetchAligned, TargetsAligned, [Next]_vars
    PROVE  FetchAligned'
<1>1. ASSUME UNCHANGED <<pc, btb>> PROVE FetchAligned'
  BY <1>1 DEF FetchAligned
<1>2. ASSUME NEW i \in BOOLEAN, AdvanceTick(i) PROVE FetchAligned'
  <2> SUFFICES ASSUME BpredEnabled
               PROVE  pc' % 4 = 0 /\ \A j \in BtbIndex : btb'[j].target % 4 = 0
    BY DEF FetchAligned
  <2>1. ~halted /\ FetchLatch(i) /\ Train
    BY <1>2 DEF AdvanceTick, Running
  <2>2. /\ pc \in Word /\ pc % 4 = 0
        /\ btb \in [BtbIndex -> BtbEntry]
        /\ \A j \in BtbIndex : btb[j].target % 4 = 0
    BY DEF TypeOK, FetchAligned
  <2>3. id_ex.valid => id_ex.pc % 4 = 0
    BY <2>1 DEF IInv, StagesAligned
  <2>4. id_ex.pc \in Word /\ id_ex.op \in Op
    BY DEF TypeOK, IdEx
  <2>5. \A a \in Word : a % 4 = 0 => Plus(a, 4) % 4 = 0
    BY PlusAligned
  <2>6. (id_ex.valid /\ actual_taken) => target % 4 = 0
    <3>1. (id_ex.valid /\ actual_taken) =>
             HasStaticTarget(id_ex.op) \/ id_ex.op = "JALR"
      <4>1. rs1 \in Word /\ rs2 \in Word
        BY OperandType
      <4> QED BY <2>4, <4>1, BranchAssumption
              DEF actual_taken, Taken, HasStaticTarget, Jumps
    <3> QED BY <2>1, <3>1 DEF TargetsAligned
  <2>7. redirect => redirect_target % 4 = 0
    BY <2>3, <2>4, <2>5, <2>6 DEF redirect, redirect_target
  <2>8. PredictedPc(bht, btb, pc) % 4 = 0
    BY <2>2, <2>5, IndexType DEF PredictedPc
  <2>9. pc' % 4 = 0
    BY <2>1, <2>2, <2>7, <2>8 DEF FetchLatch
  <2>10. train => target % 4 = 0
    BY <2>1 DEF train, TargetsAligned, HasStaticTarget, is_cond_branch
  <2>11. \A j \in BtbIndex : btb'[j].target % 4 = 0
    <3>1. CASE ~train
      BY <2>1, <2>2, <3>1 DEF Train
    <3>2. CASE train
      <4>1. btb' = UpdateBtb(btb, id_ex.pc, is_cond_branch(id_ex.op), target)
        BY <2>1, <3>2 DEF Train
      <4> QED BY <2>2, <2>10, <3>2, <4>1 DEF UpdateBtb
    <3> QED BY <3>1, <3>2
  <2> QED BY <2>9, <2>11
<1>3. ASSUME NEW i \in BOOLEAN, StallTick(i) \/ AbortTick(i)
      PROVE  UNCHANGED <<pc, btb>>
  BY <1>3 DEF StallTick, AbortTick
<1>4. CASE UNCHANGED vars
  BY <1>1, <1>4 DEF vars
<1> QED BY <1>1, <1>2, <1>3, <1>4 DEF Next, Tick, HaltedTick

\* With the predictor on, fetch is word-aligned as long as every branch and
\* jump that reaches EX names a word-aligned target: prediction, squash and
\* wrong-path fetch never lead to an address the executed path does not
\* explain.
THEOREM FetchStaysAligned ==
    ASSUME WordMachine PROVE Spec /\ []TargetsAligned => []Aligned
<1>1. FetchAligned => Aligned
  BY DEF FetchAligned, Aligned
<1>2. Init => FetchAligned
  BY FetchAlignedInit
<1>3. TypeOK /\ IInv /\ FetchAligned /\ TargetsAligned /\ [Next]_vars
        => FetchAligned'
  BY FetchAlignedNext
<1> QED BY <1>1, <1>2, <1>3, TypeCorrect, InitInv, NextInv, PTL DEF Spec

\* The branch or jump in EX is one of the program's.
LEMMA TargetsOfProgram ==
    ASSUME WordMachine, WordPrograms, TypeOK, IInv, imem \in Programs
    PROVE  TargetsAligned
<1> SUFFICES ASSUME BpredEnabled, ~halted, id_ex.valid,
                    HasStaticTarget(id_ex.op) \/ id_ex.op = "JALR"
             PROVE  target % 4 = 0
  BY DEF TargetsAligned
<1>1. /\ id_ex.pc \in RamAddr /\ id_ex.pc % 4 = 0
      /\ id_ex.op = Insn(id_ex.pc).op /\ id_ex.imm = Insn(id_ex.pc).imm
  BY DEF IInv, StagesHoldProgram, StagesAligned
<1>2. imem[id_ex.pc] \in Raw
  BY <1>1 DEF TypeOK
<1>3. id_ex.op = imem[id_ex.pc].op
  BY <1>1, <1>2, DecodeType DEF Insn
<1>4. HasStaticTarget(id_ex.op) /\ id_ex.op # "JALR"
      /\ imem[id_ex.pc].imm % 4 = 0
  BY <1>1, <1>3 DEF WordPrograms
<1>5. id_ex.imm = imem[id_ex.pc].imm
  BY <1>1, <1>3, <1>4 DEF Insn, decode, HasStaticTarget, Branches, RegOps, System
<1>6. id_ex.imm \in Nat /\ id_ex.pc \in Word
  BY Sizes DEF TypeOK, IdEx, Word
<1>7. Plus(id_ex.pc, id_ex.imm) % 4 = 0
  BY <1>1, <1>4, <1>5, <1>6, PlusAligned
<1> QED BY <1>4, <1>7 DEF target, Target

\* Programs whose branches and JALs go a multiple of four away, and that
\* have no JALR, run word-aligned.
LEMMA WordProgramsAligned ==
    ASSUME WordMachine, WordPrograms PROVE Spec => []Aligned
<1>1. FetchAligned => Aligned
  BY DEF FetchAligned, Aligned
<1>2. Init => FetchAligned /\ imem \in Programs
  BY FetchAlignedInit DEF Init
<1>3. imem \in Programs /\ [Next]_vars => (imem \in Programs)'
  BY DEF Next, Tick, StallTick, AdvanceTick, AbortTick, HaltedTick, vars
<1>4. TypeOK /\ IInv /\ FetchAligned /\ imem \in Programs /\ [Next]_vars
        => FetchAligned'
  BY FetchAlignedNext, TargetsOfProgram
<1> QED BY <1>1, <1>2, <1>3, <1>4, TypeCorrect, InitInv, NextInv, PTL DEF Spec

\* Without a predictor, or with one and a program of static word-aligned
\* targets, the hypothesis of the theorems above is met.
THEOREM ProgramsStayAligned ==
    ASSUME AlignedByProgram PROVE Spec => []Aligned
<1>1. CASE ~BpredEnabled
  <2>1. Aligned
    BY <1>1 DEF Aligned
  <2> QED BY <2>1, PTL
<1>2. CASE WordMachine /\ WordPrograms
  BY <1>2, WordProgramsAligned
<1> QED BY <1>1, <1>2 DEF AlignedByProgram

\* So there the pipeline implements the sequential machine with nothing
\* assumed of its behaviour.
THEOREM RefinementByProgram ==
    ASSUME AlignedByProgram PROVE Spec => ImplementsIsa
  BY ProgramsStayAligned, Refinement, PTL
=============================================================================
