-------------------------- MODULE BranchPredictor --------------------------
(***************************************************************************)
(* The branch predictor: a direct-mapped, tagged branch target buffer and  *)
(* a table of 2-bit saturating counters, both indexed by the program       *)
(* counter without its two low bits.                                       *)
(***************************************************************************)
EXTENDS Rv32i

CONSTANTS
    BpredEnabled,   \* is there a predictor at all (bp_ != nullptr)?
    BhtEntries,     \* bpred_bht_entries
    BtbEntries      \* bpred_btb_entries

ASSUME PredictorAssumption ==
    /\ BpredEnabled \in BOOLEAN
    /\ BhtEntries \in Nat /\ BhtEntries >= 1
    /\ BtbEntries \in Nat /\ BtbEntries >= 1

BhtIndex == 0 .. (BhtEntries - 1)
BtbIndex == 0 .. (BtbEntries - 1)

BtbEntry == [valid : BOOLEAN, tag : Nat, target : Word, cond : BOOLEAN]

NoEntry == [valid |-> FALSE, tag |-> 0, target |-> 0, cond |-> FALSE]

BhtInit == [i \in BhtIndex |-> 1]         \* weakly not-taken
BtbInit == [i \in BtbIndex |-> NoEntry]

bht_index(pc) == (pc \div 4) % BhtEntries
btb_index(pc) == (pc \div 4) % BtbEntries
btb_tag(pc)   == (pc \div 4) \div BtbEntries

BtbHit(btb, pc) ==
    /\ btb[btb_index(pc)].valid
    /\ btb[btb_index(pc)].tag = btb_tag(pc)

\* predict(pc).taken, and the program counter fetch goes on with.
PredictTaken(bht, btb, pc) ==
    /\ BpredEnabled
    /\ BtbHit(btb, pc)
    /\ btb[btb_index(pc)].cond => bht[bht_index(pc)] >= 2

PredictedPc(bht, btb, pc) ==
    IF PredictTaken(bht, btb, pc) THEN btb[btb_index(pc)].target ELSE Plus(pc, 4)

\* Faulty counter: it does not saturate.
UpdateBht_unbounded(bht, pc, is_cond, taken) ==
    IF ~is_cond THEN bht
    ELSE [bht EXCEPT ![bht_index(pc)] = IF taken THEN @ + 1 ELSE @ - 1]

UpdateBht(bht, pc, is_cond, taken) ==
    IF ~is_cond THEN bht
    ELSE [bht EXCEPT ![bht_index(pc)] =
            IF taken THEN (IF @ < 3 THEN @ + 1 ELSE @)
                     ELSE (IF @ > 0 THEN @ - 1 ELSE @)]

UpdateBtb(btb, pc, is_cond, target) ==
    [btb EXCEPT ![btb_index(pc)] =
       [valid |-> TRUE, tag |-> btb_tag(pc), target |-> target,
        cond |-> is_cond]]
=============================================================================
