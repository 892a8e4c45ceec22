------------------------------ MODULE FlatMem ------------------------------
(***************************************************************************)
(* The data side of FlatMem: byte-addressed, little-endian RAM.            *)
(*                                                                         *)
(* offset() asserts that the first byte of an access lies in RAM; nothing  *)
(* checks the other bytes of a half-word or a word.  An access to the last *)
(* bytes of RAM can therefore run up to three bytes past the end of the    *)
(* vector: those slack bytes are part of the modelled contents, with       *)
(* arbitrary initial values.                                               *)
(***************************************************************************)
EXTENDS Rv32i

CONSTANTS
    RamBase,      \* ram_base_addr
    RamSize       \* ram_size_bytes

ASSUME RamAssumption ==
    /\ RamBase \in Nat /\ RamSize \in Nat /\ RamSize >= 1
    /\ RamBase + RamSize <= WordValues

\* The addresses offset() accepts.
RamAddr == RamBase .. (RamBase + RamSize - 1)

\* The bytes an accepted access may touch.
RamBytes == RamBase .. (RamBase + RamSize + 2)

Mem == [RamBytes -> Byte]

load_byte(mem, a) == mem[a]

load_half(mem, a) == (mem[a] + ByteValues * mem[a + 1]) % HalfValues

load_word(mem, a) ==
    (load_half(mem, a) + HalfValues * load_half(mem, a + 2)) % WordValues

store_byte(mem, a, val) == [mem EXCEPT ![a] = val % ByteValues]

store_half(mem, a, val) ==
    [mem EXCEPT ![a]     = val % ByteValues,
                ![a + 1] = (val \div ByteValues) % ByteValues]

store_word(mem, a, val) ==
    store_half(store_half(mem, a, val % HalfValues), a + 2,
               val \div HalfValues)

(***************************************************************************)
(* What the MEM stage makes of a load or a store: a signed load extends    *)
(* the sign of an n-valued quantity to the word, a narrow store keeps only *)
(* the low bits of the register.                                           *)
(***************************************************************************)
SignExtend(v, n) == (IF 2 * v >= n THEN v + WordValues - n ELSE v) % WordValues

ZeroExtend(v) == v % WordValues

LoadValue(op, mem, a) ==
    CASE op = "LW"  -> load_word(mem, a)
      [] op = "LH"  -> SignExtend(load_half(mem, a), HalfValues)
      [] op = "LHU" -> ZeroExtend(load_half(mem, a))
      [] op = "LB"  -> SignExtend(load_byte(mem, a), ByteValues)
      [] op = "LBU" -> ZeroExtend(load_byte(mem, a))

StoreValue(op, val) ==
    CASE op = "SW" -> val
      [] op = "SH" -> val % HalfValues
      [] op = "SB" -> val % ByteValues

\* Faulty stores: every one is as wide as a word.
StoreResult_wide(op, mem, a, val) == store_word(mem, a, StoreValue(op, val))

StoreResult(op, mem, a, val) ==
    CASE op = "SW" -> store_word(mem, a, StoreValue(op, val))
      [] op = "SH" -> store_half(mem, a, StoreValue(op, val))
      [] op = "SB" -> store_byte(mem, a, StoreValue(op, val))
=============================================================================
