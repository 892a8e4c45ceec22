------------------------------- MODULE Loader -------------------------------
(***************************************************************************)
(* What fills the memories before the first tick(): Core::load_elf() with  *)
(* every way it can fail, load_program() and store_word().                 *)
(*                                                                         *)
(* An ELF file is abstracted to what its header is (good, or the check it  *)
(* fails), its entry point and its program headers; a program header to    *)
(* whether it can be read, its type, and the segment it describes.  The    *)
(* loader reads one program header per step, so that a call that ends      *)
(* early leaves the memories as they are then.                             *)
(***************************************************************************)
EXTENDS FlatMem, Sequences

CONSTANTS
    Files,        \* ELF files
    Texts,        \* arguments of load_program(): sequences of words
    Pokes,        \* arguments of store_word(): an address and a word
    MaxCalls      \* bound on the number of calls

Checks == {"cannot open", "short header", "not ELF", "not ELF32",
           "not little-endian", "not RISC-V"}

\* data is what the file holds of the segment: Len(data) < filesz when it
\* ends early.
Phdr == [readable : BOOLEAN, load : BOOLEAN, vaddr : Word, filesz : Nat,
         data : Seq(Byte), memsz : Nat]

ASSUME LoaderAssumption ==
    /\ Files \subseteq [header : {"good"} \cup Checks, entry : Word, phdrs : Seq(Phdr)]
    /\ Texts \subseteq Seq(Word)
    /\ Pokes \subseteq Word \X Word
    /\ MaxCalls \in Nat

VARIABLES
    imem, dmem,     \* both memories, byte by byte
    status,         \* of the load_elf() in progress, or how the last one ended
    file,           \* the file being loaded
    i,              \* the number of the program header to read next
    good,           \* the stream has not failed
    calls,          \* calls made
    before          \* the memories when load_elf() was called

vars == <<imem, dmem, status, file, i, good, calls, before>>

NoFile == [header |-> "cannot open", entry |-> RamBase, phdrs |-> <<>>]

Init ==
    /\ imem = [a \in RamBytes |-> 0]
    /\ dmem = [a \in RamBytes |-> 0]
    /\ status = "idle"
    /\ file = NoFile
    /\ i = 1
    /\ good = TRUE
    /\ calls = 0
    /\ before = [imem |-> imem, dmem |-> dmem]

-----------------------------------------------------------------------------
Callable == status \in {"idle", "loaded", "threw"} /\ calls < MaxCalls

\* load_elf() is called: the file is opened and its header checked.
Open(f) ==
    /\ Callable
    /\ file' = f
    /\ status' = IF f.header = "good" THEN "loading" ELSE "threw"
    /\ i' = 1
    /\ good' = TRUE
    /\ calls' = calls + 1
    /\ before' = [imem |-> imem, dmem |-> dmem]
    /\ UNCHANGED <<imem, dmem>>

\* The next program header.  Once the stream has failed no read succeeds.
Reading == status = "loading" /\ i <= Len(file.phdrs)

phdr == file.phdrs[i]

HeaderRead == good /\ phdr.readable

\* A header that cannot be read, or is not PT_LOAD, is passed over.
Skip ==
    /\ Reading
    /\ ~(HeaderRead /\ phdr.load)
    /\ i' = i + 1
    /\ good' = HeaderRead
    /\ UNCHANGED <<imem, dmem, status, file, calls, before>>

\* The addresses of the first n bytes of segment p.
Extent(p, n) == p.vaddr .. (p.vaddr + n - 1)

\* Faulty copy: BSS is the whole segment.
WithSegment_clears_all(mem, p, bss) ==
    [a \in RamBytes |-> IF bss /\ a \in Extent(p, p.memsz) THEN 0
                        ELSE IF a \in Extent(p, p.filesz) THEN p.data[a - p.vaddr + 1]
                        ELSE mem[a]]

\* The file's bytes are stored, in dmem followed by zeroes up to memsz.
WithSegment(mem, p, bss) ==
    [a \in RamBytes |-> IF a \in Extent(p, p.filesz) THEN p.data[a - p.vaddr + 1]
                        ELSE IF bss /\ a \in Extent(p, p.memsz) THEN 0
                        ELSE mem[a]]

Touched(p) == Extent(p, p.filesz) \cup Extent(p, p.memsz)

Segment ==
    /\ Reading
    /\ HeaderRead /\ phdr.load
    /\ Len(phdr.data) = phdr.filesz
    /\ Touched(phdr) \subseteq RamAddr
    /\ imem' = WithSegment(imem, phdr, FALSE)
    /\ dmem' = WithSegment(dmem, phdr, TRUE)
    /\ i' = i + 1
    /\ UNCHANGED <<status, file, good, calls, before>>

\* Faulty short read: what there was is stored before the call throws.
ShortRead_keeps_part ==
    /\ Reading
    /\ HeaderRead /\ phdr.load
    /\ Len(phdr.data) < phdr.filesz
    /\ status' = "threw"
    /\ dmem' = WithSegment(dmem, [phdr EXCEPT !.filesz = Len(phdr.data)], FALSE)
    /\ UNCHANGED <<imem, file, i, good, calls, before>>

\* The file ends inside a segment: nothing of it has been stored.
ShortRead ==
    /\ Reading
    /\ HeaderRead /\ phdr.load
    /\ Len(phdr.data) < phdr.filesz
    /\ status' = "threw"
    /\ UNCHANGED <<imem, dmem, file, i, good, calls, before>>

\* A segment outside RAM fails the assertion of FlatMem::offset(), and the
\* memories are gone with the process.
OutsideRam ==
    /\ Reading
    /\ HeaderRead /\ phdr.load
    /\ Len(phdr.data) = phdr.filesz
    /\ ~(Touched(phdr) \subseteq RamAddr)
    /\ status' = "aborted"
    /\ UNCHANGED <<imem, dmem, file, i, good, calls, before>>

\* No header is left.  Core wants the entry point at the base of RAM, and
\* finds out when everything is stored.
Finish ==
    /\ status = "loading"
    /\ i > Len(file.phdrs)
    /\ status' = IF file.entry = RamBase THEN "loaded" ELSE "threw"
    /\ UNCHANGED <<imem, dmem, file, i, good, calls, before>>

\* The other setup calls.  Nothing of an earlier load_elf() is left but what
\* the memories hold.
Reset ==
    /\ Callable
    /\ calls' = calls + 1
    /\ file' = NoFile /\ i' = 1 /\ good' = TRUE
    /\ before' = [imem |-> imem', dmem |-> dmem']

\* Core::load_program(): consecutive words, in instruction memory only.
LoadProgram(words) ==
    LET addr(n) == RamBase + 4 * (n - 1)
        fits == \A n \in DOMAIN words : addr(n) \in RamAddr
        after[n \in 0 .. Len(words)] ==
            IF n = 0 THEN imem ELSE store_word(after[n - 1], addr(n), words[n])
    IN  /\ imem' = IF fits THEN after[Len(words)] ELSE imem
        /\ status' = IF fits THEN "idle" ELSE "aborted"
        /\ UNCHANGED dmem
        /\ Reset

\* Core::store_word(): in data memory only, and aborting outside RAM.
StoreWord(a, val) ==
    /\ dmem' = IF a \in RamAddr THEN store_word(dmem, a, val) ELSE dmem
    /\ status' = IF a \in RamAddr THEN "idle" ELSE "aborted"
    /\ UNCHANGED imem
    /\ Reset

Step == Skip \/ Segment \/ ShortRead \/ OutsideRam \/ Finish

Next ==
    \/ \E f \in Files : Open(f)
    \/ Step
    \/ \E words \in Texts : LoadProgram(words)
    \/ \E x \in Pokes : StoreWord(x[1], x[2])

Spec == Init /\ [][Next]_vars

-----------------------------------------------------------------------------
\* The headers before the i-th whose segments were asked for and readable.
Stored == { k \in 1 .. (i - 1) : /\ file.phdrs[k].load
                                 /\ \A j \in 1 .. k : file.phdrs[j].readable }

Latest(S) == CHOOSE k \in S : \A j \in S : j <= k

\* On every step of a load, and after it however it ended, the memories are
\* what they were when it was called, overlaid by the segments read so far:
\* of those that cover an address the last one, its bytes from the file or,
\* in data memory, zero beyond them.  A call that throws has stored nothing
\* of the segment it failed on.
MemoryIsOverlay ==
    \A a \in RamBytes :
        LET seg(k)  == file.phdrs[k]
            data    == { k \in Stored : a \in Extent(seg(k), seg(k).filesz) }
            covered == { k \in Stored : a \in Touched(seg(k)) }
            byte(k) == IF k \in data THEN seg(k).data[a - seg(k).vaddr + 1] ELSE 0
        IN  /\ imem[a] = IF data = {} THEN before.imem[a] ELSE byte(Latest(data))
            /\ dmem[a] = IF covered = {} THEN before.dmem[a] ELSE byte(Latest(covered))

Disjoint(f) ==
    \A j, k \in DOMAIN f.phdrs :
        j # k => Touched(f.phdrs[j]) \cap Touched(f.phdrs[k]) = {}

\* What elf_loader.h is after: one binary works in either memory.  A file
\* whose segments do not overlap, loaded into a new core, is the same in
\* both, although BSS is cleared in data memory only.
MemoriesAgree ==
    (status = "loaded" /\ calls = 1 /\ Disjoint(file)) => imem = dmem

\* What elf_loader.h says of I/O errors: load_elf() throws on them.
IoErrorsThrow ==
    status = "loaded" => \A k \in DOMAIN file.phdrs : file.phdrs[k].readable
=============================================================================
