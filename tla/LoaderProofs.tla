---------------------------- MODULE LoaderProofs ----------------------------
(***************************************************************************)
(* Proofs about load_elf(), for every file, every RAM and every sequence   *)
(* of setup calls.                                                         *)
(*                                                                         *)
(* What the memories hold while a file is loaded is a matter of induction  *)
(* over the program headers.  The loader makes that induction itself, one  *)
(* header per step: the statement about the headers read so far is an      *)
(* invariant, once it is known that the stream is good exactly as long as  *)
(* every header was readable.                                              *)
(***************************************************************************)
EXTENDS Loader, WellFoundedInduction, TLAPS

\* How far the call is, and what the stream knows of the headers read.
Progress ==
    /\ i \in Nat /\ i >= 1
    /\ good <=> \A j \in 1 .. (i - 1) : file.phdrs[j].readable
    /\ status = "loaded" => i = Len(file.phdrs) + 1
    /\ status = "loading" => i <= Len(file.phdrs) + 1
    /\ file \in Files \cup {NoFile}

\* A file has a sequence of program headers.
LEMMA FileType ==
    ASSUME NEW f \in Files \cup {NoFile}
    PROVE  Len(f.phdrs) \in Nat /\ f.phdrs \in Seq(Phdr)
<1>1. CASE f = NoFile
  <2>1. f.phdrs = <<>>
    BY <1>1 DEF NoFile
  <2>2. <<>> \in Seq(Phdr) /\ Len(<<>>) \in Nat
    OBVIOUS
  <2> QED BY <2>1, <2>2
<1>2. CASE f \in Files
  BY <1>2, LoaderAssumption
<1> QED BY <1>1, <1>2

\* Before the first call no header was read.
LEMMA ProgressInit == Init => Progress
BY DEF Init, Progress

\* Reading one header, when i grows by one.
LEMMA ProgressNext == Progress /\ [Next]_vars => Progress'
<1> SUFFICES ASSUME Progress, [Next]_vars PROVE Progress'
  OBVIOUS
<1>0. /\ i \in Nat /\ i >= 1 /\ file \in Files \cup {NoFile}
      /\ Len(file.phdrs) \in Nat
  BY FileType DEF Progress
<1>1. ASSUME NEW f \in Files, Open(f) PROVE Progress'
  <2>1. Len(f.phdrs) \in Nat
    BY FileType
  <2> QED BY <1>1, <2>1 DEF Open, Progress
<1>2. ASSUME i' = i + 1, file' = file, status' = status, Reading,
             good' <=> good /\ file.phdrs[i].readable
      PROVE  Progress'
  <2>1. 1 .. (i' - 1) = (1 .. (i - 1)) \cup {i}
    BY <1>0, <1>2
  <2>2. good' <=> \A j \in 1 .. (i' - 1) : file'.phdrs[j].readable
    BY <1>2, <2>1 DEF Progress
  <2> QED BY <1>0, <1>2, <2>2 DEF Progress, Reading
<1>3. CASE Skip
  BY <1>2, <1>3 DEF Skip, HeaderRead, phdr
<1>4. CASE Segment
  BY <1>2, <1>4 DEF Segment, HeaderRead, phdr
<1>5. CASE ShortRead \/ OutsideRam
  BY <1>5 DEF ShortRead, OutsideRam, Progress
<1>6. CASE Finish
  BY <1>0, <1>6 DEF Finish, Progress
<1>7. ASSUME Reset, status' \in {"idle", "aborted"} PROVE Progress'
  BY <1>7 DEF Reset, Progress
<1>8. ASSUME NEW words \in Texts, LoadProgram(words) PROVE Progress'
  BY <1>7, <1>8 DEF LoadProgram
<1>9. ASSUME NEW x \in Pokes, StoreWord(x[1], x[2]) PROVE Progress'
  BY <1>7, <1>9 DEF StoreWord
<1>10. CASE UNCHANGED vars
  BY <1>10 DEF vars, Progress
<1> QED BY <1>1, <1>3, <1>4, <1>5, <1>6, <1>8, <1>9, <1>10 DEF Next, Step
-----------------------------------------------------------------------------
(***************************************************************************)
(* The overlay.                                                            *)
(***************************************************************************)

\* Reading a header adds it to the stored ones, or none.
LEMMA StoredGrows ==
    ASSUME Progress, i' = i + 1, file' = file
    PROVE  /\ Stored \subseteq 1 .. (i - 1)
           /\ HeaderRead /\ phdr.load => Stored' = Stored \cup {i}
           /\ ~(HeaderRead /\ phdr.load) => Stored' = Stored
<1>1. i \in Nat /\ i >= 1 /\ i' - 1 = i
  BY DEF Progress
<1>2. Stored \subseteq 1 .. (i - 1)
  BY DEF Stored
<1>3. Stored' = { k \in 1 .. i : /\ file.phdrs[k].load
                                 /\ \A j \in 1 .. k : file.phdrs[j].readable }
  BY <1>1 DEF Stored
<1>4. 1 .. i = (1 .. (i - 1)) \cup {i}
  BY <1>1
<1>5. HeaderRead <=> \A j \in 1 .. i : file.phdrs[j].readable
  BY <1>4 DEF HeaderRead, phdr, Progress
<1>6. \A k : k \in Stored' <=>
         k \in Stored \/ (k = i /\ HeaderRead /\ phdr.load)
  BY <1>3, <1>4, <1>5 DEF Stored, phdr
<1> QED BY <1>2, <1>6

\* A set of numbers below a bound, if not empty, has a largest one.
LEMMA LargestOf ==
    ASSUME NEW n \in Nat, NEW S, S # {}, S \subseteq Nat, \A x \in S : x < n
    PROVE  \E x \in S : \A y \in S : y <= x
<1> DEFINE T == { t \in Nat : \E x \in S : t = n - x }
<1>1. T \in SUBSET Nat /\ T # {}
  <2>1. PICK x \in S : TRUE
    OBVIOUS
  <2>2. n - x \in Nat
    BY <2>1
  <2> QED BY <2>1, <2>2
<1>2. PICK t \in T : \A u \in T : ~(<<u, t>> \in OpToRel(<, Nat))
  <2> HIDE DEF T
  <2> QED BY <1>1, NatLessThanWellFounded, WFMin
<1>3. \A u \in T : ~(u < t)
  <2> SUFFICES ASSUME NEW u \in T, u < t PROVE FALSE
    OBVIOUS
  <2>1. <<u, t>> \in { ss \in Nat \X Nat : ss[1] < ss[2] }
    OBVIOUS
  <2>2. <<u, t>> \in OpToRel(<, Nat)
    BY <2>1, Zenon DEF OpToRel
  <2> QED BY <1>2, <2>2
<1>4. PICK x \in S : t = n - x
  OBVIOUS
<1>5. ASSUME NEW y \in S PROVE y <= x
  <2>1. n - y \in T
    BY <1>5
  <2> QED BY <1>3, <1>4, <2>1
<1> QED BY <1>5

\* The last of a set of headers to which the newest is added is that one.
LEMMA NewestIsLatest ==
    ASSUME i \in Nat, NEW S, S \subseteq 1 .. (i - 1)
    PROVE  Latest(S \cup {i}) = i
<1>1. \A j \in S \cup {i} : j <= i /\ j \in Nat
  OBVIOUS
<1>2. \A k \in S \cup {i} : (\A j \in S \cup {i} : j <= k) => k = i
  BY <1>1
<1> QED BY <1>1, <1>2 DEF Latest

\* The stored headers whose file bytes hold address a, and those that touch
\* it at all; what the k-th leaves there.
Data(a) == { k \in Stored : a \in Extent(file.phdrs[k], file.phdrs[k].filesz) }

Covered(a) == { k \in Stored : a \in Touched(file.phdrs[k]) }

Left(a, k) ==
    IF k \in Data(a) THEN file.phdrs[k].data[a - file.phdrs[k].vaddr + 1] ELSE 0

\* The overlay at one address.
Overlay(a) ==
    /\ imem[a] = IF Data(a) = {} THEN before.imem[a] ELSE Left(a, Latest(Data(a)))
    /\ dmem[a] = IF Covered(a) = {} THEN before.dmem[a]
                 ELSE Left(a, Latest(Covered(a)))

\* The property, address by address.
LEMMA OverlayIsPointwise == MemoryIsOverlay <=> \A a \in RamBytes : Overlay(a)
BY DEF MemoryIsOverlay, Overlay, Data, Covered, Left

\* At first nothing is laid over anything.
LEMMA OverlayInit == Init => MemoryIsOverlay
<1> SUFFICES ASSUME Init, NEW a \in RamBytes PROVE Overlay(a)
  BY OverlayIsPointwise
<1>1. Stored = {} /\ before.imem = imem /\ before.dmem = dmem
  BY DEF Init, Stored
<1>2. Data(a) = {} /\ Covered(a) = {}
  BY <1>1 DEF Data, Covered
<1> QED BY <1>1, <1>2 DEF Overlay

\* A call starts over from the memories as they are.
LEMMA OverlayRestarts ==
    ASSUME i' = 1, before' = [imem |-> imem', dmem |-> dmem']
    PROVE  MemoryIsOverlay'
<1> SUFFICES ASSUME NEW a \in RamBytes PROVE Overlay(a)'
  BY DEF MemoryIsOverlay, Overlay, Data, Covered, Left
<1>1. Stored' = {} /\ before'.imem = imem' /\ before'.dmem = dmem'
  BY DEF Stored
<1>2. Data(a)' = {} /\ Covered(a)' = {}
  BY <1>1 DEF Data, Covered
<1> QED BY <1>1, <1>2 DEF Overlay

\* A segment is laid over what was there.
LEMMA OverlaySegment ==
    ASSUME Progress, MemoryIsOverlay, Segment
    PROVE  MemoryIsOverlay'
<1> SUFFICES ASSUME NEW a \in RamBytes PROVE Overlay(a)'
  BY DEF MemoryIsOverlay, Overlay, Data, Covered, Left
<1>1. /\ i' = i + 1 /\ file' = file /\ before' = before /\ HeaderRead /\ phdr.load
      /\ imem' = WithSegment(imem, phdr, FALSE)
      /\ dmem' = WithSegment(dmem, phdr, TRUE)
      /\ i \in Nat
  BY DEF Segment, Progress
<1>2. Stored' = Stored \cup {i} /\ Stored \subseteq 1 .. (i - 1) /\ i \notin Stored
  <2>1. i \notin 1 .. (i - 1)
    BY <1>1
  <2> QED BY <1>1, <2>1, StoredGrows
<1>3. Overlay(a)
  BY OverlayIsPointwise
<1> DEFINE inData == a \in Extent(phdr, phdr.filesz)
           inAny  == a \in Touched(phdr)
<1>4. /\ inData => Data(a)' = Data(a) \cup {i}
      /\ ~inData => Data(a)' = Data(a)
      /\ inAny => Covered(a)' = Covered(a) \cup {i}
      /\ ~inAny => Covered(a)' = Covered(a)
  BY <1>1, <1>2 DEF Data, Covered, phdr
<1>5. /\ Data(a) \subseteq 1 .. (i - 1) /\ Covered(a) \subseteq 1 .. (i - 1)
      /\ i \notin Data(a)
  BY <1>2 DEF Data, Covered
<1> DEFINE left(k) ==
             IF k \in Data(a)'
               THEN file.phdrs[k].data[a - file.phdrs[k].vaddr + 1] ELSE 0
<1>6. \A k : k # i => left(k) = Left(a, k)
  BY <1>4 DEF Left
<1>7. left(i) = IF inData THEN phdr.data[a - phdr.vaddr + 1] ELSE 0
  BY <1>4, <1>5 DEF phdr
<1>8. /\ imem'[a] = IF inData THEN phdr.data[a - phdr.vaddr + 1] ELSE imem[a]
      /\ dmem'[a] = IF inData THEN phdr.data[a - phdr.vaddr + 1]
                    ELSE IF inAny THEN 0 ELSE dmem[a]
  BY <1>1 DEF WithSegment, Touched
<1>9. inData => inAny
  BY DEF Touched
<1>10. ASSUME NEW S, S # {}, S \subseteq 1 .. (i - 1)
       PROVE  Latest(S) # i
  <2>1. PICK m \in S : \A j \in S : j <= m
    <3>1. S \subseteq Nat /\ \A j \in S : j < i
      BY <1>1, <1>10
    <3> QED BY <1>1, <1>10, <3>1, LargestOf
  <2>2. Latest(S) \in S
    BY <2>1 DEF Latest
  <2> QED BY <1>1, <1>10, <2>2
<1> HIDE DEF inData, inAny, left
<1>11. imem'[a] = IF Data(a)' = {} THEN before.imem[a] ELSE left(Latest(Data(a)'))
  <2>1. CASE inData
    <3>1. Latest(Data(a)') = i
      BY <1>1, <1>4, <1>5, <2>1, NewestIsLatest
    <3> QED BY <1>4, <1>7, <1>8, <2>1, <3>1
  <2>2. CASE ~inData
    <3>1. Data(a)' = Data(a)
      BY <1>4, <2>2
    <3>2. Data(a) # {} => left(Latest(Data(a))) = Left(a, Latest(Data(a)))
      BY <1>5, <1>6, <1>10
    <3> QED BY <1>3, <1>8, <2>2, <3>1, <3>2 DEF Overlay
  <2> QED BY <2>1, <2>2
<1>12. dmem'[a] = IF Covered(a)' = {} THEN before.dmem[a] ELSE left(Latest(Covered(a)'))
  <2>1. CASE inAny
    <3>1. Latest(Covered(a)') = i
      BY <1>1, <1>4, <1>5, <2>1, NewestIsLatest
    <3> QED BY <1>4, <1>7, <1>8, <1>9, <2>1, <3>1
  <2>2. CASE ~inAny
    <3>1. Covered(a)' = Covered(a)
      BY <1>4, <2>2
    <3>2. Covered(a) # {} => left(Latest(Covered(a))) = Left(a, Latest(Covered(a)))
      BY <1>5, <1>6, <1>10
    <3> QED BY <1>3, <1>8, <1>9, <2>2, <3>1, <3>2 DEF Overlay
  <2> QED BY <2>1, <2>2
<1> QED BY <1>1, <1>11, <1>12 DEF Overlay, Left, left
\* Every step keeps the memories the overlay they should be.
LEMMA OverlayNext ==
    Progress /\ MemoryIsOverlay /\ [Next]_vars => MemoryIsOverlay'
<1> SUFFICES ASSUME Progress, MemoryIsOverlay, [Next]_vars PROVE MemoryIsOverlay'
  OBVIOUS
<1>1. ASSUME NEW f \in Files, Open(f) PROVE MemoryIsOverlay'
  BY <1>1, OverlayRestarts DEF Open
<1>2. ASSUME UNCHANGED <<imem, dmem, file, before>>, Stored' = Stored
      PROVE  MemoryIsOverlay'
  BY <1>2 DEF MemoryIsOverlay
<1>3. CASE Skip
  <2>1. i' = i + 1 /\ file' = file /\ ~(HeaderRead /\ phdr.load)
    BY <1>3 DEF Skip
  <2>2. Stored' = Stored
    BY <2>1, StoredGrows
  <2> QED BY <1>2, <1>3, <2>2 DEF Skip
<1>4. CASE Segment
  BY <1>4, OverlaySegment
<1>5. CASE ShortRead \/ OutsideRam \/ Finish \/ UNCHANGED vars
  <2>1. i' = i /\ UNCHANGED <<imem, dmem, file, before>>
    BY <1>5 DEF ShortRead, OutsideRam, Finish, vars
  <2> QED BY <1>2, <2>1 DEF Stored
<1>6. ASSUME Reset PROVE MemoryIsOverlay'
  BY <1>6, OverlayRestarts DEF Reset
<1>7. ASSUME NEW words \in Texts, LoadProgram(words) PROVE MemoryIsOverlay'
  BY <1>6, <1>7 DEF LoadProgram
<1>8. ASSUME NEW x \in Pokes, StoreWord(x[1], x[2]) PROVE MemoryIsOverlay'
  BY <1>6, <1>8 DEF StoreWord
<1> QED BY <1>1, <1>3, <1>4, <1>5, <1>7, <1>8 DEF Next, Step

\* While load_elf() runs and after it, also when it threw, the memories are
\* the earlier ones overlaid by the segments read, the last one on top, for
\* every file and every sequence of calls: BSS is cleared where it lies and
\* nowhere else, and a segment that could not be read has left no byte.
THEOREM LoadIsOverlay == Spec => []MemoryIsOverlay
BY ProgressInit, ProgressNext, OverlayInit, OverlayNext, PTL DEF Spec

-----------------------------------------------------------------------------
(***************************************************************************)
(* One binary in both memories.                                            *)
(***************************************************************************)

\* The memories of a core on which nothing was called.
Blank == [a \in RamBytes |-> 0]

\* The first call found new memories, and memories they still are.
FirstCall ==
    /\ calls \in Nat
    /\ calls = 0 => imem = Blank /\ dmem = Blank /\ status = "idle"
    /\ (calls = 1 /\ status \in {"loading", "loaded"}) =>
         /\ before.imem = Blank /\ before.dmem = Blank
         /\ imem = [a \in RamBytes |-> imem[a]]
         /\ dmem = [a \in RamBytes |-> dmem[a]]

\* A new core has blank memories.
LEMMA FirstInit == Init => FirstCall
BY DEF Init, FirstCall, Blank

\* Only the first call finds them blank.
LEMMA FirstNext == FirstCall /\ [Next]_vars => FirstCall'
<1> SUFFICES ASSUME FirstCall, [Next]_vars PROVE FirstCall'
  OBVIOUS
<1>1. ASSUME NEW f \in Files, Open(f) PROVE FirstCall'
  <2>1. /\ calls' = calls + 1 /\ calls' \in Nat /\ calls' # 0
        /\ imem' = imem /\ dmem' = dmem
        /\ before'.imem = imem /\ before'.dmem = dmem
    BY <1>1 DEF Open, FirstCall
  <2>2. calls' = 1 => imem = Blank /\ dmem = Blank
    BY <2>1 DEF FirstCall
  <2> QED BY <2>1, <2>2 DEF FirstCall, Blank
<1>2. CASE Segment
  <2>1. /\ calls' = calls /\ status = "loading" /\ status' = status
        /\ before' = before
        /\ imem' = WithSegment(imem, phdr, FALSE)
        /\ dmem' = WithSegment(dmem, phdr, TRUE)
    BY <1>2 DEF Segment, Reading
  <2>2. /\ imem' = [a \in RamBytes |-> imem'[a]]
        /\ dmem' = [a \in RamBytes |-> dmem'[a]]
    BY <2>1 DEF WithSegment
  <2> QED BY <2>1, <2>2 DEF FirstCall
<1>3. CASE Skip \/ ShortRead \/ OutsideRam \/ Finish \/ UNCHANGED vars
  <2>1. UNCHANGED <<calls, imem, dmem, before>>
    BY <1>3 DEF Skip, ShortRead, OutsideRam, Finish, vars
  <2>2. \/ status' = status
        \/ status = "loading"
    BY <1>3 DEF Skip, ShortRead, OutsideRam, Finish, Reading, vars
  <2> QED BY <2>1, <2>2 DEF FirstCall
<1>4. ASSUME Reset, status' \in {"idle", "aborted"} PROVE FirstCall'
  BY <1>4 DEF Reset, FirstCall
<1>5. ASSUME NEW words \in Texts, LoadProgram(words) PROVE FirstCall'
  BY <1>4, <1>5 DEF LoadProgram
<1>6. ASSUME NEW x \in Pokes, StoreWord(x[1], x[2]) PROVE FirstCall'
  BY <1>4, <1>6 DEF StoreWord
<1> QED BY <1>1, <1>2, <1>3, <1>5, <1>6 DEF Next, Step

\* Of a file without overlaps at most one segment touches an address.
LEMMA AgreeAtAddress ==
    ASSUME Progress, FirstCall, MemoryIsOverlay, status = "loaded", calls = 1,
           Disjoint(file), NEW a \in RamBytes
    PROVE  imem[a] = dmem[a]
<1>1. Overlay(a) /\ before.imem[a] = 0 /\ before.dmem[a] = 0
  BY OverlayIsPointwise DEF FirstCall, Blank
<1>2. Data(a) \subseteq Covered(a) /\ Covered(a) \subseteq DOMAIN file.phdrs
  <2>1. file.phdrs \in Seq(Phdr) /\ Len(file.phdrs) \in Nat /\ i = Len(file.phdrs) + 1
    BY FileType DEF Progress
  <2>2. DOMAIN file.phdrs = 1 .. (i - 1)
    BY <2>1
  <2> QED BY <2>2 DEF Data, Covered, Touched, Stored
<1>3. \A j, k \in Covered(a) : j = k
  BY <1>2 DEF Covered, Disjoint
<1>4. CASE Covered(a) = {}
  BY <1>1, <1>2, <1>4 DEF Overlay
<1>5. CASE Covered(a) # {} /\ Data(a) = {}
  BY <1>1, <1>5 DEF Overlay, Left
<1>6. CASE Data(a) # {}
  <2>1. Covered(a) = Data(a)
    BY <1>2, <1>3, <1>6
  <2> QED BY <1>1, <1>6, <2>1 DEF Overlay
<1> QED BY <1>4, <1>5, <1>6

\* A file whose segments do not overlap, loaded into a new core, is the same
\* in instruction and data memory, although load_elf() clears BSS in the
\* latter only: one binary works in either.
THEOREM BothMemoriesAgree == Spec => []MemoriesAgree
<1>1. Progress /\ FirstCall /\ MemoryIsOverlay => MemoriesAgree
  <2> SUFFICES ASSUME Progress, FirstCall, MemoryIsOverlay, status = "loaded",
                      calls = 1, Disjoint(file)
               PROVE  imem = dmem
    BY DEF MemoriesAgree
  <2>1. \A a \in RamBytes : imem[a] = dmem[a]
    BY AgreeAtAddress
  <2>2. /\ imem = [a \in RamBytes |-> imem[a]]
        /\ dmem = [a \in RamBytes |-> dmem[a]]
    BY DEF FirstCall
  <2> QED BY <2>1, <2>2
<1> QED BY <1>1, ProgressInit, ProgressNext, OverlayInit, OverlayNext,
           FirstInit, FirstNext, PTL DEF Spec

=============================================================================
