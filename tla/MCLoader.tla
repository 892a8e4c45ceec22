------------------------------ MODULE MCLoader ------------------------------
(***************************************************************************)
(* Small ELF files: up to two program headers with segments that are       *)
(* disjoint, overlap, have a BSS part or nothing else, fall outside RAM,   *)
(* end early or are of another type, and headers that cannot be read.  RAM *)
(* holds two words.                                                        *)
(***************************************************************************)
EXTENDS Loader

Seg(vaddr, data, memsz) ==
    [readable |-> TRUE, load |-> TRUE, vaddr |-> vaddr, filesz |-> Len(data),
     data |-> data, memsz |-> memsz]

Segments ==
    { Seg(16, <<1, 2, 3>>, 3), Seg(18, <<3, 1>>, 4), Seg(20, <<2>>, 0),
      Seg(16, <<>>, 8), Seg(22, <<1, 1>>, 3),
      [Seg(17, <<2, 2>>, 3) EXCEPT !.filesz = 3],
      [Seg(16, <<3>>, 2) EXCEPT !.load = FALSE] }

Unreadable == [Seg(16, <<>>, 0) EXCEPT !.readable = FALSE]

\* The table of program headers is contiguous: behind one that lies past the
\* end of the file, so do all others.
Tables ==
    {<<>>} \cup { <<p>> : p \in Segments \cup {Unreadable} }
      \cup { <<p, q>> : p \in Segments, q \in Segments \cup {Unreadable} }
      \cup { <<p, Unreadable, Unreadable>> : p \in Segments }

Elf(header, entry, phdrs) == [header |-> header, entry |-> entry, phdrs |-> phdrs]

MCFiles ==
    { Elf("good", 16, t) : t \in Tables }
      \cup { Elf("good", 20, <<p>>) : p \in Segments }
      \cup { Elf(c, 16, <<Seg(16, <<1>>, 1)>>) : c \in Checks }

MCTexts == { <<>>, <<27>>, <<228, 57>>, <<1, 2, 3>> }

MCPokes == { <<16, 228>>, <<21, 147>>, <<24, 1>> }
=============================================================================
