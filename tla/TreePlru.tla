------------------------------ MODULE TreePlru ------------------------------
(***************************************************************************)
(* Tree pseudo-LRU replacement for one set of Ways ways (a power of two).  *)
(* The bits sit on the inner nodes 1 .. Ways-1 of a binary tree whose      *)
(* leaves Ways .. 2*Ways-1 are the ways; a bit names the child the next    *)
(* victim is below: 0 the left one, 1 the right one.                       *)
(***************************************************************************)
EXTENDS Naturals

CONSTANT Ways

ASSUME WaysAssumption == Ways \in {1, 2, 4, 8, 16, 32, 64, 128, 256}

Node == 1 .. (Ways - 1)
Way  == 0 .. (Ways - 1)

PlruBits == [Node -> {0, 1}]
PlruInit == [n \in Node |-> 0]

\* victim(): follow the bits from the root to a leaf.
victim(bits) ==
    LET leaf[n \in 1 .. (2 * Ways - 1)] ==
            IF n >= Ways THEN n ELSE leaf[2 * n + bits[n]]
    IN  leaf[1] - Ways

\* n is w's leaf or one of the nodes above it.
OnPath(n, w) ==
    LET up[k \in 0 .. Ways] == IF k = 0 THEN w + Ways ELSE up[k - 1] \div 2
    IN  \E k \in 0 .. Ways : up[k] = n

\* Faulty touch(): the root is left as it was.
touch_not_root(bits, w) ==
    [n \in Node |-> IF n = 1 THEN bits[n]
                    ELSE IF OnPath(2 * n, w)     THEN 1
                    ELSE IF OnPath(2 * n + 1, w) THEN 0
                    ELSE bits[n]]

\* touch(): every node above the way turns away from it.
touch(bits, w) ==
    [n \in Node |-> IF OnPath(2 * n, w)     THEN 1
                    ELSE IF OnPath(2 * n + 1, w) THEN 0
                    ELSE bits[n]]
=============================================================================
