------------------------------ MODULE MCCache ------------------------------
(***************************************************************************)
(* The caches Core can build, and one it never builds.                     *)
(***************************************************************************)
EXTENDS Cache

Setup(client, hit, backing, prefetch, degree) ==
    [client |-> client, hit |-> hit, backing |-> backing,
     prefetch |-> prefetch, degree |-> degree]

\* A data cache, and an instruction cache whose engine is slow enough to meet
\* the demand path at work.
DataCaches        == { Setup("memory", 2, 2, FALSE, 1) }
InstructionCaches == { Setup("fetch", 2, 3, TRUE, 2) }

CoreCaches == DataCaches \cup InstructionCaches

\* Parameters of 0, which the constructors raise to 1.
ZeroCaches == { Setup("memory", 0, 2, FALSE, 1), Setup("memory", 2, 0, FALSE, 1),
                Setup("fetch", 0, 2, TRUE, 0), Setup("fetch", 1, 0, TRUE, 1) }

LiveCaches == CoreCaches \cup ZeroCaches

\* Prefetching on a port that stores: the class allows it, Core does not.
PrefetchingDataCaches == { Setup("memory", 1, 2, TRUE, 1) }
=============================================================================
