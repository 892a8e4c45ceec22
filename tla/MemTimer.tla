------------------------------ MODULE MemTimer ------------------------------
(***************************************************************************)
(* The timing side of FlatMem: one blocking request at a time.  The object *)
(* is the record of its members; ready() and tick() are operators on it.   *)
(* ready() does not look at the address.                                   *)
(***************************************************************************)
EXTENDS Naturals

\* Faulty clamp: none.
AtLeast1_raw(n) == n

\* A latency of 0 is taken for 1, here as in the cache's two parameters.
AtLeast1(n) == IF n = 0 THEN 1 ELSE n

NewMem(cycles) ==
    [latency |-> AtLeast1(cycles), serving |-> FALSE, remaining |-> 0]

MemState(cycles) ==
    [latency : {AtLeast1(cycles)}, serving : BOOLEAN,
     remaining : 0 .. (AtLeast1(cycles) - 1)]

\* Faulty ready(): the first call charges one cycle too many.
mem_ready_late(m) ==
    IF m.serving THEN m
    ELSE [m EXCEPT !.serving = TRUE, !.remaining = m.latency]

\* The memory after ready(): the first call starts the timer.
mem_ready(m) ==
    IF m.serving THEN m
    ELSE [m EXCEPT !.serving = TRUE, !.remaining = m.latency - 1]

\* What that call of ready() returned.
mem_served(m) == m.serving /\ m.remaining = 0

\* tick(): count down, then release the request.
mem_tick(m) ==
    IF ~m.serving THEN m
    ELSE IF m.remaining > 0 THEN [m EXCEPT !.remaining = @ - 1]
    ELSE [m EXCEPT !.serving = FALSE]
=============================================================================
