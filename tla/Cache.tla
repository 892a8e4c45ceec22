------------------------------- MODULE Cache -------------------------------
(***************************************************************************)
(* One cache and its client, the fetch or the memory stage, over every     *)
(* sequence of calls the client may make.                                  *)
(*                                                                         *)
(* A cycle has two halves, as in Core::tick(): in the evaluate half the    *)
(* client calls ready() or leaves the port alone, in the latch half tick() *)
(* is called - or not, for the instruction port while MEM stalls.          *)
(***************************************************************************)
EXTENDS CacheUnit

CONSTANT Setups     \* the clients and cache parameters to start from

ASSUME SetupAssumption ==
    Setups \subseteq [client : {"fetch", "memory"}, hit : Nat, backing : Nat,
                      prefetch : BOOLEAN, degree : Nat]

VARIABLES
    setup,     \* who drives the cache, and how it was built
    cache,     \* the object
    half,      \* which half of the cycle comes next
    want,      \* what the client asks for
    served,    \* the answer of this cycle's ready()
    \* Bookkeeping for the properties; the code has none of these.
    waited,    \* ticks since the request being handled was looked up
    due,       \* ticks it needs, given the array at its lookup
    owed       \* lines stored to and not written back since

vars == <<setup, cache, half, want, served, waited, due, owed>>

NoRequest == [none |-> TRUE]

\* Fetch asks for a line on every cycle and never writes.
Requests == IF setup.client = "fetch" THEN [line : LineNo, write : {FALSE}]
                                      ELSE Request \cup {NoRequest}

LongestWait == 2 * cache.backing.latency + cache.hit_latency - 1

\* Every piece of state keeps to its type; in particular the timers never
\* leave their range, whatever sequence of calls drives them.
TypeOK ==
    /\ setup \in Setups
    /\ cache \in CacheState(setup.hit, setup.prefetch, setup.degree, setup.backing)
    /\ half \in {"evaluate", "latch"}
    /\ want \in Requests
    /\ served \in BOOLEAN
    /\ waited \in 0 .. LongestWait
    /\ due \in 0 .. LongestWait
    /\ owed \subseteq LineNo

Init ==
    /\ setup \in Setups
    /\ cache = NewCache(setup.hit, setup.prefetch, setup.degree, setup.backing)
    /\ half = "evaluate"
    /\ want \in Requests
    /\ served = FALSE
    /\ waited = 0
    /\ due = 0
    /\ owed = {}

-----------------------------------------------------------------------------
\* What the latencies say of an access that is looked up now, given what the
\* array holds: HitLatency, one BackingLatency more on a miss, a second one
\* to flush a dirty victim.
Cost(r) ==
    LET s == index_of(r.line)
        L == cache.backing.latency
    IN  cache.hit_latency - 1
          + (IF Resident(cache, r.line) THEN 0
             ELSE IF NeedsWriteBack(cache, s, choose_victim(cache, s)) THEN 2 * L
             ELSE L)

\* The client calls ready().
Call ==
    /\ half = "evaluate"
    /\ want # NoRequest
    /\ half' = "latch"
    /\ cache' = cache_ready(cache, want)
    /\ served' = cache_served(cache')
    /\ waited' = IF cache.phase = "Idle" THEN 0 ELSE waited
    /\ due' = IF cache.phase = "Idle" THEN Cost(want) ELSE due
    /\ owed' = IF served' /\ want.write THEN owed \cup {want.line} ELSE owed
    /\ UNCHANGED <<setup, want>>

\* The memory stage holds no load or store: ready() is not called.
NoCall ==
    /\ half = "evaluate"
    /\ want = NoRequest
    /\ half' = "latch"
    /\ UNCHANGED <<setup, cache, want, served, waited, due, owed>>

\* tick().  With it the client moves on: to anything once it was served, and
\* fetch also when EX redirects it while it waits.
Tick ==
    /\ half = "latch"
    /\ half' = "evaluate"
    /\ cache' = cache_tick(cache)
    /\ served' = FALSE
    /\ want' \in IF served \/ want = NoRequest \/ setup.client = "fetch"
                   THEN Requests ELSE {want}
    /\ waited' = IF cache'.phase = "Idle" THEN 0 ELSE waited + 1
    /\ due' = IF cache'.phase = "Idle" THEN 0 ELSE due
    /\ owed' = IF cache.phase = "WriteBack" /\ cache'.phase = "MissFetch"
                 THEN owed \ {cache.wb_line} ELSE owed
    /\ UNCHANGED setup

\* MEM stalls: the fetch stage is not latched and tick() not called.
Freeze ==
    /\ half = "latch"
    /\ setup.client = "fetch"
    /\ half' = "evaluate"
    /\ served' = FALSE
    /\ UNCHANGED <<setup, cache, want, waited, due, owed>>

Evaluate == Call \/ NoCall

Next == Evaluate \/ Tick \/ Freeze

(***************************************************************************)
(* Core::run() keeps calling tick(), and a MEM stall ends.                 *)
(***************************************************************************)
Fairness == WF_vars(Evaluate) /\ SF_vars(Tick)

Spec == Init /\ [][Next]_vars /\ Fairness

-----------------------------------------------------------------------------
Dirty(l) == \E w \in Ways_of(cache, l) : cache.lines[index_of(l)][w].dirty

\* A line is never in two ways of its set: neither a demand fill nor a
\* prefetch that waited in between installs a line that arrived meanwhile.
NoDuplicateLines == \A l \in LineNo : Cardinality(Ways_of(cache, l)) <= 1

\* A line that was stored to stays in the cache, and dirty, until its
\* write-back has been charged: no eviction path forgets one.
NoLostWriteback == \A l \in owed : Dirty(l)

\* Given the array at its lookup, an access costs without prefetching what
\* the latencies say, to the cycle, and with it never more: the engine uses
\* the backing memory only when no demand fill does, and a demand that finds
\* it at work inherits its progress.  (Which lines the engine has brought or
\* evicted before the lookup is not compared with a cache without one.)
\* It contradicts report.md, which has chained prefetches "occupy the
\* instruction-memory port ahead of a demand miss".
AccessCost ==
    served => /\ waited <= due
              /\ ~setup.prefetch => waited = due

\* Every line the engine takes up has exactly one outcome: it is dropped, or
\* counted, when used, merged with or evicted, as useful or as useless, once.
\* Still to come are those of the lines in the array nobody has used and of
\* the one in flight.
PrefetchAccounted ==
    cache.balance =
        Cardinality({ x \in Set \X Way :
            cache.lines[x[1]][x[2]].valid /\ cache.lines[x[1]][x[2]].prefetched })
        + (IF cache.pf.active THEN 1 ELSE 0)

\* The answer is about the line that was asked for: mem_interface.h has
\* ready() true "the cycle an access to addr is served".
ServedWasLookedUp == served => cache.cur.line = want.line

\* A held request of the memory stage is answered; the fetch port keeps
\* being answered, redirects, freezes and the engine notwithstanding.
KeepsServing ==
    /\ (setup.client = "memory" /\ want # NoRequest) ~> served
    /\ setup.client = "fetch" ~> served
=============================================================================
