----------------------------- MODULE CacheUnit -----------------------------
(***************************************************************************)
(* The timing overlay as an object: a set-associative write-back cache     *)
(* with an optional next-line prefetch engine over a FlatMem.  The object  *)
(* is the record of its members, and ready() and tick() are operators that *)
(* return the object afterwards; module Cache drives one from a client,    *)
(* module Core has one on each port.                                       *)
(*                                                                         *)
(* No data is held here, so an address is abstracted to the number of its  *)
(* line.                                                                   *)
(***************************************************************************)
EXTENDS TreePlru, MemTimer, Integers, FiniteSets

CONSTANTS
    NLines,    \* lines of the address space; it wraps around
    Sets       \* icache_sets / dcache_sets

ASSUME GeometryAssumption ==
    NLines \in Nat \ {0} /\ Sets \in Nat \ {0} /\ NLines % Sets = 0

LineNo == 0 .. (NLines - 1)
Set    == 0 .. (Sets - 1)
Tag    == 0 .. (NLines \div Sets - 1)

Line    == [valid : BOOLEAN, dirty : BOOLEAN, prefetched : BOOLEAN, tag : Tag]
Request == [line : LineNo, write : BOOLEAN]
Phases  == {"Idle", "HitWait", "WriteBack", "MissFetch", "PrefetchWait"}

\* The constructor.  balance stands for the two prefetch counters of
\* SimStats: lines the engine took up and did not drop, less the outcomes,
\* useful or useless, counted for them.
NewCache(hit_latency, prefetch, degree, backing_latency) ==
    [hit_latency |-> AtLeast1(hit_latency), prefetch |-> prefetch,
     degree |-> AtLeast1(degree),
     lines |-> [s \in Set |-> [w \in Way |->
        [valid |-> FALSE, dirty |-> FALSE, prefetched |-> FALSE, tag |-> 0]]],
     plru |-> [s \in Set |-> PlruInit],
     phase |-> "Idle", cur |-> [line |-> 0, write |-> FALSE],
     victim_way |-> 0, wb_line |-> 0, hit_remaining |-> 0,
     pf |-> [active |-> FALSE, line |-> 0, way |-> 0, chain |-> 0],
     balance |-> 0,
     backing |-> NewMem(backing_latency)]

\* The states of a cache built with these parameters.
CacheState(hit_latency, prefetch, degree, backing_latency) ==
    [hit_latency : {AtLeast1(hit_latency)}, prefetch : {prefetch},
     degree : {AtLeast1(degree)},
     lines : [Set -> [Way -> Line]],
     plru : [Set -> PlruBits],
     phase : Phases, cur : Request,
     victim_way : Way, wb_line : LineNo,
     hit_remaining : 0 .. (AtLeast1(hit_latency) - 1),
     pf : [active : BOOLEAN, line : LineNo, way : Way, chain : 0 .. AtLeast1(degree)],
     balance : Int,
     backing : MemState(backing_latency)]

-----------------------------------------------------------------------------
index_of(l) == l % Sets
tag_of(l)   == l \div Sets
addr_of(s, tag) == tag * Sets + s

next_line(l) == (l + 1) % NLines      \* SequentialPrefetch::next()

\* The ways that hold line l.
Ways_of(c, l) == { w \in Way : /\ c.lines[index_of(l)][w].valid
                               /\ c.lines[index_of(l)][w].tag = tag_of(l) }

Resident(c, l) == Ways_of(c, l) # {}

Lowest(S) == CHOOSE w \in S : \A v \in S : w <= v

find_way(c, l) == Lowest(Ways_of(c, l))

choose_victim(c, s) ==
    LET empty == { w \in Way : ~c.lines[s][w].valid }
    IN  IF empty # {} THEN Lowest(empty) ELSE victim(c.plru[s])

NeedsWriteBack(c, s, w) == c.lines[s][w].valid /\ c.lines[s][w].dirty

\* Faulty install_line(): a store miss installs its line clean.
install_line_clean(c, l, w, is_write, from_prefetch) ==
    LET s == index_of(l)
    IN  [c EXCEPT !.lines[s][w] = [valid |-> TRUE, dirty |-> FALSE,
                                   prefetched |-> from_prefetch, tag |-> tag_of(l)],
                  !.plru[s] = touch(@, w)]

\* install_line(): an unused prefetched line that is overwritten counts as
\* useless.
install_line(c, l, w, is_write, from_prefetch) ==
    LET s      == index_of(l)
        unused == c.lines[s][w].valid /\ c.lines[s][w].prefetched
    IN  [c EXCEPT !.lines[s][w] = [valid |-> TRUE, dirty |-> is_write,
                                   prefetched |-> from_prefetch, tag |-> tag_of(l)],
                  !.plru[s] = touch(@, w),
                  !.balance = @ - (IF unused THEN 1 ELSE 0)]

(***************************************************************************)
(* The prefetch engine.                                                    *)
(***************************************************************************)
\* Faulty engine: it does not look whether the line is there already.
Queued_blindly(c, target, chain) ==
    LET s == index_of(target)
        w == choose_victim(c, s)
    IN  IF NeedsWriteBack(c, s, w) THEN c
        ELSE [c EXCEPT !.pf = [active |-> TRUE, line |-> target, way |-> w,
                               chain |-> chain],
                       !.balance = @ + 1]

\* The engine considers target: it is queued, unless it is resident or its
\* victim is dirty.
Queued(c, target, chain) ==
    LET s == index_of(target)
        w == choose_victim(c, s)
    IN  IF Resident(c, target) \/ NeedsWriteBack(c, s, w) THEN c
        ELSE [c EXCEPT !.pf = [active |-> TRUE, line |-> target, way |-> w,
                               chain |-> chain],
                       !.balance = @ + 1]

maybe_start_prefetch(c, l) ==
    IF ~c.prefetch \/ c.pf.active THEN c ELSE Queued(c, next_line(l), 1)

\* The cache has asked its backing memory; then tick() of that memory.
Asked(c)   == [c EXCEPT !.backing = mem_ready(@)]
Got(c)     == mem_served(mem_ready(c.backing))
Clocked(c) == [c EXCEPT !.backing = mem_tick(@)]

\* The engine takes a cycle of the backing memory, and on completion goes on
\* to the next line of its chain.
service_prefetch(c) ==
    LET done == [install_line(Asked(c), c.pf.line, c.pf.way, FALSE, TRUE)
                   EXCEPT !.pf.active = FALSE]
    IN  IF ~c.pf.active THEN c
        ELSE Clocked(IF ~Got(c) THEN Asked(c)
                     ELSE IF c.pf.chain < c.degree
                       THEN Queued(done, next_line(c.pf.line), c.pf.chain + 1)
                       ELSE done)

-----------------------------------------------------------------------------
(***************************************************************************)
(* ready(): out of Idle the line is looked up; in every other phase the    *)
(* address is not looked at.                                               *)
(***************************************************************************)
\* A line after its use.
Used(x, write) == [x EXCEPT !.dirty = @ \/ write, !.prefetched = FALSE]

Hit(c, r) ==
    LET s == index_of(r.line)
        w == find_way(c, r.line)
    IN  [c EXCEPT !.lines[s][w] = Used(@, r.write),
                  !.balance = @ - (IF c.lines[s][w].prefetched THEN 1 ELSE 0),
                  !.plru[s] = touch(@, w),
                  !.phase = "HitWait",
                  !.hit_remaining = c.hit_latency - 1]

\* A miss on the line the engine is fetching, or has just queued.
Merge(c) == [c EXCEPT !.victim_way = c.pf.way, !.phase = "PrefetchWait"]

\* Any other miss.  A prefetch into the way the demand takes is dropped.
Miss(c, r) ==
    LET s     == index_of(r.line)
        w     == choose_victim(c, s)
        flush == NeedsWriteBack(c, s, w)
        drop  == c.pf.active /\ index_of(c.pf.line) = s /\ c.pf.way = w
    IN  [c EXCEPT !.pf.active = @ /\ ~drop,
                  !.balance = @ - (IF drop THEN 1 ELSE 0),
                  !.victim_way = w,
                  !.wb_line = IF flush THEN addr_of(s, c.lines[s][w].tag) ELSE @,
                  !.phase = IF flush THEN "WriteBack" ELSE "MissFetch"]

cache_ready(c, r) ==
    LET looked == maybe_start_prefetch([c EXCEPT !.cur = r], r.line)
    IN  IF c.phase # "Idle"        THEN c
        ELSE IF Resident(c, r.line) THEN Hit(looked, r)
        ELSE IF looked.pf.active /\ looked.pf.line = r.line THEN Merge(looked)
        ELSE Miss(looked, r)

\* What that call of ready() returned.
cache_served(c) == c.phase = "HitWait" /\ c.hit_remaining = 0

(***************************************************************************)
(* tick(), phase by phase.                                                 *)
(***************************************************************************)
\* Faulty countdown: past zero.
HitWaitTick_past_zero(c) ==
    service_prefetch([c EXCEPT !.phase = IF c.hit_remaining > 0 THEN @ ELSE "Idle",
                               !.hit_remaining = @ - 1])

\* Count the hit latency down, then release the request.
HitWaitTick(c) ==
    service_prefetch([c EXCEPT !.phase = IF c.hit_remaining > 0 THEN @ ELSE "Idle",
                               !.hit_remaining = IF @ > 0 THEN @ - 1 ELSE 0])

\* Flush the dirty victim, then go on to the fetch.
WriteBackTick(c) ==
    Clocked([Asked(c) EXCEPT !.phase = IF Got(c) THEN "MissFetch" ELSE @])

\* Faulty fill: a merged prefetch is not counted.
FillTick_uncounted(c) ==
    LET filled == install_line(Asked(c), c.cur.line, c.victim_way, c.cur.write, FALSE)
    IN  Clocked(IF ~Got(c) THEN Asked(c)
                ELSE [filled EXCEPT !.pf.active = @ /\ c.phase # "PrefetchWait",
                                    !.phase = "HitWait",
                                    !.hit_remaining = c.hit_latency - 1])

\* Both kinds of fill: drive the backing memory until it serves the line.
\* A merged one ends the prefetch too, which counts as useful.
FillTick(c) ==
    LET filled == install_line(Asked(c), c.cur.line, c.victim_way, c.cur.write, FALSE)
        merged == c.phase = "PrefetchWait"
    IN  Clocked(IF ~Got(c) THEN Asked(c)
                ELSE [filled EXCEPT !.pf.active = @ /\ ~merged,
                                    !.balance = @ - (IF merged THEN 1 ELSE 0),
                                    !.phase = "HitWait",
                                    !.hit_remaining = c.hit_latency - 1])

cache_tick(c) ==
    CASE c.phase = "Idle"      -> service_prefetch(c)
      [] c.phase = "HitWait"   -> HitWaitTick(c)
      [] c.phase = "WriteBack" -> WriteBackTick(c)
      [] c.phase \in {"MissFetch", "PrefetchWait"} -> FillTick(c)
=============================================================================
