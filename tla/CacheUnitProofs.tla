-------------------------- MODULE CacheUnitProofs --------------------------
(***************************************************************************)
(* Lemmas about the cache and the memory timer as objects: what ready()    *)
(* and tick() preserve, for every geometry and all latencies.  CacheProofs *)
(* and CoreProofs rest on them.                                            *)
(***************************************************************************)
EXTENDS CacheUnit, TreePlruProofs

-----------------------------------------------------------------------------
(***************************************************************************)
(* Addresses.                                                              *)
(***************************************************************************)

\* The constants in the form the provers use.
LEMMA Geometry ==
    /\ NLines \in Nat /\ NLines >= 1 /\ Sets \in Nat /\ Sets >= 1
    /\ NLines \div Sets \in Nat
    /\ NLines = (NLines \div Sets) * Sets
    /\ NLines \div Sets >= 1
<1>1. \A n, k \in Nat : (k >= 1 /\ n >= 1 /\ n % k = 0)
        => n \div k \in Nat /\ n = (n \div k) * k /\ n \div k >= 1
  OBVIOUS
<1> QED BY <1>1, GeometryAssumption

\* The values members are initialized with are in range.
LEMMA Zeroes == 0 \in LineNo /\ 0 \in Way /\ 0 \in Tag /\ 0 \in Set
BY Geometry, WaysPositive DEF LineNo, Way, Tag, Set

\* Index and tag of a line are in range and determine it.
LEMMA IndexTag ==
    ASSUME NEW l \in LineNo
    PROVE  index_of(l) \in Set /\ tag_of(l) \in Tag /\ next_line(l) \in LineNo
           /\ addr_of(index_of(l), tag_of(l)) = l
<1> DEFINE K == NLines \div Sets
<1>0. /\ l \in Nat /\ NLines \in Nat /\ NLines >= 1 /\ Sets \in Nat /\ Sets >= 1
      /\ K \in Nat /\ NLines = K * Sets /\ l < NLines
  BY Geometry DEF LineNo
<1> HIDE DEF K
<1>1. \A x, k, n \in Nat : (k >= 1 /\ x < n * k)
        => /\ x % k \in 0 .. (k - 1) /\ x \div k \in Nat /\ x \div k < n
           /\ (x \div k) * k + (x % k) = x
  OBVIOUS
<1>2. /\ l % Sets \in 0 .. (Sets - 1) /\ l \div Sets \in Nat /\ l \div Sets < K
      /\ (l \div Sets) * Sets + (l % Sets) = l
  BY <1>0, <1>1
<1>3. \A x, n \in Nat : n >= 1 => (x + 1) % n \in 0 .. (n - 1)
  OBVIOUS
<1>4. next_line(l) \in LineNo
  BY <1>0, <1>3 DEF next_line, LineNo
<1> QED BY <1>0, <1>2, <1>4 DEF index_of, tag_of, Set, Tag, K, addr_of

\* Set and tag name a line, and only that one.
LEMMA AddrOf ==
    ASSUME NEW s \in Set, NEW t \in Tag
    PROVE  /\ addr_of(s, t) \in LineNo
           /\ index_of(addr_of(s, t)) = s
           /\ tag_of(addr_of(s, t)) = t
<1> DEFINE K == NLines \div Sets
<1>0. /\ NLines \in Nat /\ Sets \in Nat /\ Sets >= 1 /\ K \in Nat /\ NLines = K * Sets
      /\ s \in Nat /\ s < Sets /\ t \in Nat /\ t + 1 <= K
  BY Geometry DEF Set, Tag
<1> HIDE DEF K
<1>1. \A m, n, k \in Nat : m + 1 <= n => m * k + k <= n * k
  <2> SUFFICES ASSUME NEW m \in Nat, NEW n \in Nat, NEW k \in Nat, m + 1 <= n
               PROVE  m * k + k <= n * k
    OBVIOUS
  <2>1. (m + 1) * k <= n * k
    OBVIOUS
  <2> QED BY <2>1
<1>2. t * Sets + Sets <= NLines
  BY <1>0, <1>1
<1>3. t * Sets \in Nat
  BY <1>0
<1>4. \A x, k, r \in Nat : r < k => (x * k + r) % k = r /\ (x * k + r) \div k = x
  OBVIOUS
<1>5. (t * Sets + s) % Sets = s /\ (t * Sets + s) \div Sets = t
  BY <1>0, <1>4
<1> QED BY <1>0, <1>2, <1>3, <1>5 DEF addr_of, LineNo, index_of, tag_of

-----------------------------------------------------------------------------
(***************************************************************************)
(* The memory timer.                                                       *)
(***************************************************************************)

\* A clamped latency is positive.
LEMMA AtLeast1Type == \A n \in Nat : AtLeast1(n) \in Nat /\ AtLeast1(n) >= 1
BY DEF AtLeast1

\* Both calls of the timer keep it in range.
LEMMA MemTypes ==
    ASSUME NEW b \in Nat, NEW m \in MemState(b)
    PROVE  /\ mem_ready(m) \in MemState(b)
           /\ mem_tick(m) \in MemState(b)
           /\ m.latency = AtLeast1(b) /\ m.latency \in Nat /\ m.latency >= 1
           /\ m.remaining \in 0 .. (m.latency - 1)
           /\ m.serving \in BOOLEAN
           /\ NewMem(b) \in MemState(b)
<1> DEFINE L == AtLeast1(b)
<1>1. L \in Nat /\ L >= 1
  BY AtLeast1Type
<1>2. /\ m \in [latency : {L}, serving : BOOLEAN, remaining : 0 .. (L - 1)]
      /\ m.latency = L /\ m.remaining \in 0 .. (L - 1) /\ m.serving \in BOOLEAN
  BY DEF MemState
<1> HIDE DEF L
<1>3. mem_ready(m) \in [latency : {L}, serving : BOOLEAN, remaining : 0 .. (L - 1)]
  <2>1. CASE m.serving
    BY <1>2, <2>1 DEF mem_ready
  <2>2. CASE ~m.serving
    <3>1. mem_ready(m) = [m EXCEPT !.serving = TRUE, !.remaining = m.latency - 1]
      BY <2>2 DEF mem_ready
    <3>2. m.latency - 1 \in 0 .. (L - 1)
      BY <1>1, <1>2
    <3> QED BY <1>2, <3>1, <3>2
  <2> QED BY <2>1, <2>2
<1>4. mem_tick(m) \in [latency : {L}, serving : BOOLEAN, remaining : 0 .. (L - 1)]
  <2>1. CASE ~m.serving
    BY <1>2, <2>1 DEF mem_tick
  <2>2. CASE m.serving /\ m.remaining > 0
    <3>1. mem_tick(m) = [m EXCEPT !.remaining = m.remaining - 1]
      BY <2>2 DEF mem_tick
    <3>2. m.remaining - 1 \in 0 .. (L - 1)
      BY <1>1, <1>2, <2>2
    <3> QED BY <1>2, <3>1, <3>2
  <2>3. CASE m.serving /\ ~(m.remaining > 0)
    <3>1. mem_tick(m) = [m EXCEPT !.serving = FALSE]
      BY <2>3 DEF mem_tick
    <3> QED BY <1>2, <3>1
  <2> QED BY <2>1, <2>2, <2>3
<1>5. NewMem(b) \in [latency : {L}, serving : BOOLEAN, remaining : 0 .. (L - 1)]
  BY <1>1 DEF NewMem, L
<1> QED BY <1>1, <1>2, <1>3, <1>4, <1>5 DEF MemState, L

-----------------------------------------------------------------------------
(***************************************************************************)
(* The states of a cache.                                                  *)
(***************************************************************************)

\* The lowest of a set of ways is one of them.
LEMMA LowestIn ==
    ASSUME NEW S \in SUBSET Way, S # {} PROVE Lowest(S) \in S
<1>1. S \in SUBSET Nat
  BY WaysPositive DEF Way
<1>2. \E w \in S : \A v \in S : w <= v
  BY <1>1, LeastNatural
<1> QED BY <1>2 DEF Lowest

\* find_way() of a resident line is a way that holds it.
LEMMA FindWay ==
    ASSUME NEW c, NEW l, Resident(c, l)
    PROVE  find_way(c, l) \in Ways_of(c, l) /\ find_way(c, l) \in Way
<1>1. Ways_of(c, l) \in SUBSET Way
  BY DEF Ways_of
<1> QED BY <1>1, LowestIn DEF find_way, Resident

\* The parameters of a cache, and the states of one built with them.
Parameters(k) == /\ k.hit \in Nat /\ k.prefetch \in BOOLEAN
                 /\ k.degree \in Nat /\ k.backing \in Nat

Built(k) == CacheState(k.hit, k.prefetch, k.degree, k.backing)

\* The constructor makes a well-formed cache.
LEMMA NewCacheType ==
    ASSUME NEW k, Parameters(k)
    PROVE  NewCache(k.hit, k.prefetch, k.degree, k.backing) \in Built(k)
<1> DEFINE h == k.hit  p == k.prefetch  d == k.degree  b == k.backing
<1>0. h \in Nat /\ p \in BOOLEAN /\ d \in Nat /\ b \in Nat
  BY DEF Parameters
<1> HIDE DEF h, p, d, b
<1>1. NewMem(b) \in MemState(b)
  <2>1. AtLeast1(b) \in Nat /\ AtLeast1(b) >= 1
    BY <1>0, AtLeast1Type
  <2> QED BY <2>1 DEF NewMem, MemState
<1>2. 0 \in 0 .. (AtLeast1(h) - 1) /\ 0 \in 0 .. AtLeast1(d)
  BY <1>0, AtLeast1Type
<1>3. NewCache(h, p, d, b) \in CacheState(h, p, d, b)
  BY <1>0, <1>1, <1>2, Zeroes, InitBits DEF NewCache, CacheState, Phases, Request, Line
<1> QED BY <1>3 DEF Built, h, p, d, b

\* What the state of a cache says of each of its members.
LEMMA Members ==
    ASSUME NEW k, Parameters(k), NEW c \in Built(k)
    PROVE  /\ c.hit_latency = AtLeast1(k.hit) /\ c.hit_latency \in Nat /\ c.hit_latency >= 1
           /\ c.prefetch = k.prefetch /\ c.prefetch \in BOOLEAN
           /\ c.degree = AtLeast1(k.degree) /\ c.degree \in Nat /\ c.degree >= 1
           /\ c.lines \in [Set -> [Way -> Line]]
           /\ c.plru \in [Set -> PlruBits]
           /\ c.phase \in Phases
           /\ c.cur \in Request /\ c.cur.line \in LineNo /\ c.cur.write \in BOOLEAN
           /\ c.victim_way \in Way /\ c.wb_line \in LineNo
           /\ c.hit_remaining \in 0 .. (c.hit_latency - 1)
           /\ c.pf \in [active : BOOLEAN, line : LineNo, way : Way, chain : 0 .. c.degree]
           /\ c.pf.active \in BOOLEAN /\ c.pf.line \in LineNo /\ c.pf.way \in Way
           /\ c.pf.chain \in 0 .. c.degree
           /\ c.balance \in Int
           /\ c.backing \in MemState(k.backing)
           /\ c.backing.latency = AtLeast1(k.backing)
           /\ c.backing.latency \in Nat /\ c.backing.latency >= 1
           /\ c.backing.remaining \in 0 .. (c.backing.latency - 1)
           /\ c.backing.serving \in BOOLEAN
<1>1. /\ AtLeast1(k.hit) \in Nat /\ AtLeast1(k.hit) >= 1
      /\ AtLeast1(k.degree) \in Nat /\ AtLeast1(k.degree) >= 1
  BY AtLeast1Type DEF Parameters
<1>2. c \in CacheState(k.hit, k.prefetch, k.degree, k.backing)
  BY DEF Built
<1>3. k.backing \in Nat /\ c.backing \in MemState(k.backing)
  BY <1>2 DEF CacheState, Parameters
<1>4. /\ c.hit_latency = AtLeast1(k.hit)
      /\ c.prefetch = k.prefetch /\ k.prefetch \in BOOLEAN
      /\ c.degree = AtLeast1(k.degree)
  BY <1>2 DEF CacheState, Parameters
<1>5. /\ c.lines \in [Set -> [Way -> Line]]
      /\ c.plru \in [Set -> PlruBits]
      /\ c.phase \in Phases
      /\ c.cur \in Request /\ c.cur.line \in LineNo /\ c.cur.write \in BOOLEAN
      /\ c.victim_way \in Way /\ c.wb_line \in LineNo
      /\ c.hit_remaining \in 0 .. (AtLeast1(k.hit) - 1)
      /\ c.balance \in Int
  BY <1>2 DEF CacheState, Request
<1>6. c.pf \in [active : BOOLEAN, line : LineNo, way : Way, chain : 0 .. AtLeast1(k.degree)]
  BY <1>2 DEF CacheState
<1>7. /\ c.pf.active \in BOOLEAN /\ c.pf.line \in LineNo /\ c.pf.way \in Way
      /\ c.pf.chain \in 0 .. AtLeast1(k.degree)
  BY <1>6
<1> QED BY <1>1, <1>3, <1>4, <1>5, <1>6, <1>7, MemTypes

\* The way to fill is one of the set.
LEMMA VictimType ==
    ASSUME NEW k, Parameters(k), NEW c \in Built(k), NEW s \in Set
    PROVE  choose_victim(c, s) \in Way
<1> DEFINE empty == { w \in Way : ~c.lines[s][w].valid }
<1>1. CASE empty # {}
  <2>1. empty \in SUBSET Way
    OBVIOUS
  <2>2. Lowest(empty) \in Way
    BY <1>1, <2>1, LowestIn
  <2> QED BY <1>1, <2>2 DEF choose_victim
<1>2. CASE empty = {}
  <2>1. c.plru[s] \in PlruBits
    BY Members
  <2> QED BY <1>2, <2>1, VictimIsWay DEF choose_victim
<1> QED BY <1>1, <1>2

-----------------------------------------------------------------------------
(***************************************************************************)
(* What each operation leaves, member by member.                           *)
(***************************************************************************)

\* Two states of a cache that differ at most in the members the port uses.
SameParameters(c, e) ==
    e.hit_latency = c.hit_latency /\ e.prefetch = c.prefetch /\ e.degree = c.degree

\* The outcomes owed to lines that have arrived.
Owing(c) == c.balance - (IF c.pf.active THEN 1 ELSE 0)

SameArray(c, e) == e.lines = c.lines /\ e.plru = c.plru /\ Owing(e) = Owing(c)

SameRequest(c, e) == /\ e.phase = c.phase /\ e.cur = c.cur
                     /\ e.victim_way = c.victim_way /\ e.wb_line = c.wb_line
                     /\ e.hit_remaining = c.hit_remaining

\* Asking and clocking memory changes the timer only.
LEMMA BackingSteps ==
    ASSUME NEW k, Parameters(k), NEW c \in Built(k)
    PROVE  /\ Asked(c) \in Built(k) /\ Asked(c).backing = mem_ready(c.backing)
           /\ SameParameters(c, Asked(c)) /\ SameArray(c, Asked(c))
           /\ SameRequest(c, Asked(c)) /\ Asked(c).pf = c.pf
           /\ Clocked(c) \in Built(k) /\ Clocked(c).backing = mem_tick(c.backing)
           /\ SameParameters(c, Clocked(c)) /\ SameArray(c, Clocked(c))
           /\ SameRequest(c, Clocked(c)) /\ Clocked(c).pf = c.pf
<1>1. c \in CacheState(k.hit, k.prefetch, k.degree, k.backing)
  BY DEF Built
<1>2. /\ mem_ready(c.backing) \in MemState(k.backing)
      /\ mem_tick(c.backing) \in MemState(k.backing)
  BY <1>1, Members, MemTypes DEF Parameters
<1>3. /\ Asked(c) = [c EXCEPT !.backing = mem_ready(c.backing)]
      /\ Clocked(c) = [c EXCEPT !.backing = mem_tick(c.backing)]
  BY DEF Asked, Clocked
<1>4. ASSUME NEW m \in MemState(k.backing), NEW e, e = [c EXCEPT !.backing = m]
      PROVE  /\ e \in Built(k) /\ e.backing = m
             /\ SameParameters(c, e) /\ SameArray(c, e)
             /\ SameRequest(c, e) /\ e.pf = c.pf
  <2>1. e \in Built(k)
    BY <1>1, <1>4 DEF Built, CacheState
  <2> QED BY <1>1, <1>4, <2>1
          DEF CacheState, SameParameters, SameArray, SameRequest, Owing
<1> QED BY <1>2, <1>3, <1>4

\* A line as install_line() leaves it.
Installed(l, dirty, pf) ==
    [valid |-> TRUE, dirty |-> dirty, prefetched |-> pf, tag |-> tag_of(l)]

\* One, if what is overwritten was prefetched for nothing.
Wasted(c, s, w) == IF c.lines[s][w].valid /\ c.lines[s][w].prefetched THEN 1 ELSE 0

\* install_line() overwrites one entry, touches its tree and changes no more.
LEMMA InstallSteps ==
    ASSUME NEW k, Parameters(k), NEW c \in Built(k),
           NEW l \in LineNo, NEW w \in Way, NEW dirty, NEW pf,
           Installed(l, dirty, pf) \in Line
    PROVE  LET e == install_line(c, l, w, dirty, pf)
               s == index_of(l)
           IN  /\ e \in Built(k)
               /\ SameParameters(c, e) /\ SameRequest(c, e)
               /\ e.pf = c.pf /\ e.backing = c.backing
               /\ e.lines = [c.lines EXCEPT ![s][w] = Installed(l, dirty, pf)]
               /\ e.balance = c.balance - Wasted(c, s, w)
<1> DEFINE s == index_of(l)
           new == Installed(l, dirty, pf)
           less == Wasted(c, s, w)
           e == install_line(c, l, w, dirty, pf)
<1>0. c \in CacheState(k.hit, k.prefetch, k.degree, k.backing)
  BY DEF Built
<1>1. s \in Set /\ new \in Line
  BY IndexTag
<1>2. less \in Int
  BY DEF Wasted
<1>3. touch(c.plru[s], w) \in PlruBits
  BY <1>1, Members, TouchType
<1>4. e = [c EXCEPT !.lines[s][w] = new, !.plru[s] = touch(c.plru[s], w),
                    !.balance = c.balance - less]
  BY DEF install_line, Installed, Wasted
<1> HIDE DEF s, new, less, e
<1>5. /\ [c.lines EXCEPT ![s][w] = new] \in [Set -> [Way -> Line]]
      /\ [c.plru EXCEPT ![s] = touch(c.plru[s], w)] \in [Set -> PlruBits]
      /\ c.balance - less \in Int
  BY <1>1, <1>2, <1>3, Members
<1>6. e \in Built(k)
  BY <1>0, <1>4, <1>5 DEF CacheState, Built
<1>7. /\ SameParameters(c, e) /\ SameRequest(c, e)
      /\ e.pf = c.pf /\ e.backing = c.backing
      /\ e.lines = [c.lines EXCEPT ![s][w] = new]
      /\ e.balance = c.balance - less
  BY <1>0, <1>4 DEF CacheState, SameParameters, SameRequest
<1> QED BY <1>6, <1>7 DEF e, s, new, less

\* The engine queues a line that is not there, and changes nothing else.
LEMMA QueueSteps ==
    ASSUME NEW k, Parameters(k), NEW c \in Built(k),
           NEW t \in LineNo, NEW chain \in 0 .. c.degree, ~c.pf.active
    PROVE  LET e == Queued(c, t, chain)
           IN  /\ e \in Built(k)
               /\ SameParameters(c, e) /\ SameArray(c, e) /\ SameRequest(c, e)
               /\ e.backing = c.backing
               /\ \/ e.pf = c.pf
                  \/ e.pf.active /\ e.pf.line = t /\ ~Resident(c, t)
<1> DEFINE w == choose_victim(c, index_of(t))
           e == Queued(c, t, chain)
           pf == [active |-> TRUE, line |-> t, way |-> w, chain |-> chain]
<1>0. c \in CacheState(k.hit, k.prefetch, k.degree, k.backing)
  BY DEF Built
<1>1. CASE Resident(c, t) \/ NeedsWriteBack(c, index_of(t), w)
  <2>1. e = c
    BY <1>1 DEF Queued
  <2> QED BY <2>1 DEF SameParameters, SameArray, SameRequest
<1>2. CASE ~(Resident(c, t) \/ NeedsWriteBack(c, index_of(t), w))
  <2>1. e = [c EXCEPT !.pf = pf, !.balance = c.balance + 1]
    BY <1>2 DEF Queued
  <2>2. w \in Way
    BY VictimType, IndexTag
  <2> HIDE DEF w, e
  <2>3. pf \in [active : BOOLEAN, line : LineNo, way : Way, chain : 0 .. AtLeast1(k.degree)]
    BY <2>2, Members
  <2>4. pf.active /\ pf.line = t
    OBVIOUS
  <2> HIDE DEF pf
  <2>5. c.balance \in Int /\ c.balance + 1 \in Int
    BY Members
  <2>6. e \in Built(k)
    BY <1>0, <2>1, <2>3, <2>5 DEF CacheState, Built
  <2>7. /\ SameParameters(c, e) /\ SameRequest(c, e)
        /\ e.lines = c.lines /\ e.plru = c.plru
        /\ e.backing = c.backing /\ e.pf = pf /\ e.balance = c.balance + 1
    BY <1>0, <2>1 DEF CacheState, SameParameters, SameRequest
  <2>8. SameArray(c, e)
    BY <2>4, <2>5, <2>7 DEF SameArray, Owing
  <2> QED BY <1>2, <2>4, <2>6, <2>7, <2>8 DEF e
<1> QED BY <1>1, <1>2

\* A lookup sets the request and may queue the next line.
Looked(c, r) == maybe_start_prefetch([c EXCEPT !.cur = r], r.line)

\* Noting a request and queueing a prefetch change the request and the engine
\* only.
LEMMA LookSteps ==
    ASSUME NEW k, Parameters(k), NEW c \in Built(k), NEW r \in Request
    PROVE  LET e == Looked(c, r)
           IN  /\ e \in Built(k)
               /\ SameParameters(c, e) /\ SameArray(c, e)
               /\ e.cur = r /\ e.phase = c.phase /\ e.wb_line = c.wb_line
               /\ e.victim_way = c.victim_way /\ e.hit_remaining = c.hit_remaining
               /\ e.backing = c.backing
               /\ \/ e.pf = c.pf
                  \/ e.pf.active /\ c.prefetch /\ ~Resident(c, e.pf.line)
<1> DEFINE f == [c EXCEPT !.cur = r]
           e == Looked(c, r)
<1>0. c \in CacheState(k.hit, k.prefetch, k.degree, k.backing)
  BY DEF Built
<1>1. f \in Built(k)
  BY <1>0 DEF CacheState, Built
<1>2. /\ SameParameters(c, f) /\ SameArray(c, f) /\ f.cur = r /\ f.phase = c.phase
      /\ f.wb_line = c.wb_line /\ f.victim_way = c.victim_way /\ f.pf = c.pf
      /\ f.hit_remaining = c.hit_remaining /\ f.backing = c.backing
  BY <1>0 DEF CacheState, SameParameters, SameArray, Owing
<1>3. r.line \in LineNo
  BY DEF Request
<1> HIDE DEF f
<1>4. CASE ~f.prefetch \/ f.pf.active
  <2>1. e = f
    BY <1>4 DEF maybe_start_prefetch, Looked, f
  <2> QED BY <1>1, <1>2, <2>1
<1>5. CASE ~(~f.prefetch \/ f.pf.active)
  <2>1. e = Queued(f, next_line(r.line), 1)
    BY <1>5 DEF maybe_start_prefetch, Looked, f
  <2>2. next_line(r.line) \in LineNo /\ 1 \in 0 .. f.degree
    BY <1>1, <1>3, IndexTag, Members
  <2>3. \A l : Resident(f, l) <=> Resident(c, l)
    BY <1>2 DEF Resident, Ways_of, SameArray
  <2>4. /\ e \in Built(k)
        /\ SameParameters(f, e) /\ SameArray(f, e) /\ SameRequest(f, e)
        /\ e.backing = f.backing
        /\ \/ e.pf = f.pf
           \/ e.pf.active /\ e.pf.line = next_line(r.line)
              /\ ~Resident(f, next_line(r.line))
    BY <1>1, <1>5, <2>1, <2>2, QueueSteps
  <2>5. f.prefetch
    BY <1>5
  <2> QED BY <1>2, <2>3, <2>4, <2>5 DEF SameParameters, SameArray, SameRequest
<1> QED BY <1>4, <1>5

\* The memory behind the cache after it was asked and clocked.
Driven(c) == mem_tick(mem_ready(c.backing))

\* The engine, when it has a line to fetch.
LEMMA ServiceSteps ==
    ASSUME NEW k, Parameters(k), NEW c \in Built(k)
    PROVE  LET e == service_prefetch(c)
               s == index_of(c.pf.line)
               w == c.pf.way
           IN  /\ e \in Built(k)
               /\ SameParameters(c, e) /\ SameRequest(c, e)
               /\ ~c.pf.active => e = c
               /\ c.pf.active => e.backing = Driven(c)
               /\ (c.pf.active /\ ~Got(c)) => SameArray(c, e) /\ e.pf = c.pf
               /\ (c.pf.active /\ Got(c)) =>
                    /\ e.lines = [c.lines EXCEPT ![s][w] = Installed(c.pf.line, FALSE, TRUE)]
                    /\ Owing(e) = Owing(c) - Wasted(c, s, w) + 1
                    /\ e.pf.active => ~Resident(e, e.pf.line)
<1> DEFINE s == index_of(c.pf.line)
           w == c.pf.way
           e == service_prefetch(c)
           a == Asked(c)
           no == FALSE
           yes == TRUE
           i == install_line(a, c.pf.line, w, no, yes)
           done == [i EXCEPT !.pf.active = FALSE]
<1>1. CASE ~c.pf.active
  <2>1. e = c
    BY <1>1 DEF service_prefetch
  <2> QED BY <1>1, <2>1 DEF SameParameters, SameRequest
<1>2. /\ a \in Built(k) /\ a.backing = mem_ready(c.backing)
      /\ SameParameters(c, a) /\ SameArray(c, a) /\ SameRequest(c, a) /\ a.pf = c.pf
  BY BackingSteps
<1>3. CASE c.pf.active /\ ~Got(c)
  <2>1. e = Clocked(a)
    BY <1>3 DEF service_prefetch
  <2> HIDE DEF a, e
  <2>2. /\ e \in Built(k) /\ e.backing = mem_tick(a.backing)
        /\ SameParameters(a, e) /\ SameArray(a, e) /\ SameRequest(a, e) /\ e.pf = a.pf
    BY <1>2, <2>1, BackingSteps
  <2> QED BY <1>2, <1>3, <2>2
          DEF SameParameters, SameArray, SameRequest, Driven, e
<1>4. CASE c.pf.active /\ Got(c)
  <2> DEFINE f == IF c.pf.chain < c.degree
                    THEN Queued(done, next_line(c.pf.line), c.pf.chain + 1) ELSE done
  <2>1. e = Clocked(f)
    BY <1>4 DEF service_prefetch
  <2>2. c.pf.line \in LineNo /\ w \in Way /\ Installed(c.pf.line, no, yes) \in Line
    BY Members, IndexTag DEF Installed, Line
  <2> HIDE DEF a, no, yes
  <2>3. /\ i \in Built(k)
        /\ SameParameters(a, i) /\ SameRequest(a, i)
        /\ i.pf = a.pf /\ i.backing = a.backing
        /\ i.lines = [a.lines EXCEPT ![s][w] = Installed(c.pf.line, no, yes)]
        /\ i.balance = a.balance - Wasted(a, s, w)
    BY <1>2, <2>2, InstallSteps
  <2> HIDE DEF i
  <2>4. i \in CacheState(k.hit, k.prefetch, k.degree, k.backing)
    BY <2>3 DEF Built
  <2>5. i.pf \in [active : BOOLEAN, line : LineNo, way : Way, chain : 0 .. AtLeast1(k.degree)]
    BY <2>4 DEF CacheState
  <2>6. i.balance \in Int /\ a.balance \in Int /\ Wasted(a, s, w) \in Int
    BY <1>2, <2>3, Members DEF Wasted
  <2>7. done = [i EXCEPT !.pf = [i.pf EXCEPT !.active = FALSE]]
    BY <2>4, <2>5 DEF CacheState
  <2>8. /\ [i.pf EXCEPT !.active = FALSE] \in
             [active : BOOLEAN, line : LineNo, way : Way, chain : 0 .. AtLeast1(k.degree)]
        /\ [i.pf EXCEPT !.active = FALSE].active = FALSE
    BY <2>5
  <2> HIDE DEF done
  <2>9. done \in Built(k)
    BY <2>4, <2>7, <2>8 DEF CacheState, Built
  <2>10. /\ SameParameters(i, done) /\ SameRequest(i, done)
         /\ done.lines = i.lines /\ done.balance = i.balance
         /\ done.backing = i.backing /\ done.pf.active = FALSE
    BY <2>4, <2>7, <2>8 DEF CacheState, SameParameters, SameRequest
  <2>11. /\ f \in Built(k) /\ SameParameters(done, f) /\ SameRequest(done, f)
         /\ SameArray(done, f) /\ f.backing = done.backing
         /\ f.pf.active => ~Resident(f, f.pf.line)
    <3>1. CASE ~(c.pf.chain < c.degree)
      <4>1. f = done
        BY <3>1
      <4> QED BY <2>9, <2>10, <4>1 DEF SameParameters, SameRequest, SameArray
    <3>2. CASE c.pf.chain < c.degree
      <4>1. f = Queued(done, next_line(c.pf.line), c.pf.chain + 1)
        BY <3>2
      <4>2. next_line(c.pf.line) \in LineNo
        BY <2>2, IndexTag
      <4>3. done.degree = c.degree
        BY <1>2, <2>3, <2>10 DEF SameParameters
      <4>4. c.pf.chain + 1 \in 0 .. done.degree
        BY <3>2, <4>3, Members
      <4> HIDE DEF f
      <4>5. /\ f \in Built(k)
            /\ SameParameters(done, f) /\ SameArray(done, f) /\ SameRequest(done, f)
            /\ f.backing = done.backing
            /\ \/ f.pf = done.pf
               \/ f.pf.active /\ f.pf.line = next_line(c.pf.line)
                  /\ ~Resident(done, next_line(c.pf.line))
        BY <2>9, <2>10, <4>1, <4>2, <4>4, QueueSteps
      <4>6. \A l : Resident(f, l) <=> Resident(done, l)
        BY <4>5 DEF Resident, Ways_of, SameArray
      <4> QED BY <2>10, <4>5, <4>6
    <3> QED BY <3>1, <3>2
  <2> HIDE DEF f, e
  <2>12. /\ e \in Built(k) /\ e.backing = mem_tick(f.backing)
         /\ SameParameters(f, e) /\ SameArray(f, e) /\ SameRequest(f, e) /\ e.pf = f.pf
    BY <2>1, <2>11, BackingSteps
  <2>13. e.pf.active => ~Resident(e, e.pf.line)
    BY <2>11, <2>12 DEF Resident, Ways_of, SameArray
  <2>14. /\ e.lines = [c.lines EXCEPT ![s][w] = Installed(c.pf.line, FALSE, TRUE)]
         /\ Owing(e) = Owing(c) - Wasted(c, s, w) + 1
    <3>1. Owing(e) = Owing(done) /\ Owing(done) = a.balance - Wasted(a, s, w)
      BY <2>3, <2>6, <2>10, <2>11, <2>12 DEF SameArray, Owing
    <3>2. Owing(c) = Owing(a) /\ Owing(a) = a.balance - 1
      BY <1>2, <1>4 DEF SameArray, Owing
    <3>3. Wasted(c, s, w) = Wasted(a, s, w)
      BY <1>2 DEF SameArray, Wasted
    <3>4. Owing(e) = Owing(c) - Wasted(c, s, w) + 1
      BY <2>6, <3>1, <3>2, <3>3
    <3> QED BY <1>2, <2>3, <2>10, <2>11, <2>12, <3>4 DEF SameArray, no, yes
  <2>15. SameParameters(c, e) /\ SameRequest(c, e)
    BY <1>2, <2>3, <2>10, <2>11, <2>12 DEF SameParameters, SameRequest
  <2>16. e.backing = Driven(c)
    BY <1>2, <2>3, <2>10, <2>11, <2>12 DEF Driven
  <2> QED BY <1>4, <2>12, <2>13, <2>14, <2>15, <2>16 DEF e
<1> QED BY <1>1, <1>3, <1>4, Members

\* The line of r is marked as used, and its prefetch counts as useful.
Marked(c, e, r) ==
    LET s == index_of(r.line)
        w == find_way(c, r.line)
    IN  /\ e.lines = [c.lines EXCEPT ![s][w] = Used(@, r.write)]
        /\ Owing(e) = Owing(c) - (IF c.lines[s][w].prefetched THEN 1 ELSE 0)

\* A hit.
LEMMA HitSteps ==
    ASSUME NEW k, Parameters(k), NEW c \in Built(k), NEW r \in Request,
           Resident(c, r.line)
    PROVE  LET e == Hit(c, r)
           IN  /\ e \in Built(k)
               /\ SameParameters(c, e) /\ e.backing = c.backing /\ e.pf = c.pf
               /\ e.cur = c.cur
               /\ e.phase = "HitWait" /\ e.hit_remaining = c.hit_latency - 1
               /\ Marked(c, e, r)
<1> DEFINE s == index_of(r.line)
           w == find_way(c, r.line)
           e == Hit(c, r)
           new == Used(c.lines[s][w], r.write)
           less == IF c.lines[s][w].prefetched THEN 1 ELSE 0
<1>0. c \in CacheState(k.hit, k.prefetch, k.degree, k.backing)
  BY DEF Built
<1>1. r.line \in LineNo /\ r.write \in BOOLEAN
  BY DEF Request
<1>2. s \in Set /\ w \in Way
  BY <1>1, IndexTag, FindWay
<1>3. c.lines[s][w] \in Line /\ c.lines \in [Set -> [Way -> Line]]
  BY <1>2, Members
<1>4. touch(c.plru[s], w) \in PlruBits /\ c.plru \in [Set -> PlruBits]
  BY <1>2, Members, TouchType
<1>5. less \in Int /\ c.balance \in Int /\ c.hit_latency - 1 \in 0 .. (AtLeast1(k.hit) - 1)
  BY Members
<1> HIDE DEF s, w
<1>6. e = [c EXCEPT !.lines[s][w] = new,
                    !.balance = c.balance - less,
                    !.plru[s] = touch(c.plru[s], w),
                    !.phase = "HitWait",
                    !.hit_remaining = c.hit_latency - 1]
  BY DEF Hit, s, w
<1>7. new \in Line
  <2>1. (c.lines[s][w].dirty \/ r.write) \in BOOLEAN
    OBVIOUS
  <2> QED BY <1>3, <2>1 DEF Line, Used
<1> HIDE DEF e, less, new
<1>8. /\ [c.lines EXCEPT ![s][w] = new] \in [Set -> [Way -> Line]]
      /\ [c.plru EXCEPT ![s] = touch(c.plru[s], w)] \in [Set -> PlruBits]
      /\ c.balance - less \in Int
  BY <1>2, <1>3, <1>4, <1>5, <1>7
<1>9. e \in Built(k)
  BY <1>0, <1>5, <1>6, <1>8 DEF CacheState, Built, Phases
<1>10. /\ SameParameters(c, e) /\ e.backing = c.backing /\ e.pf = c.pf
       /\ e.cur = c.cur
       /\ e.phase = "HitWait" /\ e.hit_remaining = c.hit_latency - 1
       /\ e.lines = [c.lines EXCEPT ![s][w] = new]
       /\ e.balance = c.balance - less
  BY <1>0, <1>6 DEF CacheState, SameParameters
<1>11. Owing(e) = Owing(c) - less
  BY <1>5, <1>10 DEF Owing, less
<1>12. Marked(c, e, r)
  BY <1>10, <1>11 DEF Marked, s, w, new, less
<1> QED BY <1>9, <1>10, <1>12 DEF e

\* A miss on the line being prefetched waits for it.
LEMMA MergeSteps ==
    ASSUME NEW k, Parameters(k), NEW c \in Built(k)
    PROVE  LET e == Merge(c)
           IN  /\ e \in Built(k)
               /\ SameParameters(c, e) /\ SameArray(c, e)
               /\ e.backing = c.backing /\ e.pf = c.pf /\ e.cur = c.cur
               /\ e.phase = "PrefetchWait" /\ e.victim_way = c.pf.way
<1> DEFINE e == Merge(c)
<1>0. c \in CacheState(k.hit, k.prefetch, k.degree, k.backing)
  BY DEF Built
<1>1. e = [c EXCEPT !.victim_way = c.pf.way, !.phase = "PrefetchWait"]
  BY DEF Merge
<1>2. c.pf.way \in Way /\ "PrefetchWait" \in Phases
  BY Members DEF Phases
<1> HIDE DEF e
<1>3. e \in Built(k)
  BY <1>0, <1>1, <1>2 DEF CacheState, Built
<1>4. /\ SameParameters(c, e) /\ SameArray(c, e)
      /\ e.backing = c.backing /\ e.pf = c.pf /\ e.cur = c.cur
      /\ e.phase = "PrefetchWait" /\ e.victim_way = c.pf.way
  BY <1>0, <1>1 DEF CacheState, SameParameters, SameArray, Owing
<1> QED BY <1>3, <1>4 DEF e

\* Any other miss picks its victim, and starts nothing in the engine.
LEMMA MissSteps ==
    ASSUME NEW k, Parameters(k), NEW c \in Built(k), NEW r \in Request
    PROVE  LET e == Miss(c, r)
               s == index_of(r.line)
               w == choose_victim(c, s)
           IN  /\ e \in Built(k)
               /\ SameParameters(c, e) /\ SameArray(c, e)
               /\ e.backing = c.backing /\ e.cur = c.cur
               /\ e.pf.line = c.pf.line
               /\ e.pf.active => c.pf.active
               /\ e.victim_way = w
               /\ NeedsWriteBack(c, s, w) =>
                    e.phase = "WriteBack" /\ e.wb_line = addr_of(s, c.lines[s][w].tag)
               /\ ~NeedsWriteBack(c, s, w) => e.phase = "MissFetch"
<1> DEFINE s == index_of(r.line)
           w == choose_victim(c, s)
           e == Miss(c, r)
           drop == c.pf.active /\ index_of(c.pf.line) = s /\ c.pf.way = w
           act == c.pf.active /\ ~drop
           bal == c.balance - (IF drop THEN 1 ELSE 0)
           pf == [c.pf EXCEPT !.active = act]
           wb == IF NeedsWriteBack(c, s, w) THEN addr_of(s, c.lines[s][w].tag)
                                            ELSE c.wb_line
           ph == IF NeedsWriteBack(c, s, w) THEN "WriteBack" ELSE "MissFetch"
<1>0. c \in CacheState(k.hit, k.prefetch, k.degree, k.backing)
  BY DEF Built
<1>1. r.line \in LineNo
  BY DEF Request
<1>2. s \in Set /\ w \in Way
  BY <1>1, IndexTag, VictimType
<1>3. wb \in LineNo
  <2>1. c.lines[s][w].tag \in Tag
    BY <1>2, Members DEF Line
  <2> QED BY <1>2, <2>1, AddrOf, Members
<1>4. ph \in Phases
  BY DEF Phases
<1>5. /\ pf \in [active : BOOLEAN, line : LineNo, way : Way, chain : 0 .. AtLeast1(k.degree)]
      /\ pf.line = c.pf.line
      /\ pf.active => c.pf.active
      /\ pf.active = act
  <2>1. /\ act \in BOOLEAN
        /\ act => c.pf.active
        /\ c.pf \in [active : BOOLEAN, line : LineNo, way : Way,
                     chain : 0 .. AtLeast1(k.degree)]
    BY Members
  <2> HIDE DEF act
  <2> QED BY <2>1
<1>6. e = [c EXCEPT !.pf.active = act, !.balance = bal,
                    !.victim_way = w, !.wb_line = wb, !.phase = ph]
  BY DEF Miss
<1>7. /\ bal \in Int /\ c.balance \in Int
      /\ bal - (IF act THEN 1 ELSE 0) = Owing(c)
  BY Members DEF Owing
<1> HIDE DEF act, bal, wb, ph, s, w, e
<1>8. e = [c EXCEPT !.pf = pf, !.balance = bal,
                    !.victim_way = w, !.wb_line = wb, !.phase = ph]
  BY <1>0, <1>6 DEF CacheState
<1> HIDE DEF pf
<1>9. e \in Built(k)
  BY <1>0, <1>2, <1>3, <1>4, <1>5, <1>7, <1>8 DEF CacheState, Built
<1>10. /\ SameParameters(c, e) /\ e.lines = c.lines /\ e.plru = c.plru
       /\ e.backing = c.backing /\ e.cur = c.cur /\ e.balance = bal
       /\ e.pf = pf /\ e.victim_way = w /\ e.phase = ph /\ e.wb_line = wb
  BY <1>0, <1>8 DEF CacheState, SameParameters
<1>11. SameArray(c, e)
  BY <1>5, <1>7, <1>10 DEF SameArray, Owing
<1>12. /\ NeedsWriteBack(c, s, w) =>
            ph = "WriteBack" /\ wb = addr_of(s, c.lines[s][w].tag)
       /\ ~NeedsWriteBack(c, s, w) => ph = "MissFetch"
  BY DEF ph, wb
<1> QED BY <1>5, <1>9, <1>10, <1>11, <1>12 DEF e, s, w

\* Both kinds of fill.
LEMMA FillSteps ==
    ASSUME NEW k, Parameters(k), NEW c \in Built(k)
    PROVE  LET e == FillTick(c)
               s == index_of(c.cur.line)
               w == c.victim_way
           IN  /\ e \in Built(k)
               /\ SameParameters(c, e) /\ e.backing = Driven(c)
               /\ e.cur = c.cur /\ e.victim_way = c.victim_way
               /\ ~Got(c) => SameArray(c, e) /\ SameRequest(c, e) /\ e.pf = c.pf
               /\ Got(c) =>
                    /\ e.lines = [c.lines EXCEPT
                                    ![s][w] = Installed(c.cur.line, c.cur.write, FALSE)]
                    /\ (c.phase = "PrefetchWait" => c.pf.active)
                         => Owing(e) = Owing(c) - Wasted(c, s, w)
                    /\ e.phase = "HitWait" /\ e.hit_remaining = c.hit_latency - 1
                    /\ e.pf.line = c.pf.line
                    /\ e.pf.active <=> c.pf.active /\ c.phase # "PrefetchWait"
<1> DEFINE s == index_of(c.cur.line)
           w == c.victim_way
           e == FillTick(c)
           a == Asked(c)
           no == FALSE
           i == install_line(a, c.cur.line, w, c.cur.write, no)
           merged == c.phase = "PrefetchWait"
           act == i.pf.active /\ ~merged
           bal == i.balance - (IF merged THEN 1 ELSE 0)
           pf == [i.pf EXCEPT !.active = act]
           f == [i EXCEPT !.pf.active = act, !.balance = bal, !.phase = "HitWait",
                          !.hit_remaining = c.hit_latency - 1]
<1>1. /\ a \in Built(k) /\ a.backing = mem_ready(c.backing)
      /\ SameParameters(c, a) /\ SameArray(c, a) /\ SameRequest(c, a) /\ a.pf = c.pf
  BY BackingSteps
<1>2. CASE ~Got(c)
  <2>1. e = Clocked(a)
    BY <1>2 DEF FillTick
  <2> HIDE DEF a, e
  <2>2. /\ e \in Built(k) /\ e.backing = mem_tick(a.backing)
        /\ SameParameters(a, e) /\ SameArray(a, e) /\ SameRequest(a, e) /\ e.pf = a.pf
    BY <1>1, <2>1, BackingSteps
  <2> QED BY <1>1, <1>2, <2>2
          DEF SameParameters, SameArray, SameRequest, Driven, e
<1>3. CASE Got(c)
  <2>1. e = Clocked(f)
    BY <1>3 DEF FillTick
  <2>2. c.cur.line \in LineNo /\ w \in Way /\ Installed(c.cur.line, c.cur.write, no) \in Line
    BY Members, IndexTag DEF Installed, Line
  <2> HIDE DEF a, no
  <2>3. /\ i \in Built(k)
        /\ SameParameters(a, i) /\ SameRequest(a, i)
        /\ i.pf = a.pf /\ i.backing = a.backing
        /\ i.lines = [a.lines EXCEPT ![s][w] = Installed(c.cur.line, c.cur.write, no)]
        /\ i.balance = a.balance - Wasted(a, s, w)
    BY <1>1, <2>2, InstallSteps
  <2> HIDE DEF i
  <2>4. i \in CacheState(k.hit, k.prefetch, k.degree, k.backing)
    BY <2>3 DEF Built
  <2>5. /\ i.pf \in [active : BOOLEAN, line : LineNo, way : Way,
                     chain : 0 .. AtLeast1(k.degree)]
        /\ act \in BOOLEAN
        /\ i.balance \in Int /\ bal \in Int
        /\ a.balance \in Int /\ Wasted(a, s, w) \in Int
    BY <1>1, <2>4, Members DEF CacheState, Wasted
  <2>6. f = [i EXCEPT !.pf = pf, !.balance = bal, !.phase = "HitWait",
                      !.hit_remaining = c.hit_latency - 1]
    BY <2>4, <2>5 DEF CacheState
  <2> HIDE DEF act, bal
  <2>7. /\ pf \in [active : BOOLEAN, line : LineNo, way : Way,
                   chain : 0 .. AtLeast1(k.degree)]
        /\ pf.active = act /\ pf.line = i.pf.line
    BY <2>5
  <2>8. c.hit_latency - 1 \in 0 .. (AtLeast1(k.hit) - 1) /\ "HitWait" \in Phases
    BY Members DEF Phases
  <2> HIDE DEF f, pf, e
  <2>9. f \in Built(k)
    BY <2>4, <2>5, <2>6, <2>7, <2>8 DEF CacheState, Built
  <2>10. /\ SameParameters(i, f) /\ f.lines = i.lines /\ f.balance = bal
         /\ f.backing = i.backing /\ f.pf = pf /\ f.cur = i.cur
         /\ f.victim_way = i.victim_way
         /\ f.phase = "HitWait" /\ f.hit_remaining = c.hit_latency - 1
    BY <2>4, <2>6 DEF CacheState, SameParameters
  <2>11. /\ e \in Built(k) /\ e.backing = mem_tick(f.backing)
         /\ SameParameters(f, e) /\ SameArray(f, e) /\ SameRequest(f, e) /\ e.pf = f.pf
    BY <2>1, <2>9, BackingSteps
  <2>12. SameParameters(c, e) /\ e.backing = Driven(c)
         /\ e.cur = c.cur /\ e.victim_way = c.victim_way
    BY <1>1, <2>3, <2>10, <2>11 DEF SameParameters, SameRequest, Driven
  <2>13. /\ e.lines = [c.lines EXCEPT
                         ![s][w] = Installed(c.cur.line, c.cur.write, FALSE)]
    BY <1>1, <2>3, <2>10, <2>11 DEF SameArray, no
  <2>14. e.phase = "HitWait" /\ e.hit_remaining = c.hit_latency - 1
    BY <2>10, <2>11 DEF SameRequest
  <2>15. e.pf.line = c.pf.line /\ e.pf.active = act
    BY <1>1, <2>3, <2>7, <2>10, <2>11
  <2>16. act <=> c.pf.active /\ c.phase # "PrefetchWait"
    BY <1>1, <2>3 DEF act
  <2>17. (merged => c.pf.active) => Owing(e) = Owing(c) - Wasted(c, s, w)
    <3>1. Owing(e) = Owing(f) /\ Owing(f) = bal - (IF act THEN 1 ELSE 0)
      BY <2>7, <2>10, <2>11 DEF SameArray, Owing
    <3>2. bal = a.balance - Wasted(a, s, w) - (IF merged THEN 1 ELSE 0)
      BY <2>3 DEF bal
    <3>3. Owing(c) = a.balance - (IF c.pf.active THEN 1 ELSE 0)
      BY <1>1 DEF SameArray, Owing
    <3>4. Wasted(c, s, w) = Wasted(a, s, w)
      BY <1>1 DEF SameArray, Wasted
    <3> HIDE DEF merged
    <3>5. act <=> c.pf.active /\ ~merged
      BY <2>16 DEF merged
    <3> QED BY <2>5, <3>1, <3>2, <3>3, <3>4, <3>5
  <2> QED BY <1>3, <2>11, <2>12, <2>13, <2>14, <2>15, <2>16, <2>17 DEF e
<1> QED BY <1>2, <1>3

\* A tick while the victim is written back.
LEMMA WriteBackSteps ==
    ASSUME NEW k, Parameters(k), NEW c \in Built(k), c.phase = "WriteBack"
    PROVE  LET e == WriteBackTick(c)
           IN  /\ e \in Built(k)
               /\ SameParameters(c, e) /\ SameArray(c, e) /\ e.backing = Driven(c)
               /\ e.cur = c.cur /\ e.victim_way = c.victim_way /\ e.pf = c.pf
               /\ e.wb_line = c.wb_line
               /\ e.phase = IF Got(c) THEN "MissFetch" ELSE "WriteBack"
<1> DEFINE e == WriteBackTick(c)
           a == Asked(c)
           ph == IF Got(c) THEN "MissFetch" ELSE a.phase
           f == [a EXCEPT !.phase = ph]
<1>1. /\ a \in Built(k) /\ a.backing = mem_ready(c.backing)
      /\ SameParameters(c, a) /\ SameArray(c, a) /\ SameRequest(c, a) /\ a.pf = c.pf
  BY BackingSteps
<1>2. e = Clocked(f)
  BY DEF WriteBackTick
<1> HIDE DEF a, e
<1>3. ph \in Phases /\ ph = IF Got(c) THEN "MissFetch" ELSE "WriteBack"
  BY <1>1 DEF SameRequest, Phases
<1>4. a \in CacheState(k.hit, k.prefetch, k.degree, k.backing)
  BY <1>1 DEF Built
<1> HIDE DEF ph
<1>5. f \in Built(k)
  BY <1>3, <1>4 DEF CacheState, Built
<1>6. /\ SameParameters(a, f) /\ SameArray(a, f) /\ f.backing = a.backing
      /\ f.pf = a.pf /\ f.cur = a.cur /\ f.victim_way = a.victim_way
      /\ f.wb_line = a.wb_line /\ f.phase = ph
  BY <1>4 DEF CacheState, SameParameters, SameArray, Owing
<1> HIDE DEF f
<1>7. /\ e \in Built(k) /\ e.backing = mem_tick(f.backing)
      /\ SameParameters(f, e) /\ SameArray(f, e) /\ SameRequest(f, e) /\ e.pf = f.pf
  BY <1>2, <1>5, BackingSteps
<1>8. /\ SameParameters(c, e) /\ SameArray(c, e) /\ e.backing = Driven(c)
      /\ e.cur = c.cur /\ e.victim_way = c.victim_way /\ e.pf = c.pf
      /\ e.wb_line = c.wb_line /\ e.phase = ph
  BY <1>1, <1>6, <1>7 DEF SameParameters, SameArray, SameRequest, Driven
<1> QED BY <1>3, <1>7, <1>8 DEF e

\* A hit counts down, and the engine has the cycle.
CountedDown(c) ==
    [c EXCEPT !.phase = IF c.hit_remaining > 0 THEN @ ELSE "Idle",
              !.hit_remaining = IF @ > 0 THEN @ - 1 ELSE 0]

\* A tick of the hit latency, with the prefetch engine behind it.
LEMMA HitWaitSteps ==
    ASSUME NEW k, Parameters(k), NEW c \in Built(k), c.phase = "HitWait"
    PROVE  LET e == CountedDown(c)
           IN  /\ HitWaitTick(c) = service_prefetch(e)
               /\ e \in Built(k)
               /\ SameParameters(c, e) /\ SameArray(c, e) /\ e.backing = c.backing
               /\ e.cur = c.cur /\ e.pf = c.pf
               /\ c.hit_remaining > 0 =>
                    e.phase = "HitWait" /\ e.hit_remaining = c.hit_remaining - 1
               /\ c.hit_remaining = 0 => e.phase = "Idle"
<1> DEFINE e == CountedDown(c)
           ph == IF c.hit_remaining > 0 THEN c.phase ELSE "Idle"
           n == IF c.hit_remaining > 0 THEN c.hit_remaining - 1 ELSE 0
<1>0. c \in CacheState(k.hit, k.prefetch, k.degree, k.backing)
  BY DEF Built
<1>1. HitWaitTick(c) = service_prefetch(e)
  BY DEF HitWaitTick, CountedDown
<1>2. e = [c EXCEPT !.phase = ph, !.hit_remaining = n]
  BY DEF CountedDown
<1>3. c.hit_remaining \in 0 .. (AtLeast1(k.hit) - 1) /\ AtLeast1(k.hit) \in Nat
  BY Members
<1>4. ph \in Phases /\ n \in 0 .. (AtLeast1(k.hit) - 1)
  BY <1>3 DEF Phases
<1> HIDE DEF e, ph, n
<1>5. e \in Built(k)
  BY <1>0, <1>2, <1>4 DEF CacheState, Built
<1>6. /\ SameParameters(c, e) /\ SameArray(c, e) /\ e.backing = c.backing
      /\ e.cur = c.cur /\ e.pf = c.pf /\ e.phase = ph /\ e.hit_remaining = n
  BY <1>0, <1>2 DEF CacheState, SameParameters, SameArray, Owing
<1> QED BY <1>1, <1>3, <1>5, <1>6 DEF e, ph, n

-----------------------------------------------------------------------------
(***************************************************************************)
(* The two calls of the port.                                              *)
(***************************************************************************)

\* ready() is one of a repeated call, a hit, a merge and a miss, and leaves a
\* cache of the same parameters.
LEMMA ReadySteps ==
    ASSUME NEW k, Parameters(k), NEW c \in Built(k), NEW r \in Request
    PROVE  LET e == cache_ready(c, r)
               l == Looked(c, r)
           IN  /\ e \in Built(k)
               /\ c.phase # "Idle" => e = c
               /\ (c.phase = "Idle" /\ Resident(c, r.line)) => e = Hit(l, r)
               /\ (c.phase = "Idle" /\ ~Resident(c, r.line) /\ l.pf.active /\ l.pf.line = r.line)
                    => e = Merge(l)
               /\ (c.phase = "Idle" /\ ~Resident(c, r.line) /\ ~(l.pf.active /\ l.pf.line = r.line))
                    => e = Miss(l, r)
<1> DEFINE e == cache_ready(c, r)
           l == Looked(c, r)
<1>1. l \in Built(k) /\ SameArray(c, l)
  BY LookSteps
<1>2. Resident(c, r.line) <=> Resident(l, r.line)
  BY <1>1 DEF Resident, Ways_of, SameArray
<1>3. CASE c.phase # "Idle"
  BY <1>3 DEF cache_ready
<1>4. CASE c.phase = "Idle" /\ Resident(c, r.line)
  <2>1. e = Hit(l, r)
    BY <1>4 DEF cache_ready, Looked
  <2>2. Hit(l, r) \in Built(k)
    BY <1>1, <1>2, <1>4, HitSteps
  <2> QED BY <1>4, <2>1, <2>2
<1>5. CASE c.phase = "Idle" /\ ~Resident(c, r.line) /\ l.pf.active /\ l.pf.line = r.line
  <2>1. e = Merge(l)
    BY <1>5 DEF cache_ready, Looked
  <2>2. Merge(l) \in Built(k)
    BY <1>1, MergeSteps
  <2> QED BY <1>5, <2>1, <2>2
<1>6. CASE c.phase = "Idle" /\ ~Resident(c, r.line) /\ ~(l.pf.active /\ l.pf.line = r.line)
  <2>1. e = Miss(l, r)
    BY <1>6 DEF cache_ready, Looked
  <2>2. Miss(l, r) \in Built(k)
    BY <1>1, MissSteps
  <2> QED BY <1>6, <2>1, <2>2
<1> QED BY <1>3, <1>4, <1>5, <1>6

\* tick() does what its phase says, and leaves a cache of the same parameters.
LEMMA TickSteps ==
    ASSUME NEW k, Parameters(k), NEW c \in Built(k)
    PROVE  LET e == cache_tick(c)
           IN  /\ e \in Built(k)
               /\ c.phase = "Idle" => e = service_prefetch(c)
               /\ c.phase = "HitWait" => e = HitWaitTick(c)
               /\ c.phase = "WriteBack" => e = WriteBackTick(c)
               /\ c.phase \in {"MissFetch", "PrefetchWait"} => e = FillTick(c)
<1> DEFINE e == cache_tick(c)
<1>0. c.phase \in Phases
  BY Members
<1>1. CASE c.phase = "Idle"
  <2>1. e = service_prefetch(c)
    BY <1>1 DEF cache_tick
  <2>2. service_prefetch(c) \in Built(k)
    BY ServiceSteps
  <2> QED BY <1>1, <2>1, <2>2
<1>2. CASE c.phase = "HitWait"
  <2> DEFINE d == CountedDown(c)
  <2>1. e = HitWaitTick(c)
    BY <1>2 DEF cache_tick
  <2>2. HitWaitTick(c) = service_prefetch(d) /\ d \in Built(k)
    BY <1>2, HitWaitSteps
  <2> HIDE DEF d
  <2>3. service_prefetch(d) \in Built(k)
    BY <2>2, ServiceSteps
  <2> QED BY <1>2, <2>1, <2>2, <2>3
<1>3. CASE c.phase = "WriteBack"
  <2>1. e = WriteBackTick(c)
    BY <1>3 DEF cache_tick
  <2>2. WriteBackTick(c) \in Built(k)
    BY <1>3, WriteBackSteps
  <2> QED BY <1>3, <2>1, <2>2
<1>4. CASE c.phase \in {"MissFetch", "PrefetchWait"}
  <2>1. e = FillTick(c)
    BY <1>4 DEF cache_tick
  <2>2. FillTick(c) \in Built(k)
    BY FillSteps
  <2> QED BY <1>4, <2>1, <2>2
<1> QED BY <1>0, <1>1, <1>2, <1>3, <1>4 DEF Phases

\* A lookup takes its request, and the cache keeps it until it was served.
LEMMA ReadyRequest ==
    ASSUME NEW k, Parameters(k), NEW c \in Built(k), NEW r \in Request
    PROVE  LET e == cache_ready(c, r)
           IN  /\ e.phase # "Idle"
               /\ c.phase = "Idle" => e.cur = r
               /\ c.phase # "Idle" => e = c
<1> DEFINE e == cache_ready(c, r)
           l == Looked(c, r)
<1>1. l \in Built(k) /\ SameArray(c, l) /\ l.cur = r
  BY LookSteps
<1>2. Resident(c, r.line) <=> Resident(l, r.line)
  BY <1>1 DEF Resident, Ways_of, SameArray
<1>3. CASE c.phase # "Idle"
  BY <1>3, ReadySteps
<1>4. CASE c.phase = "Idle" /\ Resident(c, r.line)
  <2>1. e = Hit(l, r)
    BY <1>4, ReadySteps
  <2> HIDE DEF l
  <2>2. Hit(l, r).phase = "HitWait" /\ Hit(l, r).cur = l.cur
    BY <1>1, <1>2, <1>4, HitSteps
  <2> QED BY <1>1, <1>4, <2>1, <2>2
<1>5. CASE c.phase = "Idle" /\ ~Resident(c, r.line) /\ l.pf.active /\ l.pf.line = r.line
  <2>1. e = Merge(l)
    BY <1>5, ReadySteps
  <2> HIDE DEF l
  <2>2. Merge(l).phase = "PrefetchWait" /\ Merge(l).cur = l.cur
    BY <1>1, MergeSteps
  <2> QED BY <1>1, <1>5, <2>1, <2>2
<1>6. CASE c.phase = "Idle" /\ ~Resident(c, r.line) /\ ~(l.pf.active /\ l.pf.line = r.line)
  <2>1. e = Miss(l, r)
    BY <1>6, ReadySteps
  <2> HIDE DEF l
  <2>2. Miss(l, r).phase \in {"WriteBack", "MissFetch"} /\ Miss(l, r).cur = l.cur
    BY <1>1, MissSteps
  <2> QED BY <1>1, <1>6, <2>1, <2>2
<1> QED BY <1>3, <1>4, <1>5, <1>6

\* tick() leaves the request, releases one that was served, and starts none.
LEMMA TickRequest ==
    ASSUME NEW k, Parameters(k), NEW c \in Built(k)
    PROVE  LET e == cache_tick(c)
           IN  /\ e.cur = c.cur
               /\ c.phase = "Idle" => e.phase = "Idle"
               /\ cache_served(c) => e.phase = "Idle"
<1> DEFINE e == cache_tick(c)
<1>0. c.phase \in Phases
  BY Members
<1>1. CASE c.phase = "Idle"
  <2>1. e = service_prefetch(c)
    BY <1>1, TickSteps
  <2>2. service_prefetch(c).phase = c.phase /\ service_prefetch(c).cur = c.cur
    BY ServiceSteps DEF SameRequest
  <2> QED BY <1>1, <2>1, <2>2
<1>2. CASE c.phase = "HitWait"
  <2> DEFINE d == CountedDown(c)
  <2>1. e = service_prefetch(d)
    BY <1>2, TickSteps, HitWaitSteps
  <2>2. d \in Built(k) /\ d.cur = c.cur /\ (c.hit_remaining = 0 => d.phase = "Idle")
    BY <1>2, HitWaitSteps
  <2> HIDE DEF d
  <2>3. service_prefetch(d).phase = d.phase /\ service_prefetch(d).cur = d.cur
    BY <2>2, ServiceSteps DEF SameRequest
  <2> QED BY <1>2, <2>1, <2>2, <2>3 DEF cache_served
<1>3. CASE c.phase = "WriteBack"
  <2>1. e = WriteBackTick(c)
    BY <1>3, TickSteps
  <2>2. WriteBackTick(c).cur = c.cur
    BY <1>3, WriteBackSteps
  <2> QED BY <1>3, <2>1, <2>2 DEF cache_served
<1>4. CASE c.phase \in {"MissFetch", "PrefetchWait"}
  <2>1. e = FillTick(c)
    BY <1>4, TickSteps
  <2>2. FillTick(c).cur = c.cur
    BY FillSteps
  <2> QED BY <1>4, <2>1, <2>2 DEF cache_served
<1> QED BY <1>0, <1>1, <1>2, <1>3, <1>4 DEF Phases
-----------------------------------------------------------------------------
(***************************************************************************)
(* Time.                                                                   *)
(***************************************************************************)

\* Ticks until the backing memory serves what it is asked for, counting the
\* tick that takes the answer.
FillTime(c) == IF c.backing.serving THEN c.backing.remaining + 1 ELSE c.backing.latency

\* Ticks until the request being handled is served.
Left(c) ==
    CASE c.phase = "Idle"    -> 0
      [] c.phase = "HitWait" -> c.hit_remaining
      [] c.phase \in {"MissFetch", "PrefetchWait"} -> FillTime(c) + c.hit_latency - 1
      [] c.phase = "WriteBack" -> FillTime(c) + c.backing.latency + c.hit_latency - 1

\* One cycle of the backing memory brings its answer one tick nearer.
LEMMA DriveTime ==
    ASSUME NEW k, Parameters(k), NEW c \in Built(k)
    PROVE  /\ FillTime(c) \in 1 .. c.backing.latency
           /\ Got(c) <=> FillTime(c) = 1
           /\ Driven(c).latency = c.backing.latency
           /\ Got(c) => ~Driven(c).serving
           /\ ~Got(c) => Driven(c).serving /\ Driven(c).remaining = FillTime(c) - 2
<1> DEFINE m == c.backing
           n == mem_ready(m)
           L == m.latency
<1>1. /\ m \in [latency : {L}, serving : BOOLEAN, remaining : 0 .. (L - 1)]
      /\ L \in Nat /\ L >= 1 /\ m.remaining \in 0 .. (L - 1) /\ m.serving \in BOOLEAN
  BY Members DEF MemState
<1> HIDE DEF m, L
<1>2. /\ n.serving /\ n.remaining = FillTime(c) - 1 /\ n.latency = L
      /\ FillTime(c) \in 1 .. L
  <2>1. CASE m.serving
    BY <1>1, <2>1 DEF mem_ready, FillTime, m, L
  <2>2. CASE ~m.serving
    <3>1. n = [m EXCEPT !.serving = TRUE, !.remaining = L - 1]
      BY <2>2 DEF mem_ready, L
    <3>2. FillTime(c) = L
      BY <2>2 DEF FillTime, m, L
    <3> QED BY <1>1, <3>1, <3>2
  <2> QED BY <1>1, <2>1, <2>2
<1>3. Got(c) <=> FillTime(c) = 1
  BY <1>1, <1>2 DEF Got, mem_served, m
<1>4. n \in [latency : {L}, serving : BOOLEAN, remaining : 0 .. (L - 1)]
  <2>1. k.backing \in Nat /\ m \in MemState(k.backing) /\ L = AtLeast1(k.backing)
    BY Members DEF Parameters, m, L
  <2> QED BY <2>1, MemTypes DEF MemState
<1> HIDE DEF n
<1>5. CASE n.remaining > 0
  <2>1. Driven(c) = [n EXCEPT !.remaining = n.remaining - 1]
    BY <1>2, <1>5 DEF Driven, mem_tick, n, m
  <2> QED BY <1>1, <1>2, <1>3, <1>4, <1>5, <2>1 DEF m, L
<1>6. CASE ~(n.remaining > 0)
  <2>1. Driven(c) = [n EXCEPT !.serving = FALSE]
    BY <1>2, <1>6 DEF Driven, mem_tick, n, m
  <2>2. FillTime(c) = 1
    BY <1>1, <1>2, <1>6
  <2> QED BY <1>1, <1>2, <1>3, <1>4, <1>6, <2>1, <2>2 DEF m, L
<1> QED BY <1>5, <1>6

\* What is left of a request depends on these members only.
LEMMA LeftOf ==
    ASSUME NEW k, Parameters(k), NEW c \in Built(k)
    PROVE  /\ Left(c) \in Nat
           /\ c.phase = "HitWait" => Left(c) = c.hit_remaining
           /\ c.phase \in {"MissFetch", "PrefetchWait"} =>
                Left(c) = FillTime(c) + c.hit_latency - 1
           /\ c.phase = "WriteBack" =>
                Left(c) = FillTime(c) + c.backing.latency + c.hit_latency - 1
           /\ c.phase = "Idle" => Left(c) = 0
<1>1. /\ FillTime(c) \in Nat /\ FillTime(c) >= 1
      /\ c.hit_latency \in Nat /\ c.hit_latency >= 1
      /\ c.backing.latency \in Nat
      /\ c.hit_remaining \in Nat
  BY DriveTime, Members
<1>2. c.phase \in Phases
  BY Members
<1> QED BY <1>1, <1>2 DEF Left, Phases

\* No wait is longer than a miss with a write-back, and without one than a
\* plain miss.
LEMMA LeftBound ==
    ASSUME NEW k, Parameters(k), NEW c \in Built(k)
    PROVE  /\ Left(c) \in 0 .. (c.hit_latency - 1 + 2 * c.backing.latency)
           /\ c.phase # "WriteBack" => Left(c) <= c.hit_latency - 1 + c.backing.latency
<1>1. /\ FillTime(c) \in 1 .. c.backing.latency
      /\ c.hit_latency \in Nat /\ c.hit_latency >= 1
      /\ c.backing.latency \in Nat
      /\ c.hit_remaining \in 0 .. (c.hit_latency - 1)
      /\ c.phase \in Phases
  BY DriveTime, Members
<1>2. CASE c.phase = "Idle"
  BY <1>1, <1>2, LeftOf
<1>3. CASE c.phase = "HitWait"
  BY <1>1, <1>3, LeftOf
<1>4. CASE c.phase \in {"MissFetch", "PrefetchWait"}
  BY <1>1, <1>4, LeftOf
<1>5. CASE c.phase = "WriteBack"
  BY <1>1, <1>5, LeftOf
<1> QED BY <1>1, <1>2, <1>3, <1>4, <1>5 DEF Phases

\* Every tick of a cache that has a request brings it one tick nearer, and it
\* is served when nothing is left.
LEMMA TickLeft ==
    ASSUME NEW k, Parameters(k), NEW c \in Built(k), c.phase # "Idle"
    PROVE  LET e == cache_tick(c)
           IN  /\ cache_served(c) <=> Left(c) = 0
               /\ ~cache_served(c) => e.phase # "Idle" /\ Left(e) = Left(c) - 1
               /\ cache_served(c) => e.phase = "Idle"
<1> DEFINE e == cache_tick(c)
           L == c.backing.latency
           H == c.hit_latency
<1>0. /\ c.phase \in Phases /\ L \in Nat /\ L >= 1 /\ H \in Nat /\ H >= 1
      /\ c.hit_remaining \in Nat
  BY Members
<1>1. e \in Built(k)
  BY TickSteps
<1>2. /\ FillTime(c) \in 1 .. c.backing.latency
      /\ Got(c) <=> FillTime(c) = 1
      /\ Driven(c).latency = c.backing.latency
      /\ Got(c) => ~Driven(c).serving
      /\ ~Got(c) => Driven(c).serving /\ Driven(c).remaining = FillTime(c) - 2
  BY DriveTime
<1>3. /\ e.backing = Driven(c) /\ Got(c) => FillTime(e) = L
      /\ e.backing = Driven(c) /\ ~Got(c) => FillTime(e) = FillTime(c) - 1
  BY <1>0, <1>2 DEF FillTime
<1> HIDE DEF L, H
<1>4. CASE c.phase = "HitWait"
  <2> DEFINE d == CountedDown(c)
  <2>1. e = service_prefetch(d)
    BY <1>4, TickSteps, HitWaitSteps
  <2>2. /\ d \in Built(k)
        /\ c.hit_remaining > 0 => d.phase = "HitWait" /\ d.hit_remaining = c.hit_remaining - 1
        /\ c.hit_remaining = 0 => d.phase = "Idle"
    BY <1>4, HitWaitSteps
  <2> HIDE DEF d, e
  <2>3. SameRequest(d, e)
    BY <2>1, <2>2, ServiceSteps
  <2>4. /\ c.hit_remaining > 0 => e.phase = "HitWait" /\ e.hit_remaining = c.hit_remaining - 1
        /\ c.hit_remaining = 0 => e.phase = "Idle"
    BY <2>2, <2>3 DEF SameRequest
  <2>5. /\ Left(c) = c.hit_remaining
        /\ e.phase # "Idle" => Left(e) = Left(c) - 1
    BY <1>0, <1>1, <1>4, <2>4, LeftOf
  <2> QED BY <1>0, <1>4, <2>4, <2>5 DEF cache_served, e
<1>5. CASE c.phase = "WriteBack"
  <2>1. e = WriteBackTick(c)
    BY <1>5, TickSteps
  <2> HIDE DEF e
  <2>2. /\ SameParameters(c, e) /\ e.backing = Driven(c)
        /\ e.phase = IF Got(c) THEN "MissFetch" ELSE "WriteBack"
    BY <1>5, <2>1, WriteBackSteps
  <2>3. e.hit_latency = H /\ e.backing.latency = L
    BY <1>2, <2>2 DEF SameParameters, H, L
  <2>4. Left(c) = FillTime(c) + L + H - 1
    BY <1>5, LeftOf DEF H, L
  <2>5. Left(e) = Left(c) - 1
    <3>1. CASE Got(c)
      <4>1. Left(e) = FillTime(e) + H - 1
        BY <1>1, <2>2, <2>3, <3>1, LeftOf
      <4> QED BY <1>0, <1>2, <1>3, <2>2, <2>4, <3>1, <4>1
    <3>2. CASE ~Got(c)
      <4>1. Left(e) = FillTime(e) + L + H - 1
        BY <1>1, <2>2, <2>3, <3>2, LeftOf
      <4> QED BY <1>0, <1>2, <1>3, <2>2, <2>4, <3>2, <4>1 DEF L
    <3> QED BY <3>1, <3>2
  <2>6. Left(c) # 0
    BY <1>0, <1>2, <2>4
  <2> QED BY <1>5, <2>2, <2>5, <2>6 DEF cache_served, e
<1>6. CASE c.phase \in {"MissFetch", "PrefetchWait"}
  <2>1. e = FillTick(c)
    BY <1>6, TickSteps
  <2> HIDE DEF e
  <2>2. /\ SameParameters(c, e) /\ e.backing = Driven(c)
        /\ ~Got(c) => SameRequest(c, e)
        /\ Got(c) => e.phase = "HitWait" /\ e.hit_remaining = c.hit_latency - 1
    BY <2>1, FillSteps
  <2>3. e.hit_latency = H /\ e.backing.latency = L
    BY <1>2, <2>2 DEF SameParameters, H, L
  <2>4. Left(c) = FillTime(c) + H - 1
    BY <1>6, LeftOf DEF H
  <2>5. Left(e) = Left(c) - 1 /\ e.phase # "Idle"
    <3>1. CASE Got(c)
      <4>1. Left(e) = H - 1
        BY <1>1, <2>2, <3>1, LeftOf DEF H
      <4> QED BY <1>0, <1>2, <2>2, <2>4, <3>1, <4>1
    <3>2. CASE ~Got(c)
      <4>1. e.phase = c.phase
        BY <2>2, <3>2 DEF SameRequest
      <4>2. Left(e) = FillTime(e) + H - 1
        BY <1>1, <1>6, <2>3, <4>1, LeftOf
      <4> QED BY <1>0, <1>2, <1>3, <1>6, <2>2, <2>4, <3>2, <4>1, <4>2
    <3> QED BY <3>1, <3>2
  <2>6. Left(c) # 0
    BY <1>0, <1>2, <2>4
  <2> QED BY <1>6, <2>5, <2>6 DEF cache_served, e
<1> QED BY <1>0, <1>4, <1>5, <1>6 DEF Phases

-----------------------------------------------------------------------------
(***************************************************************************)
(* A cache that is only read.                                              *)
(***************************************************************************)

\* It has no dirty line, so it never writes back.
Clean(c) ==
    /\ c.phase # "WriteBack"
    /\ ~c.cur.write
    /\ \A s \in Set : \A w \in Way : ~c.lines[s][w].dirty

\* Putting a clean line into a clean array leaves it clean.
LEMMA CleanEntry ==
    ASSUME NEW f \in [Set -> [Way -> Line]], NEW x \in Line, ~x.dirty,
           NEW i \in Set, NEW j \in Way,
           \A s \in Set : \A w \in Way : ~f[s][w].dirty
    PROVE  \A s \in Set : \A w \in Way : ~[f EXCEPT ![i][j] = x][s][w].dirty
<1> TAKE s \in Set
<1> TAKE w \in Way
<1> QED OBVIOUS

\* The engine installs clean lines.
LEMMA CleanService ==
    ASSUME NEW k, Parameters(k), NEW c \in Built(k), Clean(c)
    PROVE  Clean(service_prefetch(c))
<1> DEFINE e == service_prefetch(c)
           s == index_of(c.pf.line)
           w == c.pf.way
           x == Installed(c.pf.line, FALSE, TRUE)
<1>1. /\ SameRequest(c, e)
      /\ ~c.pf.active => e = c
      /\ (c.pf.active /\ ~Got(c)) => SameArray(c, e)
      /\ (c.pf.active /\ Got(c)) => e.lines = [c.lines EXCEPT ![s][w] = x]
  BY ServiceSteps
<1>2. /\ c.lines \in [Set -> [Way -> Line]] /\ w \in Way /\ c.pf.line \in LineNo
  BY Members
<1>3. s \in Set /\ x \in Line /\ ~x.dirty
  BY <1>2, IndexTag DEF Installed, Line
<1> HIDE DEF e, s, w, x
<1>4. \A t \in Set : \A v \in Way : ~e.lines[t][v].dirty
  <2>1. CASE c.pf.active /\ Got(c)
    BY <1>1, <1>2, <1>3, <2>1, CleanEntry DEF Clean
  <2>2. CASE ~(c.pf.active /\ Got(c))
    BY <1>1, <2>2 DEF SameArray, Clean
  <2> QED BY <2>1, <2>2
<1> QED BY <1>1, <1>4 DEF Clean, SameRequest, e

\* A read leaves the lines clean.
LEMMA CleanReady ==
    ASSUME NEW k, Parameters(k), NEW c \in Built(k), Clean(c),
           NEW r \in Request, ~r.write
    PROVE  Clean(cache_ready(c, r))
<1> DEFINE e == cache_ready(c, r)
           l == Looked(c, r)
<1>1. l \in Built(k) /\ SameArray(c, l) /\ l.cur = r
  BY LookSteps
<1>2. Resident(c, r.line) <=> Resident(l, r.line)
  BY <1>1 DEF Resident, Ways_of, SameArray
<1>3. r.line \in LineNo /\ index_of(r.line) \in Set
  BY IndexTag DEF Request
<1>4. CASE c.phase # "Idle"
  BY <1>4, ReadySteps
<1>5. CASE c.phase = "Idle" /\ Resident(c, r.line)
  <2> DEFINE s == index_of(r.line)
             w == find_way(l, r.line)
             x == Used(l.lines[s][w], r.write)
  <2>1. e = Hit(l, r)
    BY <1>5, ReadySteps
  <2> HIDE DEF l
  <2>2. /\ Hit(l, r).phase = "HitWait" /\ Hit(l, r).cur = l.cur
        /\ Hit(l, r).lines = [l.lines EXCEPT ![s][w] = x]
    BY <1>1, <1>2, <1>5, HitSteps DEF Marked
  <2>3. w \in Way /\ l.lines \in [Set -> [Way -> Line]]
    BY <1>1, <1>2, <1>3, <1>5, FindWay, Members
  <2>4. l.lines[s][w] \in Line /\ ~l.lines[s][w].dirty
    BY <1>1, <1>3, <2>3 DEF SameArray, Clean
  <2>5. x \in Line /\ ~x.dirty
    BY <2>4 DEF Used, Line
  <2> HIDE DEF x, s, w
  <2>6. \A t \in Set : \A v \in Way : ~l.lines[t][v].dirty
    BY <1>1 DEF SameArray, Clean
  <2>7. s \in Set
    BY <1>3 DEF s
  <2>8. \A t \in Set : \A v \in Way : ~[l.lines EXCEPT ![s][w] = x][t][v].dirty
    BY <2>3, <2>5, <2>6, <2>7, CleanEntry
  <2> HIDE DEF e
  <2> QED BY <1>1, <2>1, <2>2, <2>8 DEF Clean, e
<1>6. CASE c.phase = "Idle" /\ ~Resident(c, r.line) /\ l.pf.active /\ l.pf.line = r.line
  <2>1. e = Merge(l)
    BY <1>6, ReadySteps
  <2> HIDE DEF l
  <2>2. /\ Merge(l).phase = "PrefetchWait" /\ Merge(l).cur = l.cur
        /\ SameArray(l, Merge(l))
    BY <1>1, MergeSteps
  <2> QED BY <1>1, <2>1, <2>2 DEF Clean, SameArray
<1>7. CASE c.phase = "Idle" /\ ~Resident(c, r.line) /\ ~(l.pf.active /\ l.pf.line = r.line)
  <2> DEFINE s == index_of(r.line)
             w == choose_victim(l, s)
  <2>1. e = Miss(l, r)
    BY <1>7, ReadySteps
  <2> HIDE DEF l
  <2>2. /\ Miss(l, r).cur = l.cur /\ SameArray(l, Miss(l, r))
        /\ ~NeedsWriteBack(l, s, w) => Miss(l, r).phase = "MissFetch"
    BY <1>1, MissSteps
  <2>3. w \in Way
    BY <1>1, <1>3, VictimType
  <2>4. ~NeedsWriteBack(l, s, w)
    BY <1>1, <1>3, <2>3 DEF NeedsWriteBack, Clean, SameArray
  <2> QED BY <1>1, <2>1, <2>2, <2>4 DEF Clean, SameArray
<1> QED BY <1>4, <1>5, <1>6, <1>7

\* And so does a tick.
LEMMA CleanTick ==
    ASSUME NEW k, Parameters(k), NEW c \in Built(k), Clean(c)
    PROVE  Clean(cache_tick(c))
<1> DEFINE e == cache_tick(c)
<1>0. c.phase \in Phases /\ c.phase # "WriteBack"
  BY Members DEF Clean
<1>1. CASE c.phase = "Idle"
  BY <1>1, TickSteps, CleanService
<1>2. CASE c.phase = "HitWait"
  <2> DEFINE d == CountedDown(c)
  <2>1. e = service_prefetch(d)
    BY <1>2, TickSteps, HitWaitSteps
  <2>2. /\ d \in Built(k) /\ SameArray(c, d) /\ d.cur = c.cur
        /\ c.hit_remaining > 0 => d.phase = "HitWait"
        /\ c.hit_remaining = 0 => d.phase = "Idle"
    BY <1>2, HitWaitSteps
  <2>3. c.hit_remaining > 0 \/ c.hit_remaining = 0
    BY Members
  <2> HIDE DEF d
  <2>4. Clean(d)
    BY <2>2, <2>3 DEF Clean, SameArray
  <2> QED BY <2>1, <2>2, <2>4, CleanService
<1>3. CASE c.phase \in {"MissFetch", "PrefetchWait"}
  <2> DEFINE s == index_of(c.cur.line)
             w == c.victim_way
             x == Installed(c.cur.line, c.cur.write, FALSE)
  <2>1. e = FillTick(c)
    BY <1>3, TickSteps
  <2> HIDE DEF e
  <2>2. /\ e.cur = c.cur
        /\ ~Got(c) => SameArray(c, e) /\ SameRequest(c, e)
        /\ Got(c) => e.phase = "HitWait" /\ e.lines = [c.lines EXCEPT ![s][w] = x]
    BY <2>1, FillSteps
  <2>3. c.lines \in [Set -> [Way -> Line]] /\ w \in Way /\ c.cur.line \in LineNo
        /\ c.cur.write \in BOOLEAN
    BY Members
  <2>4. s \in Set /\ x \in Line /\ ~x.dirty
    BY <2>3, IndexTag DEF Installed, Line, Clean
  <2> HIDE DEF s, w, x
  <2>5. CASE Got(c)
    <3>1. \A t \in Set : \A v \in Way : ~c.lines[t][v].dirty
      BY DEF Clean
    <3>2. \A t \in Set : \A v \in Way : ~[c.lines EXCEPT ![s][w] = x][t][v].dirty
      BY <2>3, <2>4, <3>1, CleanEntry
    <3> QED BY <2>2, <2>5, <3>2 DEF Clean, e
  <2>6. CASE ~Got(c)
    BY <2>2, <2>6 DEF Clean, SameArray, SameRequest, e
  <2> QED BY <2>5, <2>6
<1> QED BY <1>0, <1>1, <1>2, <1>3 DEF Phases

\* A new cache has no lines.
LEMMA CleanNew == \A h, p, d, b : Clean(NewCache(h, p, d, b))
BY DEF Clean, NewCache

\* Nor does the timer touch the lines.
LEMMA CleanTimer ==
    ASSUME NEW k, Parameters(k), NEW c \in Built(k), Clean(c)
    PROVE  Clean(Asked(c)) /\ Clean(Clocked(c))
<1>1. /\ SameArray(c, Asked(c)) /\ SameRequest(c, Asked(c))
      /\ SameArray(c, Clocked(c)) /\ SameRequest(c, Clocked(c))
  BY BackingSteps
<1> QED BY <1>1 DEF Clean, SameArray, SameRequest

-----------------------------------------------------------------------------
(***************************************************************************)
(* A port is a cache, or the timer behind it.                              *)
(***************************************************************************)

\* Ticks before the one that serves, if a request not yet made needs worst.
Ahead(c, cached, worst) ==
    IF ~cached THEN FillTime(c) - 1
    ELSE IF c.phase = "Idle" THEN worst
    ELSE Left(c)

\* The port after ready(), what that returned, and after tick().
PortAsked(c, cached, r) == IF cached THEN cache_ready(c, r) ELSE Asked(c)
PortServed(c, cached)   == IF cached THEN cache_served(c) ELSE mem_served(c.backing)
PortClocked(c, cached)  == IF cached THEN cache_tick(c) ELSE Clocked(c)

\* What is ahead of a port, asked or not, is within its worst.
LEMMA AheadBound ==
    ASSUME NEW k, Parameters(k), NEW c \in Built(k), NEW cached \in BOOLEAN,
           NEW worst \in Nat,
           cached => Left(c) <= worst,
           ~cached => c.backing.latency - 1 <= worst
    PROVE  Ahead(c, cached, worst) \in 0 .. worst
<1>1. /\ FillTime(c) \in 1 .. c.backing.latency /\ c.backing.latency \in Nat
      /\ Left(c) \in Nat
  BY DriveTime, LeftOf, Members
<1>2. CASE ~cached
  BY <1>1, <1>2 DEF Ahead
<1>3. CASE cached
  BY <1>1, <1>3 DEF Ahead
<1> QED BY <1>2, <1>3

\* Asking a port adds nothing to what is ahead; it serves when nothing is, and
\* otherwise a tick takes one off.
LEMMA AheadStep ==
    ASSUME NEW k, Parameters(k), NEW c \in Built(k), NEW r \in Request,
           NEW cached \in BOOLEAN, NEW worst \in Nat,
           cached => Left(cache_ready(c, r)) <= worst
    PROVE  LET a == PortAsked(c, cached, r)
           IN  /\ Ahead(a, cached, worst) \in Nat
               /\ Ahead(a, cached, worst) <= Ahead(c, cached, worst)
               /\ PortServed(a, cached) <=> Ahead(a, cached, worst) = 0
               /\ ~PortServed(a, cached) =>
                    Ahead(PortClocked(a, cached), cached, worst)
                      = Ahead(a, cached, worst) - 1
<1> DEFINE a == PortAsked(c, cached, r)
           t == PortClocked(a, cached)
<1>1. CASE cached
  <2>1. a = cache_ready(c, r) /\ t = cache_tick(a) /\ (PortServed(a, cached) <=> cache_served(a))
    BY <1>1 DEF PortAsked, PortClocked, PortServed
  <2> HIDE DEF a, t
  <2>2. a \in Built(k) /\ a.phase # "Idle" /\ (c.phase # "Idle" => a = c)
    BY <2>1, ReadySteps, ReadyRequest
  <2>3. /\ cache_served(a) <=> Left(a) = 0
        /\ ~cache_served(a) => t.phase # "Idle" /\ Left(t) = Left(a) - 1
    BY <2>1, <2>2, TickLeft
  <2>4. Left(a) \in Nat /\ Left(a) <= worst
    BY <1>1, <2>1, <2>2, LeftOf
  <2>5. /\ Ahead(a, cached, worst) = Left(a)
        /\ c.phase = "Idle" => Ahead(c, cached, worst) = worst
        /\ t.phase # "Idle" => Ahead(t, cached, worst) = Left(t)
    BY <1>1, <2>2 DEF Ahead
  <2>6. Ahead(a, cached, worst) <= Ahead(c, cached, worst)
    BY <2>2, <2>4, <2>5
  <2> QED BY <2>1, <2>3, <2>4, <2>5, <2>6 DEF a, t
<1>2. CASE ~cached
  <2>1. a = Asked(c) /\ t = Clocked(a) /\ (PortServed(a, cached) <=> mem_served(a.backing))
    BY <1>2 DEF PortAsked, PortClocked, PortServed
  <2> HIDE DEF a, t
  <2>2. /\ a \in Built(k) /\ a.backing = mem_ready(c.backing)
        /\ t.backing = Driven(c)
    BY <2>1, BackingSteps DEF Driven
  <2>3. /\ FillTime(c) \in 1 .. c.backing.latency /\ c.backing.latency \in Nat
        /\ Got(c) <=> FillTime(c) = 1
        /\ ~Got(c) => Driven(c).serving /\ Driven(c).remaining = FillTime(c) - 2
    BY DriveTime, Members
  <2>4. FillTime(a) = FillTime(c)
    <3>1. CASE c.backing.serving
      BY <2>2, <3>1 DEF mem_ready, FillTime
    <3>2. CASE ~c.backing.serving
      <4> DEFINE m == c.backing
      <4>1. /\ m \in [latency : {m.latency}, serving : BOOLEAN,
                      remaining : 0 .. (m.latency - 1)]
            /\ m.latency \in Nat
        BY Members DEF MemState
      <4>2. a.backing = [m EXCEPT !.serving = TRUE, !.remaining = m.latency - 1]
        BY <2>2, <3>2 DEF mem_ready
      <4> HIDE DEF m
      <4>3. a.backing.serving /\ a.backing.remaining = m.latency - 1
        BY <4>1, <4>2
      <4>4. FillTime(a) = m.latency
        BY <4>1, <4>3 DEF FillTime
      <4> QED BY <3>2, <4>4 DEF FillTime, m
    <3> QED BY <3>1, <3>2
  <2>5. mem_served(a.backing) <=> Got(c)
    BY <2>2 DEF Got
  <2>6. ~Got(c) => FillTime(t) = FillTime(c) - 1
    BY <2>2, <2>3 DEF FillTime
  <2>7. \A x : Ahead(x, cached, worst) = FillTime(x) - 1
    BY <1>2 DEF Ahead
  <2> QED BY <2>1, <2>3, <2>4, <2>5, <2>6, <2>7 DEF a, t
<1> QED BY <1>1, <1>2
=============================================================================
