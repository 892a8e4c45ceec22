----------------------------- MODULE CoreProofs -----------------------------
(***************************************************************************)
(* Proofs about the whole core, for every configuration.  The core is the  *)
(* pipeline of PipelineProofs with a particular answer on each port; the   *)
(* answers depend on the caches, the pipeline's theorems do not.           *)
(***************************************************************************)
EXTENDS Core, PipelineProofs

-----------------------------------------------------------------------------
(***************************************************************************)
(* The two ports of the core are caches of CacheUnit, or the timers behind *)
(* them.  What CacheUnitProofs shows of such an object is carried over to  *)
(* the ports' own instances I and D: IP and DP are the same objects seen   *)
(* with their lemmas, operator for operator.                               *)
(***************************************************************************)

IP == INSTANCE CacheUnitProofs WITH NLines <- ILines, Sets <- ISets, Ways <- IWays
DP == INSTANCE CacheUnitProofs WITH NLines <- DLines, Sets <- DSets, Ways <- DWays

\* The configuration is one CacheUnit accepts.
LEMMA PortGeometry ==
    /\ ILines \in Nat \ {0} /\ DLines \in Nat \ {0}
    /\ ISets \in Nat \ {0} /\ ILines % ISets = 0
    /\ DSets \in Nat \ {0} /\ DLines % DSets = 0
    /\ IWays \in {1, 2, 4, 8, 16, 32, 64, 128, 256}
    /\ DWays \in {1, 2, 4, 8, 16, 32, 64, 128, 256}
    /\ ILineBytes \in Nat /\ ILineBytes >= 1 /\ WordValues = ILines * ILineBytes
    /\ DLineBytes \in Nat /\ DLineBytes >= 1 /\ WordValues = DLines * DLineBytes
<1>1. WordValues \in Nat /\ WordValues >= 1
  <2>1. ByteValues \in Nat /\ ByteValues >= 2
    BY MachineAssumption
  <2>2. \A n \in Nat : n >= 1 => n * n \in Nat /\ n * n >= 1
    OBVIOUS
  <2>3. HalfValues \in Nat /\ HalfValues >= 1
    BY <2>1, <2>2 DEF HalfValues
  <2> QED BY <2>2, <2>3 DEF WordValues
<1>2. /\ ILineBytes \in Nat /\ ILineBytes >= 1 /\ WordValues % ILineBytes = 0
      /\ DLineBytes \in Nat /\ DLineBytes >= 1 /\ WordValues % DLineBytes = 0
  BY ConfigAssumption
<1>3. \A n, k \in Nat : (k >= 1 /\ n >= 1 /\ n % k = 0)
        => n \div k \in Nat \ {0} /\ n = (n \div k) * k
  OBVIOUS
<1>4. ILines \in Nat \ {0} /\ WordValues = ILines * ILineBytes
  BY <1>1, <1>2, <1>3 DEF ILines
<1>5. DLines \in Nat \ {0} /\ WordValues = DLines * DLineBytes
  BY <1>1, <1>2, <1>3 DEF DLines
<1> QED BY <1>2, <1>4, <1>5, ConfigAssumption

\* An address lies in a line of either cache.
LEMMA LineType ==
    \A a \in Word : /\ LineOf(a, ILineBytes) \in 0 .. (ILines - 1)
                    /\ LineOf(a, DLineBytes) \in 0 .. (DLines - 1)
<1>1. \A x, k, n \in Nat : (k >= 1 /\ x < n * k) => x \div k \in 0 .. (n - 1)
  OBVIOUS
<1>2. /\ ILines \in Nat /\ ILineBytes \in Nat /\ ILineBytes >= 1
      /\ DLines \in Nat /\ DLineBytes \in Nat /\ DLineBytes >= 1
      /\ WordValues = ILines * ILineBytes /\ WordValues = DLines * DLineBytes
  BY PortGeometry
<1> SUFFICES ASSUME NEW a \in Word
             PROVE  /\ LineOf(a, ILineBytes) \in 0 .. (ILines - 1)
                    /\ LineOf(a, DLineBytes) \in 0 .. (DLines - 1)
  OBVIOUS
<1>3. LineOf(a, ILineBytes) \in 0 .. (ILines - 1)
  <2>1. a \in Nat /\ a < ILines * ILineBytes
    BY <1>2 DEF Word
  <2> QED BY <1>1, <1>2, <2>1 DEF LineOf
<1>4. LineOf(a, DLineBytes) \in 0 .. (DLines - 1)
  <2>1. a \in Nat /\ a < DLines * DLineBytes
    BY <1>2 DEF Word
  <2> QED BY <1>1, <1>2, <2>1 DEF LineOf
<1> QED BY <1>3, <1>4

-----------------------------------------------------------------------------
(***************************************************************************)
(* The instruction port.                                                   *)
(***************************************************************************)

\* The instruction port: lookup and replacement.
LEMMA ISameLines ==
    /\ \A l : /\ IP!index_of(l) = I!index_of(l) /\ IP!tag_of(l) = I!tag_of(l)
              /\ IP!next_line(l) = I!next_line(l)
    /\ \A s, t : IP!addr_of(s, t) = I!addr_of(s, t)
    /\ \A c, l : /\ IP!Ways_of(c, l) = I!Ways_of(c, l)
                 /\ IP!Resident(c, l) <=> I!Resident(c, l)
                 /\ IP!find_way(c, l) = I!find_way(c, l)
    /\ \A c, s, w : IP!NeedsWriteBack(c, s, w) <=> I!NeedsWriteBack(c, s, w)
    /\ \A c, s : IP!choose_victim(c, s) = I!choose_victim(c, s)
    /\ \A b, w : IP!touch(b, w) = I!touch(b, w)
<1>1. ASSUME NEW l PROVE /\ IP!index_of(l) = I!index_of(l) /\ IP!tag_of(l) = I!tag_of(l)
                         /\ IP!next_line(l) = I!next_line(l)
  BY Zenon DEF IP!index_of, I!index_of, IP!tag_of, I!tag_of, IP!next_line,
       I!next_line
<1>2. ASSUME NEW s, NEW t PROVE IP!addr_of(s, t) = I!addr_of(s, t)
  BY Zenon DEF IP!addr_of, I!addr_of
<1>3. ASSUME NEW c, NEW l PROVE IP!Ways_of(c, l) = I!Ways_of(c, l)
  BY Zenon DEF IP!Ways_of, I!Ways_of, IP!index_of, I!index_of, IP!tag_of, I!tag_of,
       IP!Way, I!Way
<1>4. ASSUME NEW c, NEW l PROVE IP!Resident(c, l) <=> I!Resident(c, l)
  BY <1>3, Zenon DEF IP!Resident, I!Resident
<1>5. ASSUME NEW c, NEW l PROVE IP!find_way(c, l) = I!find_way(c, l)
  BY <1>3, Zenon DEF IP!find_way, I!find_way, IP!Lowest, I!Lowest
<1>6. ASSUME NEW c, NEW s, NEW w
      PROVE  IP!NeedsWriteBack(c, s, w) <=> I!NeedsWriteBack(c, s, w)
  BY Zenon DEF IP!NeedsWriteBack, I!NeedsWriteBack
<1>7. ASSUME NEW c, NEW s PROVE IP!choose_victim(c, s) = I!choose_victim(c, s)
  BY Zenon DEF IP!choose_victim, I!choose_victim, IP!Lowest, I!Lowest, IP!Way,
       I!Way, IP!victim, I!victim
<1>8. ASSUME NEW b, NEW w PROVE IP!touch(b, w) = I!touch(b, w)
  BY Zenon DEF IP!touch, I!touch, IP!OnPath, I!OnPath, IP!Node, I!Node
<1> QED BY <1>1, <1>2, <1>3, <1>4, <1>5, <1>6, <1>7, <1>8

\* The instruction port: the timer behind it.
LEMMA ISameTimer ==
    /\ \A m : IP!mem_ready(m) = I!mem_ready(m) /\ IP!mem_tick(m) = I!mem_tick(m)
    /\ \A m : IP!mem_served(m) <=> I!mem_served(m)
BY Zenon DEF IP!mem_ready, I!mem_ready, IP!mem_tick, I!mem_tick, IP!mem_served,
     I!mem_served

\* The instruction port: fills and the prefetch engine.
LEMMA ISameEngine ==
    /\ \A c, l, w, d, p : IP!install_line(c, l, w, d, p) = I!install_line(c, l, w, d, p)
    /\ \A c, t, n : IP!Queued(c, t, n) = I!Queued(c, t, n)
    /\ \A c, l : IP!maybe_start_prefetch(c, l) = I!maybe_start_prefetch(c, l)
    /\ \A c : IP!Asked(c) = I!Asked(c) /\ IP!Clocked(c) = I!Clocked(c)
    /\ \A c : IP!Got(c) <=> I!Got(c)
    /\ \A c : IP!service_prefetch(c) = I!service_prefetch(c)
<1>1. ASSUME NEW c, NEW l, NEW w, NEW d, NEW p
      PROVE  IP!install_line(c, l, w, d, p) = I!install_line(c, l, w, d, p)
  BY Zenon DEF IP!install_line, I!install_line, IP!touch, I!touch, IP!index_of,
       I!index_of, IP!tag_of, I!tag_of, IP!OnPath, I!OnPath, IP!Node, I!Node
<1>2. ASSUME NEW c, NEW t, NEW n PROVE IP!Queued(c, t, n) = I!Queued(c, t, n)
  BY ISameLines DEF IP!Queued, I!Queued
<1>3. ASSUME NEW c, NEW l PROVE IP!maybe_start_prefetch(c, l) = I!maybe_start_prefetch(c, l)
  BY ISameLines, <1>2 DEF IP!maybe_start_prefetch, I!maybe_start_prefetch
<1>4. ASSUME NEW c
      PROVE  /\ IP!Asked(c) = I!Asked(c) /\ IP!Clocked(c) = I!Clocked(c)
             /\ IP!Got(c) <=> I!Got(c)
  BY Zenon DEF IP!Asked, I!Asked, IP!Clocked, I!Clocked, IP!Got, I!Got,
       IP!mem_ready, I!mem_ready, IP!mem_tick, I!mem_tick, IP!mem_served,
       I!mem_served
<1>5. ASSUME NEW c PROVE IP!service_prefetch(c) = I!service_prefetch(c)
  BY ISameLines, <1>1, <1>2, <1>4 DEF IP!service_prefetch, I!service_prefetch
<1> QED BY <1>1, <1>2, <1>3, <1>4, <1>5

\* The instruction port: the calls of the port.
LEMMA ISameCalls ==
    /\ \A c, r : IP!cache_ready(c, r) = I!cache_ready(c, r)
    /\ \A c : IP!cache_served(c) <=> I!cache_served(c)
    /\ \A c : IP!cache_tick(c) = I!cache_tick(c)
<1>1. ASSUME NEW c, NEW r PROVE IP!Hit(c, r) = I!Hit(c, r)
  BY Zenon DEF IP!Hit, I!Hit, IP!Used, I!Used, IP!find_way, I!find_way, IP!Ways_of,
       I!Ways_of, IP!Lowest, I!Lowest, IP!index_of, I!index_of, IP!tag_of, I!tag_of,
       IP!Way, I!Way, IP!touch, I!touch, IP!OnPath, I!OnPath, IP!Node, I!Node
<1>2. ASSUME NEW c, NEW r PROVE IP!Miss(c, r) = I!Miss(c, r) /\ IP!Merge(c) = I!Merge(c)
  BY Zenon DEF IP!Miss, I!Miss, IP!Merge, I!Merge, IP!choose_victim, I!choose_victim,
       IP!NeedsWriteBack, I!NeedsWriteBack, IP!Lowest, I!Lowest, IP!victim, I!victim,
       IP!Way, I!Way, IP!index_of, I!index_of, IP!addr_of, I!addr_of
<1>3. ASSUME NEW c, NEW r PROVE IP!cache_ready(c, r) = I!cache_ready(c, r)
  BY ISameLines, ISameEngine, <1>1, <1>2 DEF IP!cache_ready, I!cache_ready
<1>4. ASSUME NEW c PROVE IP!cache_served(c) <=> I!cache_served(c)
  BY Zenon DEF IP!cache_served, I!cache_served
<1>5. ASSUME NEW c PROVE IP!HitWaitTick(c) = I!HitWaitTick(c)
  BY ISameEngine DEF IP!HitWaitTick, I!HitWaitTick
<1>6. ASSUME NEW c PROVE IP!WriteBackTick(c) = I!WriteBackTick(c)
  BY ISameEngine DEF IP!WriteBackTick, I!WriteBackTick
<1>7. ASSUME NEW c PROVE IP!FillTick(c) = I!FillTick(c)
  BY Zenon DEF IP!FillTick, I!FillTick, IP!install_line, I!install_line, IP!Asked,
       I!Asked, IP!Got, I!Got, IP!Clocked, I!Clocked, IP!mem_ready, I!mem_ready,
       IP!mem_tick, I!mem_tick, IP!mem_served, I!mem_served, IP!touch, I!touch,
       IP!OnPath, I!OnPath, IP!Node, I!Node, IP!index_of, I!index_of, IP!tag_of,
       I!tag_of
<1>8. ASSUME NEW c PROVE IP!cache_tick(c) = I!cache_tick(c)
  BY ISameEngine, <1>5, <1>6, <1>7 DEF IP!cache_tick, I!cache_tick
<1> QED BY <1>3, <1>4, <1>8

\* The instruction port: the states.
LEMMA ISameStates ==
    \A h, p, d, b : /\ IP!NewCache(h, p, d, b) = I!NewCache(h, p, d, b)
                    /\ IP!CacheState(h, p, d, b) = I!CacheState(h, p, d, b)
<1>1. ASSUME NEW h, NEW p, NEW d, NEW b
      PROVE  IP!NewCache(h, p, d, b) = I!NewCache(h, p, d, b)
  BY Zenon DEF IP!NewCache, I!NewCache, IP!AtLeast1, I!AtLeast1, IP!Set, I!Set,
       IP!Way, I!Way, IP!PlruInit, I!PlruInit, IP!Node, I!Node, IP!NewMem, I!NewMem
<1>2. ASSUME NEW h, NEW p, NEW d, NEW b
      PROVE  IP!CacheState(h, p, d, b) = I!CacheState(h, p, d, b)
  BY Zenon DEF IP!CacheState, I!CacheState, IP!AtLeast1, I!AtLeast1, IP!Set, I!Set,
       IP!Way, I!Way, IP!PlruBits, I!PlruBits, IP!Node, I!Node, IP!MemState,
       I!MemState, IP!LineNo, I!LineNo, IP!Tag, I!Tag, IP!Line, I!Line,
       IP!Request, I!Request, IP!Phases, I!Phases
<1> QED BY <1>1, <1>2

\* The parameters Core gives the instruction port.
IParams ==
    [hit      |-> cfg.icache_hit_latency_cycles,
     prefetch |-> cfg.icache_prefetch_enabled,
     degree   |-> cfg.icache_prefetch_degree,
     backing  |-> cfg.imem_latency_cycles]

ICaches ==
    I!CacheState(cfg.icache_hit_latency_cycles, cfg.icache_prefetch_enabled,
                 cfg.icache_prefetch_degree, cfg.imem_latency_cycles)

\* The states of the instruction port are those of a cache built with them.
LEMMA IBuilt ==
    ASSUME cfg \in Configs
    PROVE  IP!Parameters(IParams) /\ ICaches = IP!Built(IParams)
<1> DEFINE k == IParams
<1>1. /\ k.hit = cfg.icache_hit_latency_cycles /\ k.prefetch = cfg.icache_prefetch_enabled
      /\ k.degree = cfg.icache_prefetch_degree /\ k.backing = cfg.imem_latency_cycles
  BY DEF IParams
<1>2. /\ cfg.icache_hit_latency_cycles \in Nat /\ cfg.icache_prefetch_enabled \in BOOLEAN
      /\ cfg.icache_prefetch_degree \in Nat /\ cfg.imem_latency_cycles \in Nat
  BY ConfigAssumption DEF SimConfig
<1> HIDE DEF k
<1>3. IP!Parameters(k)
  BY <1>1, <1>2 DEF IP!Parameters
<1>4. IP!Built(k) =
        I!CacheState(cfg.icache_hit_latency_cycles, cfg.icache_prefetch_enabled,
                     cfg.icache_prefetch_degree, cfg.imem_latency_cycles)
  BY <1>1, ISameStates, Zenon DEF IP!Built
<1> QED BY <1>3, <1>4 DEF ICaches, k

\* The constructor's state is one of them.
LEMMA INewPort ==
    ASSUME cfg \in Configs
    PROVE  I!NewCache(cfg.icache_hit_latency_cycles, cfg.icache_prefetch_enabled,
                      cfg.icache_prefetch_degree, cfg.imem_latency_cycles) \in ICaches
<1>1. IP!Parameters(IParams) /\ ICaches = IP!Built(IParams)
  BY IBuilt
<1>2. IP!NewCache(IParams.hit, IParams.prefetch, IParams.degree,
                  IParams.backing) \in IP!Built(IParams)
  BY <1>1, PortGeometry, IP!NewCacheType
<1> QED BY <1>1, <1>2, ISameStates DEF IParams

\* What both calls do to the instruction port, with its cache and without.
LEMMA IPortSteps ==
    ASSUME cfg \in Configs, NEW c \in ICaches, NEW r \in I!Request
    PROVE  /\ I!cache_ready(c, r) \in ICaches
           /\ I!cache_ready(c, r).phase # "Idle"
           /\ c.phase = "Idle" => I!cache_ready(c, r).cur = r
           /\ c.phase # "Idle" => I!cache_ready(c, r) = c
           /\ I!cache_tick(c) \in ICaches
           /\ I!cache_tick(c).cur = c.cur
           /\ c.phase = "Idle" => I!cache_tick(c).phase = "Idle"
           /\ I!cache_served(c) => I!cache_tick(c).phase = "Idle"
           /\ [c EXCEPT !.backing = I!mem_ready(@)] \in ICaches
           /\ [c EXCEPT !.backing = I!mem_tick(@)] \in ICaches
<1>1. IP!Parameters(IParams) /\ c \in IP!Built(IParams) /\ r \in IP!Request
  BY IBuilt DEF IP!Request, I!Request, IP!LineNo, I!LineNo
<1>2. /\ IP!cache_ready(c, r) \in IP!Built(IParams)
      /\ IP!cache_tick(c) \in IP!Built(IParams)
  BY <1>1, PortGeometry, IP!ReadySteps, IP!TickSteps
<1>3. /\ IP!cache_ready(c, r).phase # "Idle"
      /\ c.phase = "Idle" => IP!cache_ready(c, r).cur = r
      /\ c.phase # "Idle" => IP!cache_ready(c, r) = c
  BY <1>1, PortGeometry, IP!ReadyRequest
<1>4. /\ IP!cache_tick(c).cur = c.cur
      /\ c.phase = "Idle" => IP!cache_tick(c).phase = "Idle"
      /\ IP!cache_served(c) => IP!cache_tick(c).phase = "Idle"
  BY <1>1, PortGeometry, IP!TickRequest
<1>5. IP!Asked(c) \in IP!Built(IParams) /\ IP!Clocked(c) \in IP!Built(IParams)
  BY <1>1, PortGeometry, IP!BackingSteps
<1>6. /\ I!Asked(c) = [c EXCEPT !.backing = I!mem_ready(@)]
      /\ I!Clocked(c) = [c EXCEPT !.backing = I!mem_tick(@)]
  BY DEF I!Asked, I!Clocked
<1>7. ICaches = IP!Built(IParams)
  BY IBuilt
<1>8. /\ IP!cache_ready(c, r) = I!cache_ready(c, r) /\ IP!cache_tick(c) = I!cache_tick(c)
      /\ IP!cache_served(c) <=> I!cache_served(c)
      /\ IP!Asked(c) = I!Asked(c) /\ IP!Clocked(c) = I!Clocked(c)
  BY ISameCalls, ISameEngine
<1> QED BY <1>2, <1>3, <1>4, <1>5, <1>6, <1>7, <1>8

\* Ticks the fetch port can be from serving, and those it is.
IWorst ==
    IF cfg.icache_enabled THEN iport.hit_latency - 1 + iport.backing.latency
                          ELSE iport.backing.latency - 1

FetchLeft(c) == IP!Ahead(c, cfg.icache_enabled, IWorst)

\* Asking the fetch port adds nothing to its wait, it answers when nothing is
\* left, and otherwise a tick takes one off.  It is never written to.
LEMMA IPortWait ==
    ASSUME cfg \in Configs, iport \in ICaches, pc \in Word, IP!Clean(iport)
    PROVE  /\ IP!Clean(IAsked) /\ IP!Clean(IClocked(IAsked))
           /\ IWorst \in Nat
           /\ FetchLeft(iport) \in 0 .. IWorst
           /\ FetchLeft(IAsked) \in Nat /\ FetchLeft(IAsked) <= FetchLeft(iport)
           /\ i_served <=> FetchLeft(IAsked) = 0
           /\ ~i_served => FetchLeft(IClocked(IAsked)) = FetchLeft(IAsked) - 1
<1> DEFINE r == [line |-> LineOf(pc, ILineBytes), write |-> FALSE]
           on == cfg.icache_enabled
           a == IP!PortAsked(iport, on, r)
<1>1. /\ IP!Parameters(IParams) /\ iport \in IP!Built(IParams)
      /\ ICaches = IP!Built(IParams) /\ on \in BOOLEAN
  BY IBuilt, ConfigAssumption DEF SimConfig
<1>2. r \in IP!Request /\ ~r.write
  BY LineType DEF IP!Request, IP!LineNo
<1> HIDE DEF r
<1>3. /\ IAsked = a
      /\ \A c : IClocked(c) = IP!PortClocked(c, on)
      /\ i_served <=> IP!PortServed(a, on)
  <2>1. /\ I!Asked(iport) = [iport EXCEPT !.backing = I!mem_ready(@)]
        /\ \A c : I!Clocked(c) = [c EXCEPT !.backing = I!mem_tick(@)]
    BY DEF I!Asked, I!Clocked
  <2>2. IAsked = a
    BY <2>1, ISameCalls, ISameEngine DEF IAsked, IP!PortAsked, r
  <2>3. \A c : IClocked(c) = IP!PortClocked(c, on)
    BY <2>1, ISameCalls, ISameEngine DEF IClocked, IP!PortClocked
  <2> HIDE DEF a
  <2>4. i_served <=> IP!PortServed(a, on)
    BY <2>2, ISameCalls, ISameTimer DEF i_served, IP!PortServed
  <2> QED BY <2>2, <2>3, <2>4
<1>4. /\ iport.hit_latency \in Nat /\ iport.hit_latency >= 1
      /\ iport.backing.latency \in Nat /\ iport.backing.latency >= 1
  BY <1>1, PortGeometry, IP!Members
<1>5. IWorst \in Nat
  BY <1>4 DEF IWorst
<1>6. /\ IP!cache_ready(iport, r) \in IP!Built(IParams)
      /\ IP!Clean(IP!cache_ready(iport, r))
  BY <1>1, <1>2, PortGeometry, IP!ReadySteps, IP!CleanReady
<1>7. \A c \in IP!Built(IParams) :
        /\ c.hit_latency = iport.hit_latency
        /\ c.backing.latency = iport.backing.latency
  BY <1>1, PortGeometry, IP!Members
<1>8. ASSUME NEW c \in IP!Built(IParams), IP!Clean(c)
      PROVE  /\ on => IP!Left(c) <= IWorst
             /\ ~on => c.backing.latency - 1 <= IWorst
  <2>1. IP!Left(c) <= c.hit_latency - 1 + c.backing.latency
    BY <1>1, <1>8, PortGeometry, IP!LeftBound DEF IP!Clean
  <2> QED BY <1>4, <1>7, <2>1 DEF IWorst
<1>9. FetchLeft(iport) \in 0 .. IWorst
  BY <1>1, <1>5, <1>8, PortGeometry, IP!AheadBound DEF FetchLeft
<1>10. /\ FetchLeft(a) \in Nat /\ FetchLeft(a) <= FetchLeft(iport)
       /\ IP!PortServed(a, on) <=> FetchLeft(a) = 0
       /\ ~IP!PortServed(a, on) => FetchLeft(IP!PortClocked(a, on)) = FetchLeft(a) - 1
  <2>1. on => IP!Left(IP!cache_ready(iport, r)) <= IWorst
    BY <1>6, <1>8
  <2> QED BY <1>1, <1>2, <1>5, <2>1, PortGeometry, IP!AheadStep DEF FetchLeft
<1>11. a \in IP!Built(IParams) /\ IP!Clean(a)
  BY <1>1, <1>6, PortGeometry, IP!BackingSteps, IP!CleanTimer DEF IP!PortAsked
<1> HIDE DEF a
<1>12. IP!Clean(IP!PortClocked(a, on))
  BY <1>1, <1>11, PortGeometry, IP!CleanTick, IP!CleanTimer DEF IP!PortClocked
<1> QED BY <1>3, <1>5, <1>9, <1>10, <1>11, <1>12

-----------------------------------------------------------------------------
(***************************************************************************)
(* The data port.                                                          *)
(***************************************************************************)

\* The data port: lookup and replacement.
LEMMA DSameLines ==
    /\ \A l : /\ DP!index_of(l) = D!index_of(l) /\ DP!tag_of(l) = D!tag_of(l)
              /\ DP!next_line(l) = D!next_line(l)
    /\ \A s, t : DP!addr_of(s, t) = D!addr_of(s, t)
    /\ \A c, l : /\ DP!Ways_of(c, l) = D!Ways_of(c, l)
                 /\ DP!Resident(c, l) <=> D!Resident(c, l)
                 /\ DP!find_way(c, l) = D!find_way(c, l)
    /\ \A c, s, w : DP!NeedsWriteBack(c, s, w) <=> D!NeedsWriteBack(c, s, w)
    /\ \A c, s : DP!choose_victim(c, s) = D!choose_victim(c, s)
    /\ \A b, w : DP!touch(b, w) = D!touch(b, w)
<1>1. ASSUME NEW l PROVE /\ DP!index_of(l) = D!index_of(l) /\ DP!tag_of(l) = D!tag_of(l)
                         /\ DP!next_line(l) = D!next_line(l)
  BY Zenon DEF DP!index_of, D!index_of, DP!tag_of, D!tag_of, DP!next_line,
       D!next_line
<1>2. ASSUME NEW s, NEW t PROVE DP!addr_of(s, t) = D!addr_of(s, t)
  BY Zenon DEF DP!addr_of, D!addr_of
<1>3. ASSUME NEW c, NEW l PROVE DP!Ways_of(c, l) = D!Ways_of(c, l)
  BY Zenon DEF DP!Ways_of, D!Ways_of, DP!index_of, D!index_of, DP!tag_of, D!tag_of,
       DP!Way, D!Way
<1>4. ASSUME NEW c, NEW l PROVE DP!Resident(c, l) <=> D!Resident(c, l)
  BY <1>3, Zenon DEF DP!Resident, D!Resident
<1>5. ASSUME NEW c, NEW l PROVE DP!find_way(c, l) = D!find_way(c, l)
  BY <1>3, Zenon DEF DP!find_way, D!find_way, DP!Lowest, D!Lowest
<1>6. ASSUME NEW c, NEW s, NEW w
      PROVE  DP!NeedsWriteBack(c, s, w) <=> D!NeedsWriteBack(c, s, w)
  BY Zenon DEF DP!NeedsWriteBack, D!NeedsWriteBack
<1>7. ASSUME NEW c, NEW s PROVE DP!choose_victim(c, s) = D!choose_victim(c, s)
  BY Zenon DEF DP!choose_victim, D!choose_victim, DP!Lowest, D!Lowest, DP!Way,
       D!Way, DP!victim, D!victim
<1>8. ASSUME NEW b, NEW w PROVE DP!touch(b, w) = D!touch(b, w)
  BY Zenon DEF DP!touch, D!touch, DP!OnPath, D!OnPath, DP!Node, D!Node
<1> QED BY <1>1, <1>2, <1>3, <1>4, <1>5, <1>6, <1>7, <1>8

\* The data port: the timer behind it.
LEMMA DSameTimer ==
    /\ \A m : DP!mem_ready(m) = D!mem_ready(m) /\ DP!mem_tick(m) = D!mem_tick(m)
    /\ \A m : DP!mem_served(m) <=> D!mem_served(m)
BY Zenon DEF DP!mem_ready, D!mem_ready, DP!mem_tick, D!mem_tick, DP!mem_served,
     D!mem_served

\* The data port: fills and the prefetch engine.
LEMMA DSameEngine ==
    /\ \A c, l, w, d, p : DP!install_line(c, l, w, d, p) = D!install_line(c, l, w, d, p)
    /\ \A c, t, n : DP!Queued(c, t, n) = D!Queued(c, t, n)
    /\ \A c, l : DP!maybe_start_prefetch(c, l) = D!maybe_start_prefetch(c, l)
    /\ \A c : DP!Asked(c) = D!Asked(c) /\ DP!Clocked(c) = D!Clocked(c)
    /\ \A c : DP!Got(c) <=> D!Got(c)
    /\ \A c : DP!service_prefetch(c) = D!service_prefetch(c)
<1>1. ASSUME NEW c, NEW l, NEW w, NEW d, NEW p
      PROVE  DP!install_line(c, l, w, d, p) = D!install_line(c, l, w, d, p)
  BY Zenon DEF DP!install_line, D!install_line, DP!touch, D!touch, DP!index_of,
       D!index_of, DP!tag_of, D!tag_of, DP!OnPath, D!OnPath, DP!Node, D!Node
<1>2. ASSUME NEW c, NEW t, NEW n PROVE DP!Queued(c, t, n) = D!Queued(c, t, n)
  BY DSameLines DEF DP!Queued, D!Queued
<1>3. ASSUME NEW c, NEW l PROVE DP!maybe_start_prefetch(c, l) = D!maybe_start_prefetch(c, l)
  BY DSameLines, <1>2 DEF DP!maybe_start_prefetch, D!maybe_start_prefetch
<1>4. ASSUME NEW c
      PROVE  /\ DP!Asked(c) = D!Asked(c) /\ DP!Clocked(c) = D!Clocked(c)
             /\ DP!Got(c) <=> D!Got(c)
  BY Zenon DEF DP!Asked, D!Asked, DP!Clocked, D!Clocked, DP!Got, D!Got,
       DP!mem_ready, D!mem_ready, DP!mem_tick, D!mem_tick, DP!mem_served,
       D!mem_served
<1>5. ASSUME NEW c PROVE DP!service_prefetch(c) = D!service_prefetch(c)
  BY DSameLines, <1>1, <1>2, <1>4 DEF DP!service_prefetch, D!service_prefetch
<1> QED BY <1>1, <1>2, <1>3, <1>4, <1>5

\* The data port: the calls of the port.
LEMMA DSameCalls ==
    /\ \A c, r : DP!cache_ready(c, r) = D!cache_ready(c, r)
    /\ \A c : DP!cache_served(c) <=> D!cache_served(c)
    /\ \A c : DP!cache_tick(c) = D!cache_tick(c)
<1>1. ASSUME NEW c, NEW r PROVE DP!Hit(c, r) = D!Hit(c, r)
  BY Zenon DEF DP!Hit, D!Hit, DP!Used, D!Used, DP!find_way, D!find_way, DP!Ways_of,
       D!Ways_of, DP!Lowest, D!Lowest, DP!index_of, D!index_of, DP!tag_of, D!tag_of,
       DP!Way, D!Way, DP!touch, D!touch, DP!OnPath, D!OnPath, DP!Node, D!Node
<1>2. ASSUME NEW c, NEW r PROVE DP!Miss(c, r) = D!Miss(c, r) /\ DP!Merge(c) = D!Merge(c)
  BY Zenon DEF DP!Miss, D!Miss, DP!Merge, D!Merge, DP!choose_victim, D!choose_victim,
       DP!NeedsWriteBack, D!NeedsWriteBack, DP!Lowest, D!Lowest, DP!victim, D!victim,
       DP!Way, D!Way, DP!index_of, D!index_of, DP!addr_of, D!addr_of
<1>3. ASSUME NEW c, NEW r PROVE DP!cache_ready(c, r) = D!cache_ready(c, r)
  BY DSameLines, DSameEngine, <1>1, <1>2 DEF DP!cache_ready, D!cache_ready
<1>4. ASSUME NEW c PROVE DP!cache_served(c) <=> D!cache_served(c)
  BY Zenon DEF DP!cache_served, D!cache_served
<1>5. ASSUME NEW c PROVE DP!HitWaitTick(c) = D!HitWaitTick(c)
  BY DSameEngine DEF DP!HitWaitTick, D!HitWaitTick
<1>6. ASSUME NEW c PROVE DP!WriteBackTick(c) = D!WriteBackTick(c)
  BY DSameEngine DEF DP!WriteBackTick, D!WriteBackTick
<1>7. ASSUME NEW c PROVE DP!FillTick(c) = D!FillTick(c)
  BY Zenon DEF DP!FillTick, D!FillTick, DP!install_line, D!install_line, DP!Asked,
       D!Asked, DP!Got, D!Got, DP!Clocked, D!Clocked, DP!mem_ready, D!mem_ready,
       DP!mem_tick, D!mem_tick, DP!mem_served, D!mem_served, DP!touch, D!touch,
       DP!OnPath, D!OnPath, DP!Node, D!Node, DP!index_of, D!index_of, DP!tag_of,
       D!tag_of
<1>8. ASSUME NEW c PROVE DP!cache_tick(c) = D!cache_tick(c)
  BY DSameEngine, <1>5, <1>6, <1>7 DEF DP!cache_tick, D!cache_tick
<1> QED BY <1>3, <1>4, <1>8

\* The data port: the states.
LEMMA DSameStates ==
    \A h, p, d, b : /\ DP!NewCache(h, p, d, b) = D!NewCache(h, p, d, b)
                    /\ DP!CacheState(h, p, d, b) = D!CacheState(h, p, d, b)
<1>1. ASSUME NEW h, NEW p, NEW d, NEW b
      PROVE  DP!NewCache(h, p, d, b) = D!NewCache(h, p, d, b)
  BY Zenon DEF DP!NewCache, D!NewCache, DP!AtLeast1, D!AtLeast1, DP!Set, D!Set,
       DP!Way, D!Way, DP!PlruInit, D!PlruInit, DP!Node, D!Node, DP!NewMem, D!NewMem
<1>2. ASSUME NEW h, NEW p, NEW d, NEW b
      PROVE  DP!CacheState(h, p, d, b) = D!CacheState(h, p, d, b)
  BY Zenon DEF DP!CacheState, D!CacheState, DP!AtLeast1, D!AtLeast1, DP!Set, D!Set,
       DP!Way, D!Way, DP!PlruBits, D!PlruBits, DP!Node, D!Node, DP!MemState,
       D!MemState, DP!LineNo, D!LineNo, DP!Tag, D!Tag, DP!Line, D!Line,
       DP!Request, D!Request, DP!Phases, D!Phases
<1> QED BY <1>1, <1>2

\* The parameters Core gives the data port.
DParams ==
    [hit      |-> cfg.dcache_hit_latency_cycles,
     prefetch |-> FALSE,
     degree   |-> 1,
     backing  |-> cfg.dmem_latency_cycles]

DCaches ==
    D!CacheState(cfg.dcache_hit_latency_cycles, FALSE, 1, cfg.dmem_latency_cycles)

\* The states of the data port are those of a cache built with them.
LEMMA DBuilt ==
    ASSUME cfg \in Configs
    PROVE  DP!Parameters(DParams) /\ DCaches = DP!Built(DParams)
<1> DEFINE k == DParams
<1>1. /\ k.hit = cfg.dcache_hit_latency_cycles /\ k.prefetch = FALSE
      /\ k.degree = 1 /\ k.backing = cfg.dmem_latency_cycles
  BY DEF DParams
<1>2. /\ cfg.dcache_hit_latency_cycles \in Nat /\ FALSE \in BOOLEAN /\ 1 \in Nat
      /\ cfg.dmem_latency_cycles \in Nat
  BY ConfigAssumption DEF SimConfig
<1> HIDE DEF k
<1>3. DP!Parameters(k)
  BY <1>1, <1>2 DEF DP!Parameters
<1>4. DP!Built(k) =
        D!CacheState(cfg.dcache_hit_latency_cycles, FALSE, 1, cfg.dmem_latency_cycles)
  BY <1>1, DSameStates, Zenon DEF DP!Built
<1> QED BY <1>3, <1>4 DEF DCaches, k

\* The constructor's state is one of them.
LEMMA DNewPort ==
    ASSUME cfg \in Configs
    PROVE  D!NewCache(cfg.dcache_hit_latency_cycles, FALSE, 1,
                      cfg.dmem_latency_cycles) \in DCaches
<1>1. DP!Parameters(DParams) /\ DCaches = DP!Built(DParams)
  BY DBuilt
<1>2. DP!NewCache(DParams.hit, DParams.prefetch, DParams.degree,
                  DParams.backing) \in DP!Built(DParams)
  BY <1>1, PortGeometry, DP!NewCacheType
<1> QED BY <1>1, <1>2, DSameStates DEF DParams

\* What both calls do to the data port, with its cache and without.
LEMMA DPortSteps ==
    ASSUME cfg \in Configs, NEW c \in DCaches, NEW r \in D!Request
    PROVE  /\ D!cache_ready(c, r) \in DCaches
           /\ D!cache_ready(c, r).phase # "Idle"
           /\ c.phase = "Idle" => D!cache_ready(c, r).cur = r
           /\ c.phase # "Idle" => D!cache_ready(c, r) = c
           /\ D!cache_tick(c) \in DCaches
           /\ D!cache_tick(c).cur = c.cur
           /\ c.phase = "Idle" => D!cache_tick(c).phase = "Idle"
           /\ D!cache_served(c) => D!cache_tick(c).phase = "Idle"
           /\ [c EXCEPT !.backing = D!mem_ready(@)] \in DCaches
           /\ [c EXCEPT !.backing = D!mem_tick(@)] \in DCaches
<1>1. DP!Parameters(DParams) /\ c \in DP!Built(DParams) /\ r \in DP!Request
  BY DBuilt DEF DP!Request, D!Request, DP!LineNo, D!LineNo
<1>2. /\ DP!cache_ready(c, r) \in DP!Built(DParams)
      /\ DP!cache_tick(c) \in DP!Built(DParams)
  BY <1>1, PortGeometry, DP!ReadySteps, DP!TickSteps
<1>3. /\ DP!cache_ready(c, r).phase # "Idle"
      /\ c.phase = "Idle" => DP!cache_ready(c, r).cur = r
      /\ c.phase # "Idle" => DP!cache_ready(c, r) = c
  BY <1>1, PortGeometry, DP!ReadyRequest
<1>4. /\ DP!cache_tick(c).cur = c.cur
      /\ c.phase = "Idle" => DP!cache_tick(c).phase = "Idle"
      /\ DP!cache_served(c) => DP!cache_tick(c).phase = "Idle"
  BY <1>1, PortGeometry, DP!TickRequest
<1>5. DP!Asked(c) \in DP!Built(DParams) /\ DP!Clocked(c) \in DP!Built(DParams)
  BY <1>1, PortGeometry, DP!BackingSteps
<1>6. /\ D!Asked(c) = [c EXCEPT !.backing = D!mem_ready(@)]
      /\ D!Clocked(c) = [c EXCEPT !.backing = D!mem_tick(@)]
  BY DEF D!Asked, D!Clocked
<1>7. DCaches = DP!Built(DParams)
  BY DBuilt
<1>8. /\ DP!cache_ready(c, r) = D!cache_ready(c, r) /\ DP!cache_tick(c) = D!cache_tick(c)
      /\ DP!cache_served(c) <=> D!cache_served(c)
      /\ DP!Asked(c) = D!Asked(c) /\ DP!Clocked(c) = D!Clocked(c)
  BY DSameCalls, DSameEngine
<1> QED BY <1>2, <1>3, <1>4, <1>5, <1>6, <1>7, <1>8

\* Ticks the data port can be from serving, with a write-back, and those it is.
DWorst ==
    IF cfg.dcache_enabled THEN dport.hit_latency - 1 + 2 * dport.backing.latency
                          ELSE dport.backing.latency - 1

AccessLeft(c) == DP!Ahead(c, cfg.dcache_enabled, DWorst)

\* MEM waits for an access no longer than that, and on every cycle it waits
\* the port comes one tick nearer.
LEMMA DPortWait ==
    ASSUME cfg \in Configs, dport \in DCaches,
           [line |-> LineOf(ex_mem.alu_out, DLineBytes), write |-> storing] \in D!Request
    PROVE  /\ DWorst \in Nat
           /\ AccessLeft(dport) \in 0 .. DWorst
           /\ mem_stall => AccessLeft(DClocked(DAsked)) <= AccessLeft(dport) - 1
<1> DEFINE r == [line |-> LineOf(ex_mem.alu_out, DLineBytes), write |-> storing]
           on == cfg.dcache_enabled
           a == DP!PortAsked(dport, on, r)
<1>1. /\ DP!Parameters(DParams) /\ dport \in DP!Built(DParams)
      /\ DCaches = DP!Built(DParams) /\ on \in BOOLEAN
  BY DBuilt, ConfigAssumption DEF SimConfig
<1>2. r \in DP!Request
  BY DEF DP!Request, DP!LineNo, D!Request, D!LineNo
<1> HIDE DEF r
<1>3. /\ accessing => DAsked = a
      /\ \A c : DClocked(c) = DP!PortClocked(c, on)
      /\ accessing => (d_served <=> DP!PortServed(a, on))
  <2>1. /\ D!Asked(dport) = [dport EXCEPT !.backing = D!mem_ready(@)]
        /\ \A c : D!Clocked(c) = [c EXCEPT !.backing = D!mem_tick(@)]
    BY DEF D!Asked, D!Clocked
  <2>2. accessing => DAsked = a
    BY <2>1, DSameCalls, DSameEngine DEF DAsked, DP!PortAsked, r
  <2>3. \A c : DClocked(c) = DP!PortClocked(c, on)
    BY <2>1, DSameCalls, DSameEngine DEF DClocked, DP!PortClocked
  <2> HIDE DEF a
  <2>4. accessing => (d_served <=> DP!PortServed(a, on))
    BY <2>2, DSameCalls, DSameTimer DEF d_served, DP!PortServed
  <2> QED BY <2>2, <2>3, <2>4
<1>4. /\ dport.hit_latency \in Nat /\ dport.hit_latency >= 1
      /\ dport.backing.latency \in Nat /\ dport.backing.latency >= 1
  BY <1>1, PortGeometry, DP!Members
<1>5. DWorst \in Nat
  BY <1>4 DEF DWorst
<1>6. DP!cache_ready(dport, r) \in DP!Built(DParams)
  BY <1>1, <1>2, PortGeometry, DP!ReadySteps
<1>7. \A c \in DP!Built(DParams) :
        /\ c.hit_latency = dport.hit_latency
        /\ c.backing.latency = dport.backing.latency
  BY <1>1, PortGeometry, DP!Members
<1>8. ASSUME NEW c \in DP!Built(DParams)
      PROVE  /\ on => DP!Left(c) <= DWorst
             /\ ~on => c.backing.latency - 1 <= DWorst
  <2>1. DP!Left(c) \in 0 .. (c.hit_latency - 1 + 2 * c.backing.latency)
    BY <1>1, PortGeometry, DP!LeftBound
  <2> QED BY <1>4, <1>7, <2>1 DEF DWorst
<1>9. AccessLeft(dport) \in 0 .. DWorst
  BY <1>1, <1>5, <1>8, PortGeometry, DP!AheadBound DEF AccessLeft
<1>10. /\ AccessLeft(a) \in Nat /\ AccessLeft(a) <= AccessLeft(dport)
       /\ ~DP!PortServed(a, on) => AccessLeft(DP!PortClocked(a, on)) = AccessLeft(a) - 1
  <2>1. on => DP!Left(DP!cache_ready(dport, r)) <= DWorst
    BY <1>6, <1>8
  <2> QED BY <1>1, <1>2, <1>5, <2>1, PortGeometry, DP!AheadStep DEF AccessLeft
<1> HIDE DEF a
<1>11. mem_stall => AccessLeft(DClocked(DAsked)) <= AccessLeft(dport) - 1
  BY <1>3, <1>9, <1>10 DEF mem_stall
<1> QED BY <1>5, <1>9, <1>11

-----------------------------------------------------------------------------
(***************************************************************************)
(* The pipeline between the ports.                                         *)
(***************************************************************************)

\* A port answers yes or no.
LEMMA AnswersAreBoolean == i_served \in BOOLEAN
BY DEF i_served, I!cache_served, I!mem_served

\* Every step of the core is a step of the pipeline, or leaves it alone.
LEMMA CoreStepMovesPipeline == [CoreStep]_all => [Next]_vars
<1> SUFFICES ASSUME [CoreStep]_all PROVE [Next]_vars
  OBVIOUS
<1>1. CASE CoreStallTick
  BY <1>1, AnswersAreBoolean DEF CoreStallTick, Next, Tick
<1>2. CASE CoreAdvanceTick
  BY <1>2, AnswersAreBoolean DEF CoreAdvanceTick, Next, Tick
<1>3. CASE CoreAbortTick
  BY <1>3, AnswersAreBoolean DEF CoreAbortTick, Next, Tick
<1>4. CASE Return
  BY <1>4 DEF Return
<1>5. CASE UNCHANGED all
  BY <1>5 DEF all
<1> QED BY <1>1, <1>2, <1>3, <1>4, <1>5 DEF CoreStep

\* The core with its ports, caches, statistics and run() loop is an instance
\* of the pipeline that meets arbitrary waits on both ports: Core::tick()
\* does to the pipeline registers nothing the pipeline model does not allow.
THEOREM CoreIsPipeline == CoreSpec => Spec
<1>1. CoreInit => Init
  BY DEF CoreInit
<1> QED BY <1>1, CoreStepMovesPipeline, PTL DEF CoreSpec, Spec

\* Whatever caches, latencies and prefetching Core is configured with, it
\* computes what the sequential machine does, as long as instructions are
\* fetched from word-aligned addresses or there is no predictor.
THEOREM CoreImplementsIsa == CoreSpec /\ []Aligned => ImplementsIsa
BY CoreIsPipeline, Refinement, PTL

\* Without a predictor, or for a program of static word-aligned targets, the
\* core computes what the sequential machine does, in every configuration
\* and with nothing assumed of its behaviour.
THEOREM CoreRunsPrograms ==
    ASSUME AlignedByProgram PROVE CoreSpec => ImplementsIsa
  BY CoreIsPipeline, RefinementByProgram, PTL

-----------------------------------------------------------------------------
(***************************************************************************)
(* Statistics and exit code.                                               *)
(***************************************************************************)

\* Each latch holds the operation of the program at the address it names,
\* and the machine stopped at what it says it stopped at.
OpsOfProgram ==
    /\ if_id.valid  => if_id.raw = imem[if_id.pc]
    /\ id_ex.valid  => id_ex.op  = imem[id_ex.pc].op
    /\ ex_mem.valid => ex_mem.op = imem[ex_mem.pc].op
    /\ mem_wb.valid => mem_wb.op = imem[mem_wb.pc].op
    /\ halt_reason \in {"None", "Ebreak", "Illegal"}
    /\ halt_reason = "Ebreak"  => imem[halt_pc].op = "EBREAK"
    /\ halt_reason = "Illegal" => imem[halt_pc].op = "ILLEGAL"

\* No latch is valid at first.
LEMMA OpsInit == Init => OpsOfProgram
BY DEF Init, OpsOfProgram, IfIdBubble, IdExBubble, ExMemBubble, MemWbBubble

\* Ticks move operations along with their addresses.
LEMMA OpsNext == OpsOfProgram /\ [Next]_vars => OpsOfProgram'
<1> SUFFICES ASSUME OpsOfProgram, [Next]_vars PROVE OpsOfProgram'
  OBVIOUS
<1>1. ASSUME DetectHalt, imem' = imem
      PROVE  /\ halt_reason' \in {"None", "Ebreak", "Illegal"}
             /\ halt_reason' = "Ebreak"  => imem'[halt_pc'].op = "EBREAK"
             /\ halt_reason' = "Illegal" => imem'[halt_pc'].op = "ILLEGAL"
  BY <1>1 DEF OpsOfProgram, DetectHalt, Halting, Halts
<1>2. ASSUME NEW i \in BOOLEAN, StallTick(i) PROVE OpsOfProgram'
  <2>1. /\ id_ex'.valid <=> id_ex.valid
        /\ id_ex'.op = id_ex.op /\ id_ex'.pc = id_ex.pc
    BY <1>2 DEF StallTick, CapturedOperands
  <2>2. ~mem_wb'.valid
    BY <1>2 DEF StallTick, MemWbBubble
  <2> QED BY <1>1, <1>2, <2>1, <2>2 DEF StallTick, OpsOfProgram
<1>3. ASSUME NEW i \in BOOLEAN, AdvanceTick(i) PROVE OpsOfProgram'
  <2>0. imem' = imem /\ DetectHalt /\ FetchLatch(i) /\ DecodeLatch
        /\ ex_mem' = Executed /\ mem_wb' = Accessed
    BY <1>3 DEF AdvanceTick
  <2>1. if_id'.valid => if_id'.raw = imem'[if_id'.pc]
    BY <2>0 DEF FetchLatch, IfIdBubble, Fetched, OpsOfProgram
  <2>2. id_ex'.valid => id_ex'.op = imem'[id_ex'.pc].op
    BY <2>0 DEF DecodeLatch, IdExBubble, Decoded, decode, OpsOfProgram
  <2>3. ex_mem'.valid => ex_mem'.op = imem'[ex_mem'.pc].op
    BY <2>0 DEF Executed, ExMemBubble, OpsOfProgram
  <2>4. mem_wb'.valid => mem_wb'.op = imem'[mem_wb'.pc].op
    BY <2>0 DEF Accessed, MemWbBubble, OpsOfProgram
  <2> QED BY <1>1, <2>0, <2>1, <2>2, <2>3, <2>4 DEF OpsOfProgram
<1>4. ASSUME NEW i \in BOOLEAN, AbortTick(i) PROVE OpsOfProgram'
  BY <1>4 DEF AbortTick, pipe, OpsOfProgram
<1>5. CASE UNCHANGED vars
  BY <1>5 DEF vars, pipe, OpsOfProgram
<1> QED BY <1>2, <1>3, <1>4, <1>5 DEF Next, Tick, HaltedTick

\* What the counters and the exit code are, step by step.
Accounts ==
    /\ cfg \in Configs
    /\ stats \in Stats
    /\ stats.cycles <= cfg.max_cycles
    /\ past.control \in Nat
    /\ BranchAccounting
    /\ exit \in {NoExit, 0, 1, 3}
    /\ ExitTellsOutcome

\* A run starts with all counters at zero.
LEMMA AccountsInit == CoreInit => Accounts
<1> SUFFICES ASSUME CoreInit PROVE Accounts
  OBVIOUS
<1>1. cfg \in Configs /\ cfg.max_cycles \in Nat
  BY ConfigAssumption DEF CoreInit, SimConfig
<1>2. stats \in Stats /\ stats.cycles = 0 /\ past.control = 0
  BY DEF CoreInit, Stats
<1>3. BranchAccounting
  BY DEF CoreInit, Init, BranchAccounting, ExMemBubble, MemWbBubble, Bump
<1> QED BY <1>1, <1>2, <1>3 DEF CoreInit, Accounts, ExitTellsOutcome, NoExit

\* A tick, on either path, counts the cycle, what retires, and an outcome
\* when EX is latched.
LEMMA Counts ==
    ASSUME stats \in Stats, past.control \in Nat, Observe, OpsOfProgram
    PROVE  /\ stats' \in Stats
           /\ stats'.cycles = stats.cycles + 1
           /\ stats'.branch_correct + stats'.branch_mispredicts =
                stats.branch_correct + stats.branch_mispredicts
                  + Bump(0, control /\ ~mem_stall)
           /\ past'.control =
                past.control + Bump(0, mem_wb.valid /\ is_control(mem_wb.op))
           /\ past'.control \in Nat
           /\ cfg' = cfg /\ exit' = exit
<1>1. stats' = Counted /\ past' = Remembered /\ cfg' = cfg /\ exit' = exit
  BY DEF Observe
<1>2. /\ stats.cycles \in Nat /\ stats.instructions \in Nat
      /\ stats.branch_correct \in Nat /\ stats.branch_mispredicts \in Nat
  BY DEF Stats
<1>3. /\ stats' \in Stats
      /\ stats'.cycles = stats.cycles + 1
  BY <1>1, <1>2 DEF Counted, Bump, Stats
<1>4. stats'.branch_correct + stats'.branch_mispredicts =
        stats.branch_correct + stats.branch_mispredicts
          + Bump(0, control /\ ~mem_stall)
  BY <1>1, <1>2 DEF Counted, Bump
<1>5. past'.control =
        past.control + Bump(0, mem_wb.valid /\ is_control(mem_wb.op))
  <2>1. CASE mem_wb.valid
    BY <1>1, <2>1 DEF Remembered, OpsOfProgram, Bump
  <2>2. CASE ~mem_wb.valid
    BY <1>1, <2>2 DEF Remembered, Bump
  <2> QED BY <2>1, <2>2
<1>6. past'.control \in Nat
  BY <1>5 DEF Bump
<1> QED BY <1>1, <1>3, <1>4, <1>5, <1>6

\* Every step keeps the accounts.
LEMMA AccountsNext ==
    Accounts /\ OpsOfProgram /\ [CoreStep]_all => Accounts'
<1> SUFFICES ASSUME Accounts, OpsOfProgram, [CoreStep]_all PROVE Accounts'
  OBVIOUS
<1>0. /\ cfg \in Configs /\ cfg.max_cycles \in Nat /\ stats \in Stats
      /\ stats.cycles \in Nat /\ past.control \in Nat
  BY ConfigAssumption DEF Accounts, SimConfig, Stats
<1>1. ASSUME Looping, Observe, BranchAccounting' PROVE Accounts'
  <2>1. exit' = NoExit /\ ExitTellsOutcome'
    BY <1>1 DEF Looping, Observe, ExitTellsOutcome, NoExit
  <2>2. stats'.cycles <= cfg'.max_cycles
    BY <1>0, <1>1, Counts DEF Looping
  <2> QED BY <1>0, <1>1, <2>1, <2>2, Counts DEF Accounts
<1>2. CASE CoreStallTick
  <2>1. ex_mem' = ex_mem /\ ~mem_wb'.valid /\ mem_stall /\ Observe /\ Looping
    BY <1>2 DEF CoreStallTick, StallTick, MemWbBubble
  <2>2. BranchAccounting'
    BY <1>0, <2>1, Counts DEF Accounts, BranchAccounting, Bump, Stats
  <2> QED BY <1>1, <2>1, <2>2
<1>3. CASE CoreAdvanceTick
  <2>1. ex_mem' = Executed /\ mem_wb' = Accessed /\ ~mem_stall /\ Observe /\ Looping
    BY <1>3 DEF CoreAdvanceTick, AdvanceTick
  <2>2. /\ ex_mem'.valid <=> id_ex.valid
        /\ id_ex.valid => ex_mem'.op = id_ex.op
    BY <2>1 DEF Executed, ExMemBubble
  <2>3. /\ mem_wb'.valid <=> ex_mem.valid
        /\ ex_mem.valid => mem_wb'.op = ex_mem.op
    BY <2>1 DEF Accessed, MemWbBubble
  <2>4. BranchAccounting'
    BY <1>0, <2>1, <2>2, <2>3, Counts
       DEF Accounts, BranchAccounting, Bump, Stats, control
  <2> QED BY <1>1, <2>1, <2>4
<1>4. CASE CoreAbortTick
  BY <1>4 DEF CoreAbortTick, AbortTick, Looping, own, pipe, Accounts,
              BranchAccounting, ExitTellsOutcome, NoExit
<1>5. CASE Return
  <2>1. /\ UNCHANGED <<vars, cfg, stats, past>>
        /\ exit' = ExitCode
        /\ ~halted => ~(stats.cycles < cfg.max_cycles)
    BY <1>5 DEF Return, Looping
  <2>2. /\ halt_reason' = halt_reason /\ halt_pc' = halt_pc /\ imem' = imem
        /\ stats' = stats /\ cfg' = cfg /\ past' = past
    BY <2>1 DEF vars
  <2>3. ~halted => stats.cycles = cfg.max_cycles
    BY <1>0, <2>1 DEF Accounts
  <2>4. exit' \in {0, 1, 3}
    BY <2>1 DEF ExitCode
  <2>5. ExitTellsOutcome'
    BY <2>1, <2>2, <2>3 DEF ExitCode, ExitTellsOutcome, halted, OpsOfProgram
  <2>6. BranchAccounting'
    BY <2>1 DEF vars, pipe, Accounts, BranchAccounting
  <2> QED BY <2>2, <2>4, <2>5, <2>6 DEF Accounts
<1>6. CASE UNCHANGED all
  BY <1>6 DEF all, own, vars, pipe, Accounts, BranchAccounting, ExitTellsOutcome,
              halted
<1> QED BY <1>2, <1>3, <1>4, <1>5, <1>6 DEF CoreStep

\* The accounts hold throughout a run.
LEMMA AccountsCorrect == CoreSpec => []Accounts
<1>1. CoreSpec => []OpsOfProgram
  BY CoreIsPipeline, OpsInit, OpsNext, PTL DEF Spec
<1> QED BY <1>1, AccountsInit, AccountsNext, PTL DEF CoreSpec

\* The two branch counters of SimStats sum to the number of branches and
\* jumps on the program's path, in every configuration and on every cycle:
\* stalls count none twice, squashes leave none of a wrong path.
THEOREM BranchesCounted == CoreSpec => []BranchAccounting
<1>1. Accounts => BranchAccounting
  BY DEF Accounts
<1> QED BY <1>1, AccountsCorrect, PTL

\* The exit code of bench_run tells how the run ended, also when the cycle
\* limit and the halting instruction meet.
THEOREM ExitCorrect == CoreSpec => []ExitTellsOutcome
<1>1. Accounts => ExitTellsOutcome
  BY DEF Accounts
<1> QED BY <1>1, AccountsCorrect, PTL

-----------------------------------------------------------------------------
(***************************************************************************)
(* The ports under the pipeline's calls.                                   *)
(***************************************************************************)

\* Asking and clocking the instruction port keeps it well-formed.
LEMMA IPortType ==
    ASSUME cfg \in Configs, iport \in ICaches, pc \in Word
    PROVE  IAsked \in ICaches /\ IClocked(IAsked) \in ICaches
<1> DEFINE r == [line |-> LineOf(pc, ILineBytes), write |-> FALSE]
<1>1. r \in I!Request
  BY LineType DEF I!Request, I!LineNo
<1> HIDE DEF r
<1>2. \A c \in ICaches : /\ I!cache_ready(c, r) \in ICaches
                         /\ I!cache_tick(c) \in ICaches
                         /\ [c EXCEPT !.backing = I!mem_ready(@)] \in ICaches
                         /\ [c EXCEPT !.backing = I!mem_tick(@)] \in ICaches
  BY <1>1, IPortSteps
<1>3. IAsked \in ICaches
  BY <1>2 DEF IAsked, r
<1> QED BY <1>2, <1>3 DEF IClocked

\* What MEM asks the data port for.
DRequest == [line |-> LineOf(ex_mem.alu_out, DLineBytes), write |-> storing]

\* It is a request a cache accepts.
LEMMA DRequestType ==
    ASSUME TypeOK PROVE DRequest \in D!Request
<1>1. LineOf(ex_mem.alu_out, DLineBytes) \in 0 .. (DLines - 1)
  BY LineType DEF TypeOK, ExMem
<1>2. storing \in BOOLEAN
  BY DEF storing
<1> HIDE DEF storing
<1> QED BY <1>1, <1>2 DEF DRequest, D!Request, D!LineNo

\* Asking and clocking the data port keeps it well-formed.
LEMMA DPortType ==
    ASSUME cfg \in Configs, dport \in DCaches, TypeOK
    PROVE  DAsked \in DCaches /\ DClocked(DAsked) \in DCaches
<1>1. \A c \in DCaches : /\ D!cache_ready(c, DRequest) \in DCaches
                         /\ D!cache_tick(c) \in DCaches
                         /\ [c EXCEPT !.backing = D!mem_ready(@)] \in DCaches
                         /\ [c EXCEPT !.backing = D!mem_tick(@)] \in DCaches
  BY DRequestType, DPortSteps
<1>2. DAsked \in DCaches
  BY <1>1 DEF DAsked, DRequest
<1> QED BY <1>1, <1>2 DEF DClocked

\* Both ports are the objects Core built for this configuration.
PortsBuilt == cfg \in Configs /\ iport \in ICaches /\ dport \in DCaches

\* The constructor of Core builds both ports.
LEMMA PortsInit == CoreInit => PortsBuilt
BY INewPort, DNewPort DEF CoreInit, PortsBuilt

\* No call of the pipeline takes a port out of its states.
LEMMA PortsNext == TypeOK /\ PortsBuilt /\ [CoreStep]_all => PortsBuilt'
<1> SUFFICES ASSUME TypeOK, PortsBuilt, [CoreStep]_all PROVE PortsBuilt'
  OBVIOUS
<1>1. pc \in Word /\ cfg \in Configs /\ iport \in ICaches /\ dport \in DCaches
  BY DEF TypeOK, PortsBuilt
<1>2. /\ IAsked \in ICaches /\ IClocked(IAsked) \in ICaches
      /\ DClocked(DAsked) \in DCaches
  BY <1>1, IPortType, DPortType
<1>3. /\ cfg' = cfg
      /\ iport' \in {iport, IAsked, IClocked(IAsked)}
      /\ dport' \in {dport, DClocked(DAsked)}
  <2>1. CASE CoreStallTick
    BY <2>1 DEF CoreStallTick, Observe
  <2>2. CASE CoreAdvanceTick
    BY <2>2 DEF CoreAdvanceTick, Observe
  <2>3. CASE CoreAbortTick \/ Return \/ UNCHANGED all
    BY <2>3 DEF CoreAbortTick, Return, all, own
  <2> QED BY <2>1, <2>2, <2>3 DEF CoreStep
<1>4. ICaches' = ICaches /\ DCaches' = DCaches
  BY <1>3 DEF ICaches, DCaches
<1> QED BY <1>1, <1>2, <1>3, <1>4 DEF PortsBuilt

-----------------------------------------------------------------------------
(***************************************************************************)
(* The commit log.                                                         *)
(***************************************************************************)

\* An instruction that names a destination writes it, unless it is illegal.
Writes(op) == has_writeback(op) \/ op = "ILLEGAL"

\* What the latches say of their instructions, as far as the log needs it:
\* unlike the invariant of the pipeline this needs no aligned fetch.
LogFacts ==
    /\ (id_ex.valid /\ id_ex.rd # 0) => Writes(id_ex.op)
    /\ (ex_mem.valid /\ ex_mem.rd # 0) => Writes(ex_mem.op)
    /\ (mem_wb.valid /\ mem_wb.rd # 0) => Writes(mem_wb.op)
    /\ mem_wb.valid => (mem_wb.is_store <=> is_store(mem_wb.op))
    /\ (mem_wb.valid /\ mem_wb.is_store) => mem_wb.mem_addr \in RamAddr

\* Bubbles say nothing.
LEMMA LogFactsInit == Init => LogFacts
BY DEF Init, LogFacts, IdExBubble, ExMemBubble, MemWbBubble

\* Every tick hands these facts on with the instruction.
LEMMA LogFactsNext == TypeOK /\ LogFacts /\ [Next]_vars => LogFacts'
<1> SUFFICES ASSUME TypeOK, LogFacts, [Next]_vars PROVE LogFacts'
  OBVIOUS
<1>1. ASSUME NEW i \in BOOLEAN, StallTick(i) PROVE LogFacts'
  <2>1. /\ id_ex'.valid <=> id_ex.valid
        /\ id_ex'.op = id_ex.op /\ id_ex'.rd = id_ex.rd
    BY <1>1 DEF StallTick, CapturedOperands
  <2>2. ~mem_wb'.valid /\ ex_mem' = ex_mem
    BY <1>1 DEF StallTick, MemWbBubble
  <2> QED BY <2>1, <2>2 DEF LogFacts
<1>2. ASSUME NEW i \in BOOLEAN, AdvanceTick(i) PROVE LogFacts'
  <2>1. /\ ex_mem' = Executed /\ mem_wb' = Accessed /\ ~AccessFaults
        /\ DecodeLatch
    BY <1>2 DEF AdvanceTick
  <2>2. (id_ex'.valid /\ id_ex'.rd # 0) => Writes(id_ex'.op)
    <3>1. CASE redirect \/ load_use_stall \/ ~if_id.valid
      BY <2>1, <3>1 DEF DecodeLatch, Decoded, IdExBubble
    <3>2. CASE ~(redirect \/ load_use_stall \/ ~if_id.valid)
      <4>1. if_id.raw \in Raw
        BY DEF TypeOK, IfId
      <4>2. id_ex'.op = decode(if_id.raw).op /\ id_ex'.rd = decode(if_id.raw).rd
        BY <2>1, <3>2 DEF DecodeLatch, Decoded
      <4> QED BY <4>1, <4>2, DecodeType, DecodeRd DEF Writes
    <3> QED BY <3>1, <3>2
  <2>3. (ex_mem'.valid /\ ex_mem'.rd # 0) => Writes(ex_mem'.op)
    BY <2>1 DEF Executed, ExMemBubble, LogFacts
  <2>4. /\ (mem_wb'.valid /\ mem_wb'.rd # 0) => Writes(mem_wb'.op)
        /\ mem_wb'.valid => (mem_wb'.is_store <=> is_store(mem_wb'.op))
    BY <2>1 DEF Accessed, MemWbBubble, LogFacts
  <2>5. (mem_wb'.valid /\ mem_wb'.is_store) => mem_wb'.mem_addr \in RamAddr
    BY <2>1 DEF Accessed, MemWbBubble, AccessFaults, accessing, is_mem_op, is_store
  <2> QED BY <2>2, <2>3, <2>4, <2>5 DEF LogFacts
<1>3. ASSUME NEW i \in BOOLEAN, AbortTick(i) PROVE LogFacts'
  BY <1>3 DEF AbortTick, pipe, LogFacts
<1>4. CASE UNCHANGED vars
  BY <1>4 DEF vars, pipe, LogFacts
<1> QED BY <1>1, <1>2, <1>3, <1>4 DEF Next, Tick, HaltedTick

\* Storing what a store has already cut to its width stores the same.
LEMMA StoredTwice ==
    ASSUME NEW op \in Stores, NEW m, NEW a, NEW v \in Word
    PROVE  StoreResult(op, m, a, StoreValue(op, v)) = StoreResult(op, m, a, v)
<1>1. \A x, n \in Nat : n >= 1 => (x % n) % n = x % n
  OBVIOUS
<1>2. v \in Nat
  BY Sizes DEF Word
<1>3. StoreValue(op, StoreValue(op, v)) = StoreValue(op, v)
  BY <1>1, <1>2, Sizes DEF StoreValue, Stores
<1> QED BY <1>3 DEF StoreResult

\* Applying the line of the instruction in WB: a store changes the memory
\* only, any other line the register it names only.
LEMMA AppliedParts ==
    ASSUME TypeOK, LogFacts, mem_wb.valid, NEW r \in [reg : [Regs -> Word], mem : Mem]
    PROVE  /\ Applied(r, Effect(mem_wb)) \in [reg : [Regs -> Word], mem : Mem]
           /\ mem_wb.is_store =>
                /\ Applied(r, Effect(mem_wb)).reg = r.reg
                /\ Applied(r, Effect(mem_wb)).mem =
                     StoreResult(mem_wb.op, r.mem, mem_wb.mem_addr, mem_wb.mem_val)
           /\ ~mem_wb.is_store =>
                /\ Applied(r, Effect(mem_wb)).mem = r.mem
                /\ Applied(r, Effect(mem_wb)).reg =
                     IF mem_wb.rd = 0 THEN r.reg
                     ELSE [r.reg EXCEPT ![mem_wb.rd] = mem_wb.wb_val]
<1>1. /\ r.reg \in [Regs -> Word] /\ r.mem \in Mem
      /\ mem_wb.rd \in Regs /\ mem_wb.wb_val \in Word /\ mem_wb.mem_val \in Word
  BY DEF TypeOK, MemWb
<1>2. CASE mem_wb.is_store
  <2>1. mem_wb.op \in Stores /\ mem_wb.mem_addr \in RamAddr
    BY <1>2 DEF LogFacts, is_store
  <2> DEFINE m == StoreResult(mem_wb.op, r.mem, mem_wb.mem_addr, mem_wb.mem_val)
  <2>2. m \in Mem
    BY <1>1, <2>1, StoreType
  <2>3. Applied(r, Effect(mem_wb)) = [r EXCEPT !.mem = m]
    BY <1>2 DEF Applied, Effect
  <2> HIDE DEF m
  <2>4. /\ [r EXCEPT !.mem = m] \in [reg : [Regs -> Word], mem : Mem]
        /\ [r EXCEPT !.mem = m].reg = r.reg
        /\ [r EXCEPT !.mem = m].mem = m
    BY <2>2
  <2> QED BY <1>2, <2>3, <2>4 DEF m
<1>3. CASE ~mem_wb.is_store /\ mem_wb.rd # 0
  <2> DEFINE g == [r.reg EXCEPT ![mem_wb.rd] = mem_wb.wb_val]
  <2>1. g \in [Regs -> Word]
    BY <1>1
  <2>2. Applied(r, Effect(mem_wb)) = [r EXCEPT !.reg = g]
    BY <1>3 DEF Applied, Effect
  <2> HIDE DEF g
  <2>3. /\ [r EXCEPT !.reg = g] \in [reg : [Regs -> Word], mem : Mem]
        /\ [r EXCEPT !.reg = g].reg = g
        /\ [r EXCEPT !.reg = g].mem = r.mem
    BY <2>1
  <2> QED BY <1>3, <2>2, <2>3 DEF g
<1>4. CASE ~mem_wb.is_store /\ mem_wb.rd = 0
  <2>1. Applied(r, Effect(mem_wb)) = r
    BY <1>4 DEF Applied, Effect
  <2> QED BY <1>4, <2>1
<1> QED BY <1>2, <1>3, <1>4
\* The commit log in step with the machine.
LogInv ==
    /\ replica \in [reg : [Regs -> Word], mem : Mem]
    /\ LogReplays

\* Nothing is logged yet and nothing has changed.
LEMMA LogInit == CoreInit => LogInv
<1> SUFFICES ASSUME CoreInit PROVE LogInv
  OBVIOUS
<1>1. rf \in [Regs -> Word] /\ dmem \in Mem
  BY InitType DEF CoreInit, TypeOK
<1>2. replica = [reg |-> rf, mem |-> dmem] /\ ~mem_wb.valid
  BY DEF CoreInit, Init, MemWbBubble
<1> QED BY <1>1, <1>2 DEF LogInv, LogReplays

\* After a tick, on either path, the log has the registers as WB leaves them
\* and the memory as it was when the tick began.
LEMMA LogCatchesUp ==
    ASSUME TypeOK, LogFacts, LogInv, Observe, WriteBack, DetectHalt, ~halted
    PROVE  /\ replica' \in [reg : [Regs -> Word], mem : Mem]
           /\ halt_reason' # "Illegal" => replica'.reg = rf'
           /\ replica'.mem = dmem
<1>1. /\ replica \in [reg : [Regs -> Word], mem : Mem]
      /\ replica.reg = rf /\ rf \in [Regs -> Word]
  BY DEF LogInv, LogReplays, halted, TypeOK
<1>2. replica' = Logged
  BY DEF Observe
<1>3. CASE ~mem_wb.valid
  <2>1. replica' = replica /\ rf' = rf
    BY <1>2, <1>3 DEF Logged, WriteBack
  <2> QED BY <1>1, <1>3, <2>1 DEF LogInv, LogReplays
<1>4. CASE mem_wb.valid
  <2> DEFINE e == Applied(replica, Effect(mem_wb))
  <2>1. replica' = e
    BY <1>2, <1>4 DEF Logged
  <2>2. /\ e \in [reg : [Regs -> Word], mem : Mem]
        /\ mem_wb.is_store => e.reg = replica.reg
        /\ ~mem_wb.is_store =>
             /\ e.mem = replica.mem
             /\ e.reg = IF mem_wb.rd = 0 THEN replica.reg
                        ELSE [replica.reg EXCEPT ![mem_wb.rd] = mem_wb.wb_val]
    BY <1>1, <1>4, AppliedParts
  <2>3. dmem = IF mem_wb.is_store THEN e.mem ELSE replica.mem
    BY <1>4 DEF LogInv, LogReplays
  <2> HIDE DEF e
  <2>4. e.mem = dmem
    BY <2>2, <2>3
  <2>5. ASSUME halt_reason' # "Illegal" PROVE e.reg = rf'
    <3>1. mem_wb.op # "ILLEGAL"
      BY <1>4, <2>5 DEF DetectHalt, Halting, Halts
    <3>2. /\ mem_wb.rd # 0 => has_writeback(mem_wb.op)
          /\ mem_wb.is_store => ~has_writeback(mem_wb.op)
      BY <1>4, <3>1 DEF LogFacts, Writes, has_writeback, is_store, Stores
    <3>3. rf' = IF has_writeback(mem_wb.op) THEN RfWrite(mem_wb.rd, mem_wb.wb_val)
                ELSE rf
      BY <1>4 DEF WriteBack
    <3> QED BY <1>1, <2>2, <3>2, <3>3 DEF RfWrite
  <2> QED BY <2>1, <2>2, <2>4, <2>5
<1> QED BY <1>3, <1>4

\* Every step keeps the log in step with the machine.
LEMMA LogNext ==
    TypeOK /\ LogFacts /\ LogInv /\ [CoreStep]_all => LogInv'
<1> SUFFICES ASSUME TypeOK, LogFacts, LogInv, [CoreStep]_all PROVE LogInv'
  OBVIOUS
<1>1. CASE CoreStallTick
  <2>1. /\ Observe /\ WriteBack /\ DetectHalt /\ ~halted
        /\ dmem' = dmem /\ ~mem_wb'.valid
    BY <1>1 DEF CoreStallTick, StallTick, Running, MemWbBubble
  <2> QED BY <2>1, LogCatchesUp DEF LogInv, LogReplays
<1>2. CASE CoreAdvanceTick
  <2>1. /\ Observe /\ WriteBack /\ DetectHalt /\ ~halted
        /\ mem_wb' = Accessed
        /\ dmem' = IF storing
                     THEN StoreResult(ex_mem.op, dmem, ex_mem.alu_out, ex_mem.rs2_val)
                     ELSE dmem
    BY <1>2 DEF CoreAdvanceTick, AdvanceTick, Running
  <2>2. /\ replica' \in [reg : [Regs -> Word], mem : Mem]
        /\ halt_reason' # "Illegal" => replica'.reg = rf'
        /\ replica'.mem = dmem
    BY <2>1, LogCatchesUp
  <2>3. (mem_wb'.valid /\ mem_wb'.is_store) <=> storing
    BY <2>1 DEF Accessed, MemWbBubble, storing
  <2>4. ASSUME storing PROVE Applied(replica, Effect(mem_wb))'.mem = dmem'
    <3>1. /\ ex_mem.op \in Stores /\ ex_mem.rs2_val \in Word
          /\ mem_wb'.op = ex_mem.op /\ mem_wb'.mem_addr = ex_mem.alu_out
          /\ mem_wb'.mem_val = StoreValue(ex_mem.op, ex_mem.rs2_val)
      BY <2>1, <2>4 DEF Accessed, storing, is_store, is_mem_op, TypeOK, ExMem
    <3>2. Effect(mem_wb)' = [kind |-> "store", op |-> mem_wb'.op,
                             addr |-> mem_wb'.mem_addr, val |-> mem_wb'.mem_val]
      BY <2>3, <2>4 DEF Effect
    <3>3. Applied(replica, Effect(mem_wb))' =
            [replica' EXCEPT !.mem = StoreResult(mem_wb'.op, replica'.mem,
                                                 mem_wb'.mem_addr, mem_wb'.mem_val)]
      BY <3>2 DEF Applied
    <3>4. Applied(replica, Effect(mem_wb))'.mem =
            StoreResult(mem_wb'.op, replica'.mem, mem_wb'.mem_addr, mem_wb'.mem_val)
      BY <2>2, <3>3
    <3> QED BY <2>1, <2>2, <2>4, <3>1, <3>4, StoredTwice
  <2> QED BY <2>1, <2>2, <2>3, <2>4 DEF LogInv, LogReplays
<1>3. CASE CoreAbortTick
  BY <1>3 DEF CoreAbortTick, AbortTick, own, pipe, LogInv, LogReplays
<1>4. CASE Return
  BY <1>4 DEF Return, vars, pipe, LogInv, LogReplays
<1>5. CASE UNCHANGED all
  BY <1>5 DEF all, own, vars, pipe, LogInv, LogReplays
<1> QED BY <1>1, <1>2, <1>3, <1>4, <1>5 DEF CoreStep

\* The types of the pipeline and what the latches say of their instructions
\* hold in the core, which is a pipeline.
LEMMA LatchesCorrect == CoreSpec => [](TypeOK /\ LogFacts)
<1>1. Init => TypeOK /\ LogFacts
  BY InitType, LogFactsInit
<1>2. TypeOK /\ LogFacts /\ [Next]_vars => (TypeOK /\ LogFacts)'
  BY NextType, LogFactsNext
<1> QED BY <1>1, <1>2, CoreIsPipeline, PTL DEF Spec

\* The log is in step throughout a run.
LEMMA LogCorrect == CoreSpec => []LogInv
BY LatchesCorrect, LogInit, LogNext, PTL DEF CoreSpec

\* Who replays the commit log, whatever the configuration, has the registers
\* of the machine and its memory but for the store in MEM/WB: the tracer
\* omits no effect on a stall and repeats none, up to the line of an illegal
\* instruction.
THEOREM LogReplaysRun == CoreSpec => []LogReplays
<1>1. LogInv => LogReplays
  BY DEF LogInv
<1> QED BY <1>1, LogCorrect, PTL

\* Both ports stay well-formed throughout a run.
LEMMA PortsCorrect == CoreSpec => []PortsBuilt
BY LatchesCorrect, PortsInit, PortsNext, PTL DEF CoreSpec

\* All state of the core keeps to its type under the pipeline's own calls:
\* timers and phases of both ports stay in range whatever the pipeline asks,
\* and run() never exceeds its cycle limit.
THEOREM CoreTypeCorrect == CoreSpec => []CoreTypeOK
<1>1. TypeOK /\ PortsBuilt /\ Accounts /\ LogInv => CoreTypeOK
  BY DEF PortsBuilt, ICaches, DCaches, Accounts, LogInv, CoreTypeOK
<1> QED BY <1>1, LatchesCorrect, PortsCorrect, AccountsCorrect, LogCorrect, PTL

-----------------------------------------------------------------------------
(***************************************************************************)
(* The data port keeps step with the instruction in MEM.                   *)
(***************************************************************************)

\* One tick of the data port: a request in it is that of MEM, and it is
\* released on the cycle MEM moves on.
LEMMA DataPortTick ==
    ASSUME TypeOK, cfg \in Configs, dport \in DCaches, DataPortInStep
    PROVE  /\ (cfg.dcache_enabled /\ DClocked(DAsked).phase # "Idle") =>
                 mem_stall /\ DClocked(DAsked).cur = DRequest
           /\ (~cfg.dcache_enabled /\ DClocked(DAsked).backing.serving) => mem_stall
<1>1. CASE cfg.dcache_enabled /\ accessing
  <2>1. DAsked = D!cache_ready(dport, DRequest)
    BY <1>1 DEF DAsked, DRequest
  <2>2. DAsked \in DCaches /\ DClocked(DAsked) = D!cache_tick(DAsked)
    BY <1>1, DPortType DEF DClocked
  <2>3. DAsked.cur = DRequest
    <3>1. CASE dport.phase = "Idle"
      BY <2>1, <3>1, DRequestType, DPortSteps
    <3>2. CASE dport.phase # "Idle"
      <4>1. DAsked = dport
        BY <2>1, <3>2, DRequestType, DPortSteps
      <4> QED BY <1>1, <3>2, <4>1 DEF DataPortInStep, DRequest
    <3> QED BY <3>1, <3>2
  <2>4. d_served <=> D!cache_served(DAsked)
    BY <1>1 DEF d_served
  <2>5. /\ D!cache_tick(DAsked).cur = DAsked.cur
        /\ D!cache_served(DAsked) => D!cache_tick(DAsked).phase = "Idle"
    BY <2>2, DRequestType, DPortSteps
  <2> QED BY <1>1, <2>2, <2>3, <2>4, <2>5 DEF mem_stall
<1>2. CASE cfg.dcache_enabled /\ ~accessing
  <2>1. DClocked(DAsked) = D!cache_tick(dport) /\ dport.phase = "Idle"
    BY <1>2 DEF DAsked, DClocked, DataPortInStep
  <2>2. D!cache_tick(dport).phase = "Idle"
    BY <2>1, DRequestType, DPortSteps
  <2> QED BY <1>2, <2>1, <2>2
<1>3. CASE ~cfg.dcache_enabled
  <2> DEFINE b == dport.backing
  <2>1. /\ b \in D!MemState(cfg.dmem_latency_cycles)
        /\ \A m : [dport EXCEPT !.backing = m].backing = m
        /\ \A m, n : [[dport EXCEPT !.backing = m] EXCEPT !.backing = n].backing = n
    BY DEF DCaches, D!CacheState
  <2>2. b \in [latency : Nat, serving : BOOLEAN, remaining : Int]
    <3>1. D!AtLeast1(cfg.dmem_latency_cycles) \in Nat
      BY ConfigAssumption DEF D!AtLeast1, SimConfig
    <3> QED BY <2>1, <3>1 DEF D!MemState
  <2>3. CASE accessing
    <3>1. /\ d_served <=> D!mem_served(D!mem_ready(b))
          /\ DClocked(DAsked).backing = D!mem_tick(D!mem_ready(b))
      BY <1>3, <2>1, <2>3 DEF d_served, DAsked, DClocked
    <3>2. D!mem_served(D!mem_ready(b)) => ~D!mem_tick(D!mem_ready(b)).serving
      <4> DEFINE q == D!mem_ready(b)
      <4>1. q \in [latency : Nat, serving : BOOLEAN, remaining : Int]
        <5> HIDE DEF b
        <5>1. b.latency - 1 \in Int
          BY <2>2
        <5>2. CASE b.serving
          BY <2>2, <5>2 DEF D!mem_ready
        <5>3. CASE ~b.serving
          BY <2>2, <5>1, <5>3 DEF D!mem_ready
        <5> QED BY <5>2, <5>3
      <4> HIDE DEF q
      <4>2. D!mem_served(q) => ~D!mem_tick(q).serving
        BY <4>1 DEF D!mem_served, D!mem_tick
      <4> QED BY <4>2 DEF q
    <3> QED BY <1>3, <2>3, <3>1, <3>2 DEF mem_stall
  <2>4. CASE ~accessing
    <3>1. DClocked(DAsked).backing = D!mem_tick(b) /\ ~b.serving
      BY <1>3, <2>1, <2>4 DEF DAsked, DClocked, DataPortInStep
    <3> QED BY <1>3, <3>1 DEF D!mem_tick
  <2> QED BY <2>3, <2>4
<1> QED BY <1>1, <1>2, <1>3

\* Both kinds of port start idle.
LEMMA InStepInit == CoreInit => DataPortInStep
BY DEF CoreInit, D!NewCache, D!NewMem, DataPortInStep

\* Every step keeps the data port with the instruction in MEM.
LEMMA InStepNext ==
    TypeOK /\ PortsBuilt /\ DataPortInStep /\ [CoreStep]_all => DataPortInStep'
<1> SUFFICES ASSUME TypeOK, PortsBuilt, DataPortInStep, [CoreStep]_all
             PROVE  DataPortInStep'
  OBVIOUS
<1>1. cfg \in Configs /\ dport \in DCaches
  BY DEF PortsBuilt
<1> DEFINE d == DClocked(DAsked)
<1>2. /\ (cfg.dcache_enabled /\ d.phase # "Idle") => mem_stall /\ d.cur = DRequest
      /\ (~cfg.dcache_enabled /\ d.backing.serving) => mem_stall
  BY <1>1, DataPortTick
<1> HIDE DEF d
<1>3. CASE CoreStallTick
  <2>1. ex_mem' = ex_mem /\ dport' = d /\ cfg' = cfg /\ mem_stall
    BY <1>3 DEF CoreStallTick, StallTick, Observe, d
  <2>2. (accessing' <=> accessing) /\ DRequest' = DRequest /\ accessing
    BY <2>1 DEF accessing, DRequest, storing, mem_stall
  <2> QED BY <1>2, <2>1, <2>2 DEF DataPortInStep, DRequest
<1>4. CASE CoreAdvanceTick
  <2>1. dport' = d /\ cfg' = cfg /\ ~mem_stall
    BY <1>4 DEF CoreAdvanceTick, Observe, d
  <2> QED BY <1>2, <2>1 DEF DataPortInStep
<1>5. CASE CoreAbortTick
  BY <1>5 DEF CoreAbortTick, AbortTick, own, pipe, DataPortInStep, accessing, storing
<1>6. CASE Return
  BY <1>6 DEF Return, vars, pipe, DataPortInStep, accessing, storing
<1>7. CASE UNCHANGED all
  BY <1>7 DEF all, own, vars, pipe, DataPortInStep, accessing, storing
<1> QED BY <1>3, <1>4, <1>5, <1>6, <1>7 DEF CoreStep

\* The data port only ever works for the instruction in MEM, in every
\* configuration: it is asked again for the same line until it answers and
\* is idle when MEM moves on, so no access is answered by another's request.
THEOREM DataPortKeepsStep == CoreSpec => []DataPortInStep
BY LatchesCorrect, PortsCorrect, InStepInit, InStepNext, PTL DEF CoreSpec

-----------------------------------------------------------------------------
(***************************************************************************)
(* Accesses past the end of RAM.                                           *)
(***************************************************************************)

\* RAM ends at a word boundary, as with the default base and size.
RamEndAligned == (RamBase + RamSize) % 4 = 0

\* A store changes at most the bytes of its width.
LEMMA StoreWidth ==
    ASSUME NEW op \in Stores, NEW m \in Mem, NEW a \in RamAddr, NEW v \in Word,
           NEW b \in RamBytes, StoreResult(op, m, a, v)[b] # m[b]
    PROVE  b \in a .. (a + Width(op) - 1)
<1>1. a \in Int /\ b \in Int /\ StoreValue(op, v) \in Word
  BY Zero, RamAssumption, StoreType DEF RamBytes
<1>2. \A k \in Mem, c \in Int : \A x : b # c => store_byte(k, c, x)[b] = k[b]
  BY DEF store_byte, Mem
<1>3. \A k \in Mem, c \in Int : \A x :
        b # c /\ b # c + 1 => store_half(k, c, x)[b] = k[b]
  BY DEF store_half, Mem
<1>4. CASE op = "SB"
  BY <1>1, <1>2, <1>4 DEF StoreResult, Width
<1>5. CASE op = "SH"
  BY <1>1, <1>3, <1>5 DEF StoreResult, Width
<1>6. CASE op = "SW"
  <2> DEFINE x == StoreValue(op, v)
             k == store_half(m, a, x % HalfValues)
  <2>1. x % HalfValues \in Int
    BY <1>1, Sizes DEF Word
  <2>2. \A y \in Int :
          y % ByteValues \in Byte /\ (y \div ByteValues) % ByteValues \in Byte
    <3>1. \A y \in Int : y \div ByteValues \in Int
      BY Sizes
    <3> QED BY <3>1, Reduced
  <2>3. \A y \in Int : store_half(m, a, y) \in Mem
    BY <2>2 DEF store_half, Mem
  <2>4. k \in Mem
    BY <2>1, <2>3
  <2>5. StoreResult(op, m, a, v) = store_half(k, a + 2, x \div HalfValues)
    BY <1>6 DEF StoreResult, store_word
  <2>6. a + 2 \in Int /\ (a + 2) + 1 = a + 3
    BY <1>1
  <2> HIDE DEF k, x
  <2>7. ASSUME b \notin a .. (a + 3) PROVE FALSE
    <3>1. b # a /\ b # a + 1 /\ b # a + 2 /\ b # a + 3
      BY <1>1, <2>7
    <3>2. k[b] = m[b]
      BY <1>1, <1>3, <3>1 DEF k
    <3>3. store_half(k, a + 2, x \div HalfValues)[b] = k[b]
      BY <1>3, <2>4, <2>6, <3>1
    <3> QED BY <2>5, <3>2, <3>3
  <2> QED BY <1>1, <1>6, <2>7 DEF Width
<1> QED BY <1>4, <1>5, <1>6 DEF Stores

\* An aligned store that starts in RAM ends in RAM.
LEMMA AlignedFits ==
    ASSUME RamEndAligned, NEW a \in RamAddr, NEW w \in {1, 2, 4}, a % w = 0
    PROVE  a .. (a + w - 1) \subseteq RamAddr
<1>1. \A x, e \in Nat : (x < e /\ e % 4 = 0 /\ x % 2 = 0) => x + 1 < e
  OBVIOUS
<1>2. \A x, e \in Nat : (x < e /\ e % 4 = 0 /\ x % 4 = 0) => x + 3 < e
  OBVIOUS
<1>3. a \in Nat /\ RamBase + RamSize \in Nat /\ a < RamBase + RamSize /\ RamBase <= a
  BY RamAssumption DEF RamAddr
<1>4. CASE w = 1
  BY <1>3, <1>4, RamAssumption DEF RamAddr
<1>5. CASE w = 2
  BY <1>1, <1>3, <1>5, RamAssumption DEF RamAddr, RamEndAligned
<1>6. CASE w = 4
  BY <1>2, <1>3, <1>6, RamAssumption DEF RamAddr, RamEndAligned
<1> QED BY <1>4, <1>5, <1>6

\* When RAM ends at a word boundary, the bytes behind it, which the check of
\* offset() leaves open, change only by a store that is not aligned to its
\* width, in every configuration.
THEOREM OverrunsAreMisaligned ==
    ASSUME RamEndAligned PROVE CoreSpec => OverrunIsMisaligned
<1> DEFINE Overrun == \E b \in RamBytes \ RamAddr : dmem'[b] # dmem[b]
           Misaligned == storing /\ ex_mem.alu_out % Width(ex_mem.op) # 0
<1>1. TypeOK /\ [CoreStep]_all => [Overrun => Misaligned]_all
  <2> SUFFICES ASSUME TypeOK, [CoreStep]_all, Overrun PROVE Misaligned
    OBVIOUS
  <2>1. PICK b \in RamBytes \ RamAddr : dmem'[b] # dmem[b]
    OBVIOUS
  <2>2. CASE CoreStallTick \/ CoreAbortTick \/ Return \/ UNCHANGED all
    BY <2>1, <2>2 DEF CoreStallTick, StallTick, CoreAbortTick, AbortTick, Return,
       all, vars
  <2>3. CASE CoreAdvanceTick
    <3>1. /\ storing /\ ~AccessFaults
          /\ dmem' = StoreResult(ex_mem.op, dmem, ex_mem.alu_out, ex_mem.rs2_val)
      BY <2>1, <2>3 DEF CoreAdvanceTick, AdvanceTick
    <3>2. /\ ex_mem.op \in Stores /\ ex_mem.alu_out \in RamAddr
          /\ dmem \in Mem /\ ex_mem.rs2_val \in Word
      BY <3>1 DEF storing, is_store, AccessFaults, accessing, is_mem_op, TypeOK, ExMem
    <3>3. b \in ex_mem.alu_out .. (ex_mem.alu_out + Width(ex_mem.op) - 1)
      BY <2>1, <3>1, <3>2, StoreWidth
    <3>4. Width(ex_mem.op) \in {1, 2, 4}
      BY <3>2 DEF Width, Stores
    <3> QED BY <2>1, <3>1, <3>2, <3>3, <3>4, AlignedFits
  <2> QED BY <2>2, <2>3 DEF CoreStep
<1> QED BY <1>1, LatchesCorrect, PTL DEF CoreSpec, OverrunIsMisaligned

=============================================================================
