---------------------------- MODULE CacheProofs ----------------------------
(***************************************************************************)
(* The cache and its client, for every geometry, latency and degree.       *)
(***************************************************************************)
EXTENDS Cache, CacheUnitProofs, FiniteSetTheorems

(***************************************************************************)
(* The inductive invariant, in parts.                                      *)
(***************************************************************************)

\* No two ways of a set hold the same line.
Unique(c) ==
    \A s \in Set : \A v, w \in Way :
        /\ c.lines[s][v].valid
        /\ c.lines[s][w].valid
        /\ c.lines[s][v].tag = c.lines[s][w].tag
        => v = w

\* Neither the engine nor the demand path fetches a line that is there, and
\* they do not fetch the same line twice.
FetchedAreAbsent(c) ==
    /\ c.pf.active => ~Resident(c, c.pf.line)
    /\ c.phase \in {"WriteBack", "MissFetch", "PrefetchWait"} => ~Resident(c, c.cur.line)
    /\ c.phase \in {"WriteBack", "MissFetch"} /\ c.pf.active => c.pf.line # c.cur.line
    /\ c.phase = "PrefetchWait" =>
         c.pf.active /\ c.pf.line = c.cur.line /\ c.pf.way = c.victim_way

\* Without prefetching the engine is idle, and the backing memory works for a
\* miss only.
EngineOff(c) ==
    ~c.prefetch => /\ ~c.pf.active
                   /\ c.backing.serving => c.phase \in {"WriteBack", "MissFetch"}

\* The request is as far as its latencies allow, and with prefetching no less.
OnTime ==
    /\ cache.phase = "Idle" => waited = 0 /\ due = 0
    /\ waited + Left(cache) <= due
    /\ ~cache.prefetch => waited + Left(cache) = due
    /\ served => half = "latch" /\ cache_served(cache)

\* The line that a way of the set of the current request holds.
VictimLine(c) ==
    addr_of(index_of(c.cur.line), c.lines[index_of(c.cur.line)][c.victim_way].tag)

VictimValid(c) == c.lines[index_of(c.cur.line)][c.victim_way].valid

DirtyIn(c, l) == \E w \in Ways_of(c, l) : c.lines[index_of(l)][w].dirty

\* A data cache flushes the line of its victim and no other, fills no way
\* whose line is still owed, and holds every owed line, dirty.
Flushes(c, lines_owed) ==
    /\ c.phase = "HitWait" /\ c.cur.write => DirtyIn(c, c.cur.line)
    /\ c.phase = "WriteBack" => VictimValid(c) /\ c.wb_line = VictimLine(c)
    /\ c.phase = "MissFetch" /\ VictimValid(c) => VictimLine(c) \notin lines_owed
    /\ \A l \in lines_owed : DirtyIn(c, l)

\* Fetch stores nothing; the memory stage holds its request until it is served.
Writebacks ==
    /\ setup.client = "fetch" => owed = {}
    /\ setup.client = "memory" /\ ~setup.prefetch =>
         /\ cache.phase # "Idle" => want # NoRequest /\ cache.cur = want
         /\ Flushes(cache, owed)

IInv ==
    /\ TypeOK
    /\ Unique(cache)
    /\ FetchedAreAbsent(cache)
    /\ EngineOff(cache)
    /\ OnTime
    /\ Writebacks
    /\ PrefetchAccounted

-----------------------------------------------------------------------------
(***************************************************************************)
(* One line at a time.                                                     *)
(***************************************************************************)

\* Residence and uniqueness are about valid bits and tags only.
SameTags(c, e) ==
    \A s \in Set, w \in Way : /\ e.lines[s][w].valid <=> c.lines[s][w].valid
                              /\ e.lines[s][w].tag = c.lines[s][w].tag

\* Steps that leave the tag array alone keep what it says of lines.
LEMMA SameTagsKeep ==
    ASSUME NEW c, NEW e, SameTags(c, e)
    PROVE  /\ Unique(c) => Unique(e)
           /\ \A l \in LineNo : Resident(e, l) <=> Resident(c, l)
<1>1. Unique(c) => Unique(e)
  BY DEF SameTags, Unique
<1>2. ASSUME NEW l \in LineNo PROVE Resident(e, l) <=> Resident(c, l)
  <2>1. index_of(l) \in Set
    BY IndexTag
  <2> QED BY <2>1 DEF SameTags, Resident, Ways_of
<1> QED BY <1>1, <1>2

\* The array of e is that of c with line l in way w.
Filled(c, e, l, w, d, p) ==
    e.lines = [c.lines EXCEPT ![index_of(l)][w] = Installed(l, d, p)]

\* Filling a way with an absent line leaves every line unique, and no other
\* absent line becomes resident.
LEMMA FillKeeps ==
    ASSUME NEW c, NEW e, c.lines \in [Set -> [Way -> Line]],
           NEW l \in LineNo, NEW w \in Way, NEW d, NEW p,
           Filled(c, e, l, w, d, p),
           Unique(c), ~Resident(c, l)
    PROVE  /\ Unique(e)
           /\ Resident(e, l)
           /\ \A m \in LineNo : m # l /\ ~Resident(c, m) => ~Resident(e, m)
<1> DEFINE s == index_of(l)
           t == tag_of(l)
           new == Installed(l, d, p)
<1>1. s \in Set /\ t \in Tag
  BY IndexTag
<1>2. new.valid /\ new.tag = t
  BY DEF Installed
<1>3. \A v \in Way : ~(c.lines[s][v].valid /\ c.lines[s][v].tag = t)
  BY DEF Resident, Ways_of
<1>4. \A m \in LineNo : index_of(m) = s /\ tag_of(m) = t => m = l
  <2> TAKE m \in LineNo
  <2>1. addr_of(index_of(m), tag_of(m)) = m /\ addr_of(index_of(l), tag_of(l)) = l
    BY IndexTag
  <2> QED BY <2>1
<1>5. \A m \in LineNo : index_of(m) \in Set
  BY IndexTag
<1> HIDE DEF s, t, new
<1>6. e.lines = [c.lines EXCEPT ![s][w] = new]
  BY DEF s, new, Filled
<1>7. \A r \in Set, v \in Way :
        e.lines[r][v] = IF r = s /\ v = w THEN new ELSE c.lines[r][v]
  BY <1>1, <1>6
<1>8. Unique(e)
  BY <1>2, <1>3, <1>7 DEF Unique
<1>9. Resident(e, l)
  BY <1>1, <1>2, <1>7 DEF Resident, Ways_of, s, t
<1>10. ASSUME NEW m \in LineNo, m # l, ~Resident(c, m) PROVE ~Resident(e, m)
  <2>1. \A v \in Way : ~(c.lines[index_of(m)][v].valid /\ c.lines[index_of(m)][v].tag = tag_of(m))
    BY <1>10 DEF Resident, Ways_of
  <2>2. ~(index_of(m) = s /\ tag_of(m) = t)
    BY <1>4, <1>10
  <2>3. \A v \in Way : ~(e.lines[index_of(m)][v].valid /\ e.lines[index_of(m)][v].tag = tag_of(m))
    BY <1>2, <1>5, <1>7, <2>1, <2>2
  <2> QED BY <2>3 DEF Resident, Ways_of
<1> QED BY <1>8, <1>9, <1>10

\* The use of a line marks it, and leaves its tag.
LEMMA HitKeepsTags ==
    ASSUME NEW k, Parameters(k), NEW c \in Built(k), NEW r \in Request,
           Resident(c, r.line)
    PROVE  SameTags(c, Hit(c, r))
<1> DEFINE s == index_of(r.line)
           w == find_way(c, r.line)
           e == Hit(c, r)
           new == Used(c.lines[s][w], r.write)
<1>1. s \in Set /\ w \in Way
  BY IndexTag, FindWay DEF Request
<1>2. c.lines \in [Set -> [Way -> Line]] /\ c.lines[s][w] \in Line
  BY <1>1, Members
<1>3. e.lines = [c.lines EXCEPT ![s][w] = new]
  BY HitSteps DEF Marked
<1> HIDE DEF e, s, w
<1>4. new.valid = c.lines[s][w].valid /\ new.tag = c.lines[s][w].tag
  BY <1>2 DEF Used, Line
<1> HIDE DEF new
<1>5. \A x \in Set, v \in Way :
        e.lines[x][v] = IF x = s /\ v = w THEN new ELSE c.lines[x][v]
  BY <1>1, <1>2, <1>3
<1> QED BY <1>4, <1>5 DEF SameTags, e

\* Both calls keep lines unique, and fetch only what is absent.
LEMMA ReadyUnique ==
    ASSUME NEW k, Parameters(k), NEW c \in Built(k), NEW r \in Request,
           Unique(c), FetchedAreAbsent(c)
    PROVE  Unique(cache_ready(c, r)) /\ FetchedAreAbsent(cache_ready(c, r))
<1> DEFINE l == Looked(c, r)
           e == cache_ready(c, r)
<1>1. /\ l \in Built(k) /\ SameArray(c, l) /\ l.cur = r
      /\ l.pf = c.pf \/ (l.pf.active /\ c.prefetch /\ ~Resident(c, l.pf.line))
  BY LookSteps
<1>2. r.line \in LineNo /\ l.pf.line \in LineNo
  BY <1>1, Members DEF Request
<1> HIDE DEF l
<1>3. SameTags(c, l)
  BY <1>1 DEF SameTags, SameArray
<1>4. Unique(l) /\ \A m \in LineNo : Resident(l, m) <=> Resident(c, m)
  BY <1>3, SameTagsKeep
<1>5. l.pf.active => ~Resident(l, l.pf.line)
  BY <1>1, <1>2, <1>4 DEF FetchedAreAbsent
<1>6. CASE c.phase # "Idle"
  <2>1. e = c
    BY <1>6, ReadySteps
  <2> QED BY <2>1
<1>7. CASE c.phase = "Idle" /\ Resident(c, r.line)
  <2>1. e = Hit(l, r) /\ Resident(l, r.line)
    BY <1>2, <1>4, <1>7, ReadySteps DEF l
  <2>2. Hit(l, r).pf = l.pf /\ Hit(l, r).phase = "HitWait"
    BY <1>1, <2>1, HitSteps
  <2>3. SameTags(l, e)
    BY <1>1, <2>1, HitKeepsTags
  <2> HIDE DEF e
  <2>4. Unique(e) /\ \A m \in LineNo : Resident(e, m) <=> Resident(l, m)
    BY <1>4, <2>3, SameTagsKeep
  <2> QED BY <1>2, <1>5, <2>1, <2>2, <2>4 DEF FetchedAreAbsent, e
<1>8. CASE c.phase = "Idle" /\ ~Resident(c, r.line) /\ l.pf.active /\ l.pf.line = r.line
  <2>1. e = Merge(l)
    BY <1>8, ReadySteps DEF l
  <2>2. /\ SameArray(l, e) /\ e.pf = l.pf /\ e.cur = l.cur
        /\ e.phase = "PrefetchWait" /\ e.victim_way = l.pf.way
    BY <1>1, <2>1, MergeSteps
  <2> HIDE DEF e
  <2>3. SameTags(l, e)
    BY <2>2 DEF SameTags, SameArray
  <2>4. Unique(e) /\ \A m \in LineNo : Resident(e, m) <=> Resident(l, m)
    BY <1>4, <2>3, SameTagsKeep
  <2> QED BY <1>1, <1>2, <1>5, <1>8, <2>2, <2>4 DEF FetchedAreAbsent, e
<1>9. CASE c.phase = "Idle" /\ ~Resident(c, r.line) /\ ~(l.pf.active /\ l.pf.line = r.line)
  <2>1. e = Miss(l, r)
    BY <1>9, ReadySteps DEF l
  <2>2. /\ SameArray(l, e) /\ e.cur = l.cur
        /\ e.pf.line = l.pf.line
        /\ e.pf.active => l.pf.active
        /\ e.phase \in {"WriteBack", "MissFetch"}
    BY <1>1, <2>1, MissSteps
  <2> HIDE DEF e
  <2>3. SameTags(l, e)
    BY <2>2 DEF SameTags, SameArray
  <2>4. Unique(e) /\ \A m \in LineNo : Resident(e, m) <=> Resident(l, m)
    BY <1>4, <2>3, SameTagsKeep
  <2> QED BY <1>1, <1>2, <1>4, <1>5, <1>9, <2>2, <2>4 DEF FetchedAreAbsent, e
<1> QED BY <1>6, <1>7, <1>8, <1>9

\* The same of the engine's cycle, between requests and while a hit counts down.
LEMMA ServiceUnique ==
    ASSUME NEW k, Parameters(k), NEW c \in Built(k),
           Unique(c), FetchedAreAbsent(c), c.phase \in {"Idle", "HitWait"}
    PROVE  Unique(service_prefetch(c)) /\ FetchedAreAbsent(service_prefetch(c))
<1> DEFINE e == service_prefetch(c)
<1>0. c.pf.line \in LineNo /\ c.pf.way \in Way /\ c.lines \in [Set -> [Way -> Line]]
  BY Members
<1>1. CASE ~c.pf.active
  <2>1. e = c
    BY <1>1, ServiceSteps
  <2> QED BY <2>1
<1>2. CASE c.pf.active /\ ~Got(c)
  <2>1. SameArray(c, e) /\ e.pf = c.pf /\ e.phase = c.phase
    BY <1>2, ServiceSteps DEF SameRequest
  <2> HIDE DEF e
  <2>2. SameTags(c, e)
    BY <2>1 DEF SameTags, SameArray
  <2>3. Unique(e) /\ \A m \in LineNo : Resident(e, m) <=> Resident(c, m)
    BY <2>2, SameTagsKeep
  <2> QED BY <1>0, <2>1, <2>3 DEF FetchedAreAbsent, e
<1>3. CASE c.pf.active /\ Got(c)
  <2> DEFINE no == FALSE
             yes == TRUE
  <2>1. /\ Filled(c, e, c.pf.line, c.pf.way, no, yes)
        /\ e.pf.active => ~Resident(e, e.pf.line)
        /\ e.phase = c.phase
    BY <1>3, ServiceSteps DEF SameRequest, Filled
  <2>2. ~Resident(c, c.pf.line)
    BY <1>3 DEF FetchedAreAbsent
  <2> HIDE DEF e, no, yes
  <2>3. Unique(e)
    BY <1>0, <2>1, <2>2, FillKeeps
  <2> QED BY <2>1, <2>3 DEF FetchedAreAbsent, e
<1> QED BY <1>1, <1>2, <1>3

\* tick() never leaves a line in two ways.
LEMMA TickUnique ==
    ASSUME NEW k, Parameters(k), NEW c \in Built(k), Unique(c), FetchedAreAbsent(c)
    PROVE  Unique(cache_tick(c)) /\ FetchedAreAbsent(cache_tick(c))
<1> DEFINE e == cache_tick(c)
<1>0. /\ c.phase \in Phases /\ c.pf.line \in LineNo /\ c.cur.line \in LineNo
      /\ c.victim_way \in Way /\ c.lines \in [Set -> [Way -> Line]]
  BY Members
<1>1. CASE c.phase = "Idle"
  <2>1. e = service_prefetch(c)
    BY <1>1, TickSteps
  <2> QED BY <1>1, <2>1, ServiceUnique
<1>2. CASE c.phase = "HitWait"
  <2> DEFINE d == CountedDown(c)
  <2>1. e = service_prefetch(d)
    BY <1>2, TickSteps, HitWaitSteps
  <2>2. /\ d \in Built(k) /\ SameArray(c, d) /\ d.pf = c.pf /\ d.cur = c.cur
        /\ d.phase \in {"Idle", "HitWait"}
    <3>1. c.hit_remaining > 0 \/ c.hit_remaining = 0
      BY Members
    <3> QED BY <1>2, <3>1, HitWaitSteps
  <2> HIDE DEF d, e
  <2>3. SameTags(c, d)
    BY <2>2 DEF SameTags, SameArray
  <2>4. Unique(d) /\ \A m \in LineNo : Resident(d, m) <=> Resident(c, m)
    BY <2>3, SameTagsKeep
  <2>5. FetchedAreAbsent(d)
    BY <1>0, <2>2, <2>4 DEF FetchedAreAbsent
  <2> QED BY <2>1, <2>2, <2>4, <2>5, ServiceUnique DEF e
<1>3. CASE c.phase = "WriteBack"
  <2>1. /\ SameArray(c, e) /\ e.pf = c.pf /\ e.cur = c.cur
        /\ e.phase \in {"WriteBack", "MissFetch"}
    BY <1>3, TickSteps, WriteBackSteps
  <2> HIDE DEF e
  <2>2. SameTags(c, e)
    BY <2>1 DEF SameTags, SameArray
  <2>3. Unique(e) /\ \A m \in LineNo : Resident(e, m) <=> Resident(c, m)
    BY <2>2, SameTagsKeep
  <2> QED BY <1>0, <1>3, <2>1, <2>3 DEF FetchedAreAbsent, e
<1>4. CASE c.phase \in {"MissFetch", "PrefetchWait"} /\ ~Got(c)
  <2>1. SameArray(c, e) /\ e.pf = c.pf /\ e.cur = c.cur /\ e.phase = c.phase
        /\ e.victim_way = c.victim_way
    <3>1. e = FillTick(c)
      BY <1>4, TickSteps
    <3> HIDE DEF e
    <3> QED BY <1>4, <3>1, FillSteps DEF SameRequest
  <2> HIDE DEF e
  <2>2. SameTags(c, e)
    BY <2>1 DEF SameTags, SameArray
  <2>3. Unique(e) /\ \A m \in LineNo : Resident(e, m) <=> Resident(c, m)
    BY <2>2, SameTagsKeep
  <2> QED BY <1>0, <1>4, <2>1, <2>3 DEF FetchedAreAbsent, e
<1>5. CASE c.phase \in {"MissFetch", "PrefetchWait"} /\ Got(c)
  <2> DEFINE no == FALSE
  <2>1. /\ Filled(c, e, c.cur.line, c.victim_way, c.cur.write, no)
        /\ e.phase = "HitWait"
        /\ e.pf.line = c.pf.line
        /\ e.pf.active <=> c.pf.active /\ c.phase # "PrefetchWait"
    <3>1. e = FillTick(c)
      BY <1>5, TickSteps
    <3> HIDE DEF e
    <3> QED BY <1>5, <3>1, FillSteps DEF Filled
  <2>2. ~Resident(c, c.cur.line)
    BY <1>5 DEF FetchedAreAbsent
  <2> DEFINE wr == c.cur.write
  <2> HIDE DEF e, no, wr
  <2>3. Unique(e) /\ \A m \in LineNo : m # c.cur.line /\ ~Resident(c, m) => ~Resident(e, m)
    <3>1. Filled(c, e, c.cur.line, c.victim_way, wr, no)
      BY <2>1 DEF wr
    <3> QED BY <1>0, <2>2, <3>1, FillKeeps
  <2> QED BY <1>0, <1>5, <2>1, <2>3 DEF FetchedAreAbsent, e
<1> QED BY <1>0, <1>1, <1>2, <1>3, <1>4, <1>5 DEF Phases

-----------------------------------------------------------------------------
(***************************************************************************)
(* Time.                                                                   *)
(***************************************************************************)

\* A request that is looked up needs what Cost says.  With prefetching a miss
\* may need less; without, the backing memory is free.
LEMMA ReadyTime ==
    ASSUME NEW k, Parameters(k), cache \in Built(k), NEW r \in Request,
           cache.phase = "Idle", EngineOff(cache)
    PROVE  LET e == cache_ready(cache, r)
           IN  /\ EngineOff(e)
               /\ e.phase # "Idle"
               /\ Left(e) <= Cost(r)
               /\ ~cache.prefetch => Left(e) = Cost(r)
               /\ Cost(r) \in 0 .. LongestWait
<1> DEFINE c == cache
           l == Looked(c, r)
           e == cache_ready(c, r)
           s == index_of(r.line)
           w == choose_victim(c, s)
           L == c.backing.latency
           H == c.hit_latency
<1>1. /\ l \in Built(k) /\ SameParameters(c, l) /\ SameArray(c, l) /\ l.cur = r
      /\ l.backing = c.backing
      /\ l.pf = c.pf \/ (l.pf.active /\ c.prefetch)
  BY LookSteps
<1>2. L \in Nat /\ L >= 1 /\ H \in Nat /\ H >= 1
  BY Members
<1>3. Cost(r) = H - 1 + (IF Resident(c, r.line) THEN 0
                         ELSE IF NeedsWriteBack(c, s, w) THEN 2 * L ELSE L)
  BY DEF Cost
<1>4. Cost(r) \in 0 .. LongestWait
  BY <1>2, <1>3 DEF LongestWait
<1>5. e \in Built(k)
  BY ReadySteps
<1>6. ~c.prefetch => ~c.pf.active /\ ~l.pf.active /\ ~c.backing.serving
  BY <1>1 DEF EngineOff
<1>7. FillTime(c) \in 1 .. L /\ (~c.prefetch => FillTime(c) = L)
  <2>1. ~c.backing.serving => FillTime(c) = L
    BY DEF FillTime
  <2> QED BY <1>6, <2>1, DriveTime
<1>8. CASE Resident(c, r.line)
  <2>1. e = Hit(l, r) /\ Resident(l, r.line)
    BY <1>1, <1>8, ReadySteps DEF Resident, Ways_of, SameArray
  <2> HIDE DEF l
  <2>2. /\ Hit(l, r).phase = "HitWait" /\ Hit(l, r).hit_remaining = l.hit_latency - 1
        /\ Hit(l, r).pf = l.pf /\ Hit(l, r).backing = l.backing
        /\ SameParameters(l, Hit(l, r))
    BY <1>1, <2>1, HitSteps
  <2> HIDE DEF e
  <2>3. Left(e) = H - 1
    BY <1>1, <1>5, <2>1, <2>2, LeftOf DEF SameParameters
  <2> QED BY <1>1, <1>2, <1>3, <1>4, <1>6, <1>8, <2>1, <2>2, <2>3
          DEF EngineOff, SameParameters, e
<1>9. CASE ~Resident(c, r.line) /\ l.pf.active /\ l.pf.line = r.line
  <2>1. e = Merge(l)
    BY <1>9, ReadySteps
  <2> HIDE DEF l
  <2>2. /\ e.phase = "PrefetchWait" /\ e.pf = l.pf /\ e.backing = l.backing
        /\ SameParameters(l, e)
    BY <1>1, <2>1, MergeSteps
  <2> HIDE DEF e
  <2>3. c.prefetch
    BY <1>6, <1>9, Members
  <2>4. FillTime(e) = FillTime(c)
    BY <1>1, <2>2 DEF FillTime
  <2>5. Left(e) = FillTime(c) + H - 1
    BY <1>1, <1>5, <2>2, <2>4, LeftOf DEF SameParameters
  <2>6. Left(e) <= Cost(r)
    <3>1. CASE NeedsWriteBack(c, s, w)
      BY <1>2, <1>3, <1>7, <1>9, <2>5, <3>1
    <3>2. CASE ~NeedsWriteBack(c, s, w)
      BY <1>2, <1>3, <1>7, <1>9, <2>5, <3>2
    <3> QED BY <3>1, <3>2
  <2> QED BY <1>1, <1>4, <2>2, <2>3, <2>6 DEF EngineOff, SameParameters, e
<1>10. CASE ~Resident(c, r.line) /\ ~(l.pf.active /\ l.pf.line = r.line)
  <2>1. e = Miss(l, r)
    BY <1>10, ReadySteps
  <2> HIDE DEF l
  <2>2. choose_victim(l, s) = w /\ (NeedsWriteBack(l, s, w) <=> NeedsWriteBack(c, s, w))
    BY <1>1 DEF choose_victim, NeedsWriteBack, SameArray
  <2> HIDE DEF s, w
  <2>3. /\ e.backing = l.backing /\ SameParameters(l, e)
        /\ e.pf.active => l.pf.active
        /\ NeedsWriteBack(l, s, choose_victim(l, s)) => e.phase = "WriteBack"
        /\ ~NeedsWriteBack(l, s, choose_victim(l, s)) => e.phase = "MissFetch"
    BY <1>1, <2>1, MissSteps DEF s
  <2> HIDE DEF e
  <2>4. FillTime(e) = FillTime(c)
    BY <1>1, <2>3 DEF FillTime
  <2>5. e.phase \in {"WriteBack", "MissFetch"}
    BY <2>3
  <2>6. /\ NeedsWriteBack(c, s, w) => Left(e) = FillTime(c) + L + H - 1
        /\ ~NeedsWriteBack(c, s, w) => Left(e) = FillTime(c) + H - 1
    BY <1>1, <1>5, <2>2, <2>3, <2>4, LeftOf DEF SameParameters
  <2>7. Left(e) <= Cost(r) /\ (~c.prefetch => Left(e) = Cost(r))
    <3>1. CASE NeedsWriteBack(c, s, w)
      BY <1>2, <1>3, <1>7, <1>10, <2>6, <3>1
    <3>2. CASE ~NeedsWriteBack(c, s, w)
      BY <1>2, <1>3, <1>7, <1>10, <2>6, <3>2
    <3> QED BY <3>1, <3>2
  <2> QED BY <1>1, <1>4, <1>6, <2>3, <2>5, <2>7 DEF EngineOff, SameParameters, e
<1> QED BY <1>8, <1>9, <1>10

\* A tick brings a request nearer and keeps the engine off where it is off.
LEMMA TickTime ==
    ASSUME NEW k, Parameters(k), NEW c \in Built(k),
           EngineOff(c), FetchedAreAbsent(c)
    PROVE  LET e == cache_tick(c)
           IN  /\ EngineOff(e)
               /\ SameParameters(c, e) /\ e.backing.latency = c.backing.latency
               /\ c.phase = "Idle" => e.phase = "Idle"
               /\ (c.phase # "Idle" /\ e.phase # "Idle") => Left(e) = Left(c) - 1
               /\ cache_served(c) => e.phase = "Idle"
<1> DEFINE e == cache_tick(c)
<1>0. c.phase \in Phases
  BY Members
<1>1. /\ Driven(c).latency = c.backing.latency
      /\ Got(c) => ~Driven(c).serving
  BY DriveTime
<1>2. /\ (c.phase # "Idle" /\ e.phase # "Idle") => Left(e) = Left(c) - 1
      /\ cache_served(c) => e.phase = "Idle"
  BY TickLeft, TickRequest
<1>3. CASE c.phase = "Idle"
  <2>1. e = service_prefetch(c)
    BY <1>3, TickSteps
  <2> HIDE DEF e
  <2>2. /\ SameParameters(c, e) /\ SameRequest(c, e)
        /\ ~c.pf.active => e = c
        /\ c.pf.active => e.backing = Driven(c)
    BY <2>1, ServiceSteps
  <2> QED BY <1>1, <1>2, <1>3, <2>2 DEF EngineOff, SameParameters, SameRequest, e
<1>4. CASE c.phase = "HitWait"
  <2> DEFINE d == CountedDown(c)
  <2>1. e = service_prefetch(d)
    BY <1>4, TickSteps, HitWaitSteps
  <2>2. /\ d \in Built(k) /\ SameParameters(c, d) /\ d.backing = c.backing
        /\ d.pf = c.pf
    BY <1>4, HitWaitSteps
  <2> HIDE DEF d, e
  <2>3. /\ SameParameters(d, e)
        /\ ~d.pf.active => e = d
        /\ d.pf.active => e.backing = Driven(d)
    BY <2>1, <2>2, ServiceSteps
  <2>4. SameParameters(c, e) /\ e.backing.latency = c.backing.latency
    BY <1>1, <2>2, <2>3 DEF SameParameters, Driven
  <2>5. ~c.prefetch => e = d
    BY <2>2, <2>3 DEF EngineOff
  <2> QED BY <1>2, <1>4, <2>2, <2>4, <2>5 DEF EngineOff, SameParameters, e
<1>5. CASE c.phase = "WriteBack"
  <2>1. e = WriteBackTick(c)
    BY <1>5, TickSteps
  <2> HIDE DEF e
  <2>2. /\ SameParameters(c, e) /\ e.backing = Driven(c) /\ e.pf = c.pf
        /\ e.phase = IF Got(c) THEN "MissFetch" ELSE "WriteBack"
    BY <1>5, <2>1, WriteBackSteps
  <2> QED BY <1>1, <1>2, <1>5, <2>2 DEF EngineOff, SameParameters, e
<1>6. CASE c.phase \in {"MissFetch", "PrefetchWait"}
  <2>1. e = FillTick(c)
    BY <1>6, TickSteps
  <2> HIDE DEF e
  <2>2. /\ SameParameters(c, e) /\ e.backing = Driven(c)
        /\ ~Got(c) => SameRequest(c, e) /\ e.pf = c.pf
        /\ Got(c) => e.pf.active <=> c.pf.active /\ c.phase # "PrefetchWait"
    BY <2>1, FillSteps
  <2>3. EngineOff(e)
    <3>1. c.prefetch = e.prefetch
      BY <2>2 DEF SameParameters
    <3>2. CASE Got(c)
      BY <1>1, <2>2, <3>1, <3>2 DEF EngineOff
    <3>3. CASE ~Got(c)
      <4>1. ~c.prefetch => c.phase = "MissFetch"
        BY <1>6 DEF EngineOff, FetchedAreAbsent
      <4> QED BY <1>1, <2>2, <3>1, <3>3, <4>1 DEF EngineOff, SameRequest
    <3> QED BY <3>2, <3>3
  <2> QED BY <1>1, <1>2, <1>6, <2>2, <2>3 DEF SameParameters, e
<1> QED BY <1>0, <1>3, <1>4, <1>5, <1>6 DEF Phases

-----------------------------------------------------------------------------
(***************************************************************************)
(* Prefetched lines.                                                       *)
(***************************************************************************)

\* The ways that hold a prefetched line nobody has used, and the claim that
\* the counters owe each of them one outcome, the line in flight aside.
PrefetchedIn(c) ==
    { x \in Set \X Way : c.lines[x[1]][x[2]].valid /\ c.lines[x[1]][x[2]].prefetched }

Balanced(c) == Owing(c) = Cardinality(PrefetchedIn(c))

\* The prefetched lines of an array can be counted.
LEMMA PrefetchedFinite ==
    ASSUME NEW c PROVE IsFiniteSet(PrefetchedIn(c)) /\ Cardinality(PrefetchedIn(c)) \in Nat
<1>1. IsFiniteSet(Set) /\ IsFiniteSet(Way)
  BY Geometry, WaysPositive, FS_Interval DEF Set, Way
<1>2. IsFiniteSet(Set \X Way)
  BY <1>1, FS_Product
<1>3. PrefetchedIn(c) \subseteq Set \X Way
  BY DEF PrefetchedIn
<1> QED BY <1>2, <1>3, FS_Subset, FS_CardinalityType

\* The array of e is that of c with one way overwritten.
Written(c, e, s, w, new) == e.lines = [c.lines EXCEPT ![s][w] = new]

\* Writing one way adds it to that set or takes it out.
LEMMA PrefetchedAfter ==
    ASSUME NEW c, NEW e, c.lines \in [Set -> [Way -> Line]],
           NEW s \in Set, NEW w \in Way, NEW new,
           Written(c, e, s, w, new)
    PROVE  /\ new.valid /\ new.prefetched =>
                PrefetchedIn(e) = PrefetchedIn(c) \cup {<<s, w>>}
           /\ ~(new.valid /\ new.prefetched) =>
                PrefetchedIn(e) = PrefetchedIn(c) \ {<<s, w>>}
           /\ Wasted(c, s, w) = IF <<s, w>> \in PrefetchedIn(c) THEN 1 ELSE 0
<1>1. \A r \in Set, v \in Way :
        e.lines[r][v] = IF r = s /\ v = w THEN new ELSE c.lines[r][v]
  BY DEF Written
<1>2. <<s, w>> \in PrefetchedIn(c) <=> c.lines[s][w].valid /\ c.lines[s][w].prefetched
  BY DEF PrefetchedIn
<1>3. \A x \in Set \X Way : x[1] \in Set /\ x[2] \in Way /\ x = <<x[1], x[2]>>
  OBVIOUS
<1>4. \A x \in Set \X Way : x # <<s, w>> => e.lines[x[1]][x[2]] = c.lines[x[1]][x[2]]
  BY <1>1, <1>3
<1>5. e.lines[s][w] = new
  BY <1>1
<1>6. <<s, w>> \in PrefetchedIn(e) <=> new.valid /\ new.prefetched
  BY <1>5 DEF PrefetchedIn
<1>7. \A x : x # <<s, w>> => (x \in PrefetchedIn(e) <=> x \in PrefetchedIn(c))
  BY <1>4 DEF PrefetchedIn
<1> QED BY <1>2, <1>6, <1>7 DEF Wasted

\* Writing one entry moves the count of prefetched lines by what that entry
\* gains or loses.
LEMMA BalanceAfter ==
    ASSUME NEW c, NEW e, c.lines \in [Set -> [Way -> Line]],
           NEW s \in Set, NEW w \in Way, NEW new,
           Written(c, e, s, w, new),
           Balanced(c)
    PROVE  /\ Wasted(c, s, w) \in {0, 1}
           /\ new.valid /\ new.prefetched =>
                Cardinality(PrefetchedIn(e)) = Owing(c) - Wasted(c, s, w) + 1
           /\ ~(new.valid /\ new.prefetched) =>
                Cardinality(PrefetchedIn(e)) = Owing(c) - Wasted(c, s, w)
<1> DEFINE P == PrefetchedIn(c)
           x == <<s, w>>
<1>1. IsFiniteSet(P) /\ Cardinality(P) \in Nat /\ Owing(c) = Cardinality(P)
  BY PrefetchedFinite DEF Balanced
<1>2. /\ Cardinality(P \cup {x}) = IF x \in P THEN Cardinality(P) ELSE Cardinality(P) + 1
      /\ Cardinality(P \ {x}) = IF x \in P THEN Cardinality(P) - 1 ELSE Cardinality(P)
  BY <1>1, FS_AddElement, FS_RemoveElement
<1>3. /\ new.valid /\ new.prefetched => PrefetchedIn(e) = P \cup {x}
      /\ ~(new.valid /\ new.prefetched) => PrefetchedIn(e) = P \ {x}
      /\ Wasted(c, s, w) = IF x \in P THEN 1 ELSE 0
  BY PrefetchedAfter
<1> DEFINE more == P \cup {x}
           less == P \ {x}
<1>4. /\ new.valid /\ new.prefetched => Cardinality(PrefetchedIn(e)) = Cardinality(more)
      /\ ~(new.valid /\ new.prefetched) => Cardinality(PrefetchedIn(e)) = Cardinality(less)
  BY <1>3, Zenon
<1> HIDE DEF P, x
<1>5. /\ Cardinality(more) = IF x \in P THEN Cardinality(P) ELSE Cardinality(P) + 1
      /\ Cardinality(less) = IF x \in P THEN Cardinality(P) - 1 ELSE Cardinality(P)
      /\ Wasted(c, s, w) = IF x \in P THEN 1 ELSE 0
  BY <1>2, <1>3, Zenon
<1> HIDE DEF more, less
<1>6. CASE x \in P
  BY <1>1, <1>4, <1>5, <1>6
<1>7. CASE x \notin P
  BY <1>1, <1>4, <1>5, <1>7
<1> QED BY <1>6, <1>7

\* With the line in flight this is what PrefetchAccounted says.
LEMMA Accounted ==
    ASSUME NEW c, c.balance \in Int
    PROVE  Balanced(c) <=> c.balance = Cardinality(PrefetchedIn(c))
                                         + (IF c.pf.active THEN 1 ELSE 0)
<1>1. Cardinality(PrefetchedIn(c)) \in Nat
  BY PrefetchedFinite
<1> QED BY <1>1 DEF Balanced, Owing

\* A step that moves neither the array nor what the counters owe it keeps
\* the balance.
LEMMA SameArrayBalanced ==
    ASSUME NEW c, NEW e, SameArray(c, e), Balanced(c) PROVE Balanced(e)
<1>1. PrefetchedIn(e) = PrefetchedIn(c) /\ Owing(e) = Owing(c)
  BY DEF PrefetchedIn, SameArray
<1> QED BY <1>1, Zenon DEF Balanced

\* A first use is counted once, ...
LEMMA ReadyBalanced ==
    ASSUME NEW k, Parameters(k), NEW c \in Built(k), NEW r \in Request, Balanced(c)
    PROVE  Balanced(cache_ready(c, r))
<1> DEFINE l == Looked(c, r)
           e == cache_ready(c, r)
<1>1. l \in Built(k) /\ SameArray(c, l)
  BY LookSteps
<1>2. Balanced(l)
  BY <1>1, SameArrayBalanced
<1>3. CASE c.phase # "Idle"
  BY <1>3, ReadySteps
<1>4. CASE c.phase = "Idle" /\ Resident(c, r.line)
  <2> DEFINE s == index_of(r.line)
             w == find_way(l, r.line)
             x == l.lines[s][w]
             new == Used(x, r.write)
  <2>1. e = Hit(l, r) /\ Resident(l, r.line)
    BY <1>1, <1>4, ReadySteps DEF Resident, Ways_of, SameArray
  <2> HIDE DEF l
  <2>2. Marked(l, Hit(l, r), r)
    BY <1>1, <2>1, HitSteps
  <2> HIDE DEF e
  <2>3. Written(l, e, s, w, new) /\ Owing(e) = Owing(l) - (IF x.prefetched THEN 1 ELSE 0)
    BY <2>1, <2>2 DEF Marked, Written
  <2>4. s \in Set /\ w \in Ways_of(l, r.line) /\ w \in Way
    BY <1>1, <2>1, IndexTag, FindWay DEF Request
  <2>5. x.valid /\ x \in Line /\ l.lines \in [Set -> [Way -> Line]]
    BY <1>1, <2>4, Members DEF Ways_of
  <2>6. ~new.prefetched
    BY <2>5 DEF Used, Line
  <2>7. Wasted(l, s, w) = IF x.prefetched THEN 1 ELSE 0
    BY <2>5 DEF Wasted
  <2> HIDE DEF s, w, x, new
  <2>8. Cardinality(PrefetchedIn(e)) = Owing(l) - Wasted(l, s, w)
    BY <1>2, <2>3, <2>4, <2>5, <2>6, BalanceAfter
  <2> QED BY <2>3, <2>7, <2>8 DEF Balanced, e
<1>5. CASE c.phase = "Idle" /\ ~Resident(c, r.line) /\ l.pf.active /\ l.pf.line = r.line
  <2>1. e = Merge(l)
    BY <1>5, ReadySteps
  <2> HIDE DEF l
  <2>2. SameArray(l, Merge(l))
    BY <1>1, MergeSteps
  <2> QED BY <1>2, <2>1, <2>2, SameArrayBalanced
<1>6. CASE c.phase = "Idle" /\ ~Resident(c, r.line) /\ ~(l.pf.active /\ l.pf.line = r.line)
  <2>1. e = Miss(l, r)
    BY <1>6, ReadySteps
  <2> HIDE DEF l
  <2>2. SameArray(l, Miss(l, r))
    BY <1>1, MissSteps
  <2> QED BY <1>2, <2>1, <2>2, SameArrayBalanced
<1> QED BY <1>3, <1>4, <1>5, <1>6

\* ... the engine's fill is, ...
LEMMA ServiceBalanced ==
    ASSUME NEW k, Parameters(k), NEW c \in Built(k), Balanced(c)
    PROVE  Balanced(service_prefetch(c))
<1> DEFINE e == service_prefetch(c)
           s == index_of(c.pf.line)
           w == c.pf.way
           new == Installed(c.pf.line, FALSE, TRUE)
<1>1. CASE ~c.pf.active
  <2>1. e = c
    BY <1>1, ServiceSteps
  <2> QED BY <2>1
<1>2. CASE c.pf.active /\ ~Got(c)
  <2>1. SameArray(c, e)
    BY <1>2, ServiceSteps
  <2> QED BY <2>1, SameArrayBalanced
<1>3. CASE c.pf.active /\ Got(c)
  <2>1. Written(c, e, s, w, new) /\ Owing(e) = Owing(c) - Wasted(c, s, w) + 1
    BY <1>3, ServiceSteps DEF Written
  <2>2. s \in Set /\ w \in Way /\ c.lines \in [Set -> [Way -> Line]]
    BY Members, IndexTag
  <2>3. new.valid /\ new.prefetched
    BY DEF Installed
  <2> HIDE DEF e, s, w, new
  <2>4. Cardinality(PrefetchedIn(e)) = Owing(c) - Wasted(c, s, w) + 1
    BY <2>1, <2>2, <2>3, BalanceAfter
  <2> QED BY <2>1, <2>4 DEF Balanced, e
<1> QED BY <1>1, <1>2, <1>3

\* ... and so is a line that a demand fill overwrites.
LEMMA TickBalanced ==
    ASSUME NEW k, Parameters(k), NEW c \in Built(k), Balanced(c), FetchedAreAbsent(c)
    PROVE  Balanced(cache_tick(c))
<1> DEFINE e == cache_tick(c)
<1>0. c.phase \in Phases
  BY Members
<1>1. CASE c.phase = "Idle"
  <2>1. e = service_prefetch(c)
    BY <1>1, TickSteps
  <2> QED BY <2>1, ServiceBalanced
<1>2. CASE c.phase = "HitWait"
  <2> DEFINE d == CountedDown(c)
  <2>1. e = service_prefetch(d)
    BY <1>2, TickSteps, HitWaitSteps
  <2>2. d \in Built(k) /\ SameArray(c, d)
    BY <1>2, HitWaitSteps
  <2> HIDE DEF d
  <2>3. Balanced(d)
    BY <2>2, SameArrayBalanced
  <2> QED BY <2>1, <2>2, <2>3, ServiceBalanced
<1>3. CASE c.phase = "WriteBack"
  <2>1. e = WriteBackTick(c)
    BY <1>3, TickSteps
  <2>2. SameArray(c, WriteBackTick(c))
    BY <1>3, WriteBackSteps
  <2> QED BY <2>1, <2>2, SameArrayBalanced
<1>4. CASE c.phase \in {"MissFetch", "PrefetchWait"}
  <2> DEFINE s == index_of(c.cur.line)
             w == c.victim_way
             new == Installed(c.cur.line, c.cur.write, FALSE)
  <2>1. e = FillTick(c)
    BY <1>4, TickSteps
  <2> HIDE DEF e
  <2>2. CASE ~Got(c)
    <3>1. SameArray(c, e)
      BY <2>1, <2>2, FillSteps
    <3> QED BY <3>1, SameArrayBalanced DEF e
  <2>3. CASE Got(c)
    <3>0. c.phase = "PrefetchWait" => c.pf.active
      BY DEF FetchedAreAbsent
    <3>1. Written(c, e, s, w, new) /\ Owing(e) = Owing(c) - Wasted(c, s, w)
      <4>1. /\ FillTick(c).lines = [c.lines EXCEPT ![s][w] = new]
            /\ Owing(FillTick(c)) = Owing(c) - Wasted(c, s, w)
        BY <2>3, <3>0, FillSteps, Zenon
      <4> QED BY <2>1, <4>1 DEF Written
    <3>2. s \in Set /\ w \in Way /\ c.lines \in [Set -> [Way -> Line]]
      BY Members, IndexTag
    <3>3. ~new.prefetched
      BY DEF Installed
    <3> HIDE DEF s, w, new
    <3>4. Cardinality(PrefetchedIn(e)) = Owing(c) - Wasted(c, s, w)
      BY <3>1, <3>2, <3>3, BalanceAfter
    <3> QED BY <3>1, <3>4 DEF Balanced, e
  <2> QED BY <2>2, <2>3
<1> QED BY <1>0, <1>1, <1>2, <1>3, <1>4 DEF Phases

-----------------------------------------------------------------------------
(***************************************************************************)
(* Dirty lines.                                                            *)
(***************************************************************************)

\* A step that leaves the array alone keeps its dirty lines.
LEMMA SameArrayDirty ==
    ASSUME NEW c, NEW e, SameArray(c, e)
    PROVE  \A l : DirtyIn(e, l) <=> DirtyIn(c, l)
BY DEF SameArray, DirtyIn, Ways_of

\* A fill loses no dirty line but the one it overwrites.
LEMMA FillDirty ==
    ASSUME NEW c, NEW e, c.lines \in [Set -> [Way -> Line]],
           NEW l \in LineNo, NEW w \in Way, NEW d, NEW p,
           Filled(c, e, l, w, d, p)
    PROVE  /\ d => DirtyIn(e, l)
           /\ \A m \in LineNo :
                /\ DirtyIn(c, m)
                /\ c.lines[index_of(l)][w].valid =>
                     addr_of(index_of(l), c.lines[index_of(l)][w].tag) # m
                => DirtyIn(e, m)
<1> DEFINE s == index_of(l)
           new == Installed(l, d, p)
<1>1. s \in Set
  BY IndexTag
<1>2. new.valid /\ new.tag = tag_of(l) /\ new.dirty = d
  BY DEF Installed
<1> HIDE DEF s, new
<1>3. \A r \in Set, v \in Way :
        e.lines[r][v] = IF r = s /\ v = w THEN new ELSE c.lines[r][v]
  BY <1>1 DEF Filled, s, new
<1>4. d => DirtyIn(e, l)
  <2>1. w \in Ways_of(e, l) /\ e.lines[s][w] = new
    BY <1>1, <1>2, <1>3 DEF Ways_of, s
  <2> QED BY <1>2, <2>1 DEF DirtyIn, s
<1>5. ASSUME NEW m \in LineNo, DirtyIn(c, m),
             c.lines[s][w].valid => addr_of(s, c.lines[s][w].tag) # m
      PROVE  DirtyIn(e, m)
  <2>1. PICK v \in Ways_of(c, m) : c.lines[index_of(m)][v].dirty
    BY <1>5 DEF DirtyIn
  <2>2. v \in Way /\ c.lines[index_of(m)][v].valid /\ c.lines[index_of(m)][v].tag = tag_of(m)
    BY <2>1 DEF Ways_of
  <2>3. index_of(m) \in Set /\ addr_of(index_of(m), tag_of(m)) = m
    BY IndexTag
  <2>4. ~(index_of(m) = s /\ v = w)
    BY <1>5, <2>2, <2>3
  <2>5. e.lines[index_of(m)][v] = c.lines[index_of(m)][v]
    BY <1>3, <2>2, <2>3, <2>4
  <2> QED BY <2>1, <2>2, <2>5 DEF DirtyIn, Ways_of
<1> QED BY <1>4, <1>5 DEF s

\* A use loses none, and a store makes its line dirty.
LEMMA HitDirty ==
    ASSUME NEW k, Parameters(k), NEW c \in Built(k), NEW r \in Request,
           Resident(c, r.line)
    PROVE  /\ r.write => DirtyIn(Hit(c, r), r.line)
           /\ \A m \in LineNo : DirtyIn(c, m) => DirtyIn(Hit(c, r), m)
<1> DEFINE s == index_of(r.line)
           w == find_way(c, r.line)
           e == Hit(c, r)
           new == Used(c.lines[s][w], r.write)
<1>1. s \in Set /\ w \in Ways_of(c, r.line) /\ w \in Way
  BY IndexTag, FindWay DEF Request
<1>2. c.lines \in [Set -> [Way -> Line]] /\ c.lines[s][w] \in Line
  BY <1>1, Members
<1>3. e.lines = [c.lines EXCEPT ![s][w] = new]
  BY HitSteps DEF Marked
<1> HIDE DEF e, s, w
<1>4. /\ new.valid = c.lines[s][w].valid /\ new.tag = c.lines[s][w].tag
      /\ r.write => new.dirty
      /\ c.lines[s][w].dirty => new.dirty
  BY <1>2 DEF Used, Line
<1> HIDE DEF new
<1>5. \A x \in Set, v \in Way :
        e.lines[x][v] = IF x = s /\ v = w THEN new ELSE c.lines[x][v]
  BY <1>1, <1>2, <1>3
<1>6. r.write => DirtyIn(e, r.line)
  <2>1. w \in Ways_of(e, r.line) /\ e.lines[s][w] = new
    BY <1>1, <1>4, <1>5 DEF Ways_of, s
  <2> QED BY <1>4, <2>1 DEF DirtyIn, s
<1>7. ASSUME NEW m \in LineNo, DirtyIn(c, m) PROVE DirtyIn(e, m)
  <2>1. PICK v \in Ways_of(c, m) : c.lines[index_of(m)][v].dirty
    BY <1>7 DEF DirtyIn
  <2>2. v \in Way /\ c.lines[index_of(m)][v].valid /\ c.lines[index_of(m)][v].tag = tag_of(m)
    BY <2>1 DEF Ways_of
  <2>3. index_of(m) \in Set
    BY IndexTag
  <2>4. /\ e.lines[index_of(m)][v].valid /\ e.lines[index_of(m)][v].tag = tag_of(m)
        /\ e.lines[index_of(m)][v].dirty
    <3>1. CASE index_of(m) = s /\ v = w
      <4>1. e.lines[index_of(m)][v] = new
        BY <1>5, <2>2, <2>3, <3>1
      <4> QED BY <1>4, <2>1, <2>2, <3>1, <4>1
    <3>2. CASE ~(index_of(m) = s /\ v = w)
      <4>1. e.lines[index_of(m)][v] = c.lines[index_of(m)][v]
        BY <1>5, <2>2, <2>3, <3>2
      <4> QED BY <2>1, <2>2, <4>1
    <3> QED BY <3>1, <3>2
  <2> QED BY <2>2, <2>4 DEF DirtyIn, Ways_of
<1> QED BY <1>6, <1>7 DEF e

\* ready() drops no dirty line that is not on its way to memory.
LEMMA ReadyFlushes ==
    ASSUME NEW k, Parameters(k), NEW c \in Built(k), NEW r \in Request,
           NEW owe \in SUBSET LineNo,
           c.phase = "Idle", ~c.prefetch, EngineOff(c), Unique(c), Flushes(c, owe)
    PROVE  Flushes(cache_ready(c, r), owe) /\ cache_ready(c, r).cur = r
<1> DEFINE l == Looked(c, r)
           e == cache_ready(c, r)
<1>1. /\ l \in Built(k) /\ SameArray(c, l) /\ l.cur = r
      /\ l.pf = c.pf \/ (l.pf.active /\ c.prefetch)
  BY LookSteps
<1>2. ~l.pf.active
  BY <1>1 DEF EngineOff
<1>3. \A m \in owe : DirtyIn(l, m)
  BY <1>1, SameArrayDirty DEF Flushes
<1>4. r.line \in LineNo /\ index_of(r.line) \in Set
  BY IndexTag DEF Request
<1>5. CASE Resident(c, r.line)
  <2>1. e = Hit(l, r) /\ Resident(l, r.line)
    BY <1>1, <1>5, ReadySteps DEF Resident, Ways_of, SameArray
  <2> HIDE DEF l
  <2>2. Hit(l, r).phase = "HitWait" /\ Hit(l, r).cur = r
    BY <1>1, <2>1, HitSteps
  <2>3. /\ r.write => DirtyIn(Hit(l, r), r.line)
        /\ \A m \in LineNo : DirtyIn(l, m) => DirtyIn(Hit(l, r), m)
    BY <1>1, <2>1, HitDirty
  <2> HIDE DEF e
  <2>4. \A m \in owe : DirtyIn(e, m)
    BY <1>3, <2>1, <2>3
  <2> QED BY <2>1, <2>2, <2>3, <2>4 DEF Flushes, e
<1>6. CASE ~Resident(c, r.line)
  <2> DEFINE s == index_of(r.line)
             w == choose_victim(l, s)
  <2>1. e = Miss(l, r)
    BY <1>2, <1>6, ReadySteps
  <2> HIDE DEF l
  <2>2. /\ SameArray(l, e) /\ e.cur = l.cur /\ e.victim_way = w
        /\ NeedsWriteBack(l, s, w) =>
             e.phase = "WriteBack" /\ e.wb_line = addr_of(s, l.lines[s][w].tag)
        /\ ~NeedsWriteBack(l, s, w) => e.phase = "MissFetch"
    BY <1>1, <2>1, MissSteps
  <2>3. w \in Way /\ l.lines \in [Set -> [Way -> Line]] /\ l.lines[s][w].tag \in Tag
    BY <1>1, <1>4, VictimType, Members DEF Line
  <2> HIDE DEF e, s, w
  <2>4. e.lines = l.lines /\ e.cur.line = r.line /\ e.cur = r
    BY <1>1, <2>2 DEF SameArray
  <2>5. /\ VictimLine(e) = addr_of(s, l.lines[s][w].tag)
        /\ VictimValid(e) <=> l.lines[s][w].valid
    BY <2>2, <2>4 DEF VictimLine, VictimValid, s
  <2>6. \A m \in owe : DirtyIn(e, m)
    BY <1>3, <2>2, SameArrayDirty
  <2>7. CASE NeedsWriteBack(l, s, w)
    BY <2>2, <2>4, <2>5, <2>6, <2>7 DEF Flushes, NeedsWriteBack, e
  <2>8. CASE ~NeedsWriteBack(l, s, w)
    <3> DEFINE v == addr_of(s, l.lines[s][w].tag)
    <3>1. ASSUME l.lines[s][w].valid, v \in owe PROVE FALSE
      <4>1. index_of(v) = s /\ tag_of(v) = l.lines[s][w].tag
        BY <1>4, <2>3, AddrOf DEF s
      <4>2. PICK x \in Ways_of(l, v) : l.lines[index_of(v)][x].dirty
        BY <1>3, <3>1 DEF DirtyIn
      <4> HIDE DEF v
      <4>3. x \in Way /\ l.lines[s][x].valid /\ l.lines[s][x].tag = l.lines[s][w].tag
        BY <4>1, <4>2 DEF Ways_of
      <4>4. Unique(l)
        BY <1>1 DEF Unique, SameArray
      <4>5. x = w
        BY <1>4, <2>3, <3>1, <4>3, <4>4 DEF Unique, s
      <4> QED BY <2>8, <3>1, <4>1, <4>2, <4>5 DEF NeedsWriteBack
    <3>2. e.phase = "MissFetch"
      BY <2>2, <2>8
    <3> QED BY <2>4, <2>5, <2>6, <3>1, <3>2 DEF Flushes, e
  <2> QED BY <2>7, <2>8
<1> QED BY <1>5, <1>6

\* tick() drops no dirty line that is not on its way to memory.
LEMMA TickFlushes ==
    ASSUME NEW k, Parameters(k), NEW c \in Built(k), NEW owe \in SUBSET LineNo,
           ~c.prefetch, EngineOff(c), FetchedAreAbsent(c), Flushes(c, owe)
    PROVE  LET e == cache_tick(c)
               left == IF c.phase = "WriteBack" /\ e.phase = "MissFetch"
                         THEN owe \ {c.wb_line} ELSE owe
           IN  Flushes(e, left) /\ e.cur = c.cur
<1> DEFINE e == cache_tick(c)
           left == IF c.phase = "WriteBack" /\ e.phase = "MissFetch"
                     THEN owe \ {c.wb_line} ELSE owe
<1>0. /\ c.phase \in Phases /\ c.cur.line \in LineNo /\ c.victim_way \in Way
      /\ c.lines \in [Set -> [Way -> Line]]
  BY Members
<1>1. ~c.pf.active /\ c.phase # "PrefetchWait"
  BY DEF EngineOff, FetchedAreAbsent
<1>2. CASE c.phase = "Idle"
  <2>1. e = service_prefetch(c)
    BY <1>2, TickSteps
  <2>2. service_prefetch(c) = c
    BY <1>1, ServiceSteps
  <2> QED BY <1>2, <2>1, <2>2
<1>3. CASE c.phase = "HitWait"
  <2> DEFINE d == CountedDown(c)
  <2>1. e = service_prefetch(d)
    BY <1>3, TickSteps, HitWaitSteps
  <2>2. /\ d \in Built(k) /\ SameArray(c, d) /\ d.pf = c.pf /\ d.cur = c.cur
        /\ d.phase \in {"HitWait", "Idle"}
    <3>1. c.hit_remaining > 0 \/ c.hit_remaining = 0
      BY Members
    <3> QED BY <1>3, <3>1, HitWaitSteps
  <2> HIDE DEF d, e
  <2>3. e = d
    BY <1>1, <2>1, <2>2, ServiceSteps
  <2>4. \A m : DirtyIn(d, m) <=> DirtyIn(c, m)
    BY <2>2, SameArrayDirty
  <2>5. left = owe
    BY <1>3
  <2> HIDE DEF left
  <2>6. Flushes(d, owe)
    BY <1>3, <2>2, <2>4 DEF Flushes
  <2> QED BY <2>2, <2>3, <2>5, <2>6 DEF e, left
<1>4. CASE c.phase = "WriteBack"
  <2>1. e = WriteBackTick(c)
    BY <1>4, TickSteps
  <2> HIDE DEF e
  <2>2. /\ SameArray(c, e) /\ e.cur = c.cur /\ e.victim_way = c.victim_way
        /\ e.wb_line = c.wb_line
        /\ e.phase = IF Got(c) THEN "MissFetch" ELSE "WriteBack"
    BY <1>4, <2>1, WriteBackSteps
  <2>3. VictimLine(e) = VictimLine(c) /\ (VictimValid(e) <=> VictimValid(c))
    BY <2>2 DEF VictimLine, VictimValid, SameArray
  <2>4. \A m : DirtyIn(e, m) <=> DirtyIn(c, m)
    BY <2>2, SameArrayDirty
  <2>5. CASE Got(c)
    <3>1. left = owe \ {c.wb_line} /\ e.phase = "MissFetch"
      BY <1>4, <2>2, <2>5
    <3> QED BY <1>4, <2>2, <2>3, <2>4, <3>1 DEF Flushes, e
  <2>6. CASE ~Got(c)
    <3>1. left = owe /\ e.phase = "WriteBack"
      BY <1>4, <2>2, <2>6
    <3> HIDE DEF left
    <3> QED BY <1>4, <2>2, <2>3, <2>4, <3>1 DEF Flushes, e, left
  <2> QED BY <2>5, <2>6
<1>5. CASE c.phase = "MissFetch"
  <2> DEFINE no == FALSE
             wr == c.cur.write
  <2>1. e = FillTick(c) /\ left = owe
    BY <1>5, TickSteps
  <2> HIDE DEF e, left
  <2>2. CASE ~Got(c)
    <3>1. SameArray(c, e) /\ SameRequest(c, e)
      BY <2>1, <2>2, FillSteps
    <3>2. VictimLine(e) = VictimLine(c) /\ (VictimValid(e) <=> VictimValid(c))
      BY <3>1 DEF VictimLine, VictimValid, SameArray, SameRequest
    <3>3. \A m : DirtyIn(e, m) <=> DirtyIn(c, m)
      BY <3>1, SameArrayDirty
    <3>4. Flushes(e, owe)
      BY <1>5, <3>1, <3>2, <3>3 DEF Flushes, SameRequest
    <3> QED BY <2>1, <3>1, <3>4 DEF e, left, SameRequest
  <2>3. CASE Got(c)
    <3>1. /\ Filled(c, e, c.cur.line, c.victim_way, wr, no)
          /\ e.phase = "HitWait" /\ e.cur = c.cur
      BY <2>1, <2>3, FillSteps DEF Filled
    <3>2. Filled(c, e, c.cur.line, c.victim_way, wr, no)
      BY <3>1
    <3> HIDE DEF wr, no
    <3>3. /\ wr => DirtyIn(e, c.cur.line)
          /\ \A m \in LineNo :
               /\ DirtyIn(c, m)
               /\ VictimValid(c) => VictimLine(c) # m
               => DirtyIn(e, m)
      BY <1>0, <3>2, FillDirty DEF VictimValid, VictimLine
    <3>4. \A m \in owe : DirtyIn(e, m)
      BY <1>5, <3>3 DEF Flushes
    <3>5. Flushes(e, owe)
      BY <3>1, <3>3, <3>4 DEF Flushes, wr
    <3> QED BY <2>1, <3>1, <3>5 DEF e, left
  <2> QED BY <2>2, <2>3
<1> QED BY <1>0, <1>1, <1>2, <1>3, <1>4, <1>5 DEF Phases

-----------------------------------------------------------------------------
(***************************************************************************)
(* The specification.                                                      *)
(***************************************************************************)

\* A setup is a set of parameters, and the cache was built with it.
LEMMA SetupParameters ==
    ASSUME NEW k \in Setups
    PROVE  Parameters(k) /\ k.client \in {"fetch", "memory"} /\ k.prefetch \in BOOLEAN
<1>1. k \in [client : {"fetch", "memory"}, hit : Nat, backing : Nat,
             prefetch : BOOLEAN, degree : Nat]
  BY SetupAssumption
<1> QED BY <1>1 DEF Parameters

\* What the client asks for is a request, and no store if the client is fetch.
LEMMA WantType ==
    ASSUME setup \in Setups, want \in Requests, want # NoRequest
    PROVE  want \in Request /\ (setup.client = "fetch" => ~want.write)
<1>1. CASE setup.client = "fetch"
  <2>1. want \in [line : LineNo, write : {FALSE}]
    BY <1>1 DEF Requests
  <2> QED BY <2>1 DEF Request
<1>2. CASE setup.client # "fetch"
  BY <1>2 DEF Requests
<1> QED BY <1>1, <1>2

\* A cache as it is built satisfies the invariant.
LEMMA InitIInv == Init => IInv
<1> SUFFICES ASSUME Init PROVE IInv
  OBVIOUS
<1> DEFINE c == cache
<1>1. setup \in Setups /\ Parameters(setup)
  BY SetupParameters DEF Init
<1>2. c = NewCache(setup.hit, setup.prefetch, setup.degree, setup.backing)
  BY DEF Init
<1>3. c \in Built(setup)
  BY <1>1, <1>2, NewCacheType
<1>4. /\ c.phase = "Idle" /\ c.pf.active = FALSE /\ c.balance = 0
      /\ c.backing = NewMem(setup.backing)
      /\ c.lines = [s \in Set |-> [w \in Way |->
           [valid |-> FALSE, dirty |-> FALSE, prefetched |-> FALSE, tag |-> 0]]]
  BY <1>2 DEF NewCache
<1>5. ~c.backing.serving
  BY <1>4 DEF NewMem
<1>6. \A s \in Set, w \in Way : ~c.lines[s][w].valid
  BY <1>4
<1> HIDE DEF c
<1>7. LongestWait \in Nat
  BY <1>1, <1>3, Members DEF LongestWait, c
<1>8. TypeOK
  <2>1. cache \in CacheState(setup.hit, setup.prefetch, setup.degree, setup.backing)
    BY <1>3 DEF Built, c
  <2>2. /\ half \in {"evaluate", "latch"} /\ want \in Requests /\ owed \subseteq LineNo
        /\ served \in BOOLEAN
    BY DEF Init
  <2>3. waited \in 0 .. LongestWait /\ due \in 0 .. LongestWait
    BY <1>7 DEF Init
  <2> QED BY <1>1, <2>1, <2>2, <2>3 DEF TypeOK
<1>9. Unique(c)
  BY <1>6 DEF Unique
<1>10. FetchedAreAbsent(c)
  BY <1>4 DEF FetchedAreAbsent
<1>11. EngineOff(c)
  BY <1>4, <1>5 DEF EngineOff
<1>12. Left(c) = 0
  BY <1>1, <1>3, <1>4, LeftOf
<1>13. OnTime
  BY <1>12 DEF OnTime, Init, c
<1>14. Writebacks
  BY <1>4 DEF Writebacks, Flushes, Init, c
<1>15. Balanced(c)
  <2>1. PrefetchedIn(c) = {}
    <3>1. \A x \in Set \X Way : x[1] \in Set /\ x[2] \in Way
      OBVIOUS
    <3> QED BY <1>6, <3>1 DEF PrefetchedIn
  <2>2. Cardinality(PrefetchedIn(c)) = 0
    BY <2>1, FS_EmptySet, Zenon
  <2>3. c.balance = 0 /\ ~c.pf.active
    BY <1>4
  <2>4. Owing(c) = 0 - 0
    BY <2>3, Zenon DEF Owing
  <2>5. 0 - 0 = 0
    OBVIOUS
  <2> QED BY <2>2, <2>4, <2>5, Zenon DEF Balanced
<1>16. PrefetchAccounted
  <2>1. c.balance \in Int
    BY <1>1, <1>3, Members
  <2> QED BY <1>15, <2>1, Accounted DEF PrefetchedIn, PrefetchAccounted, c
<1> QED BY <1>8, <1>9, <1>10, <1>11, <1>13, <1>14, <1>16 DEF IInv, c

\* The invariant says this of the state a step starts from.
LEMMA IInvMeans ==
    ASSUME IInv
    PROVE  /\ Parameters(setup) /\ setup \in Setups /\ cache \in Built(setup)
           /\ setup.client \in {"fetch", "memory"}
           /\ cache.prefetch = setup.prefetch /\ setup.prefetch \in BOOLEAN
           /\ want \in Requests
           /\ want # NoRequest => want \in Request /\ (setup.client = "fetch" => ~want.write)
           /\ Left(cache) \in Nat /\ waited \in Nat /\ due \in Nat
           /\ LongestWait \in Nat /\ due <= LongestWait
           /\ owed \in SUBSET LineNo
           /\ Balanced(cache)
<1>1. setup \in Setups /\ want \in Requests /\ cache \in Built(setup)
  BY DEF IInv, TypeOK, Built
<1>2. Parameters(setup) /\ setup.client \in {"fetch", "memory"} /\ setup.prefetch \in BOOLEAN
  BY <1>1, SetupParameters
<1>3. cache.prefetch = setup.prefetch /\ LongestWait \in Nat
  BY <1>1, <1>2, Members DEF LongestWait
<1>4. want # NoRequest => want \in Request /\ (setup.client = "fetch" => ~want.write)
  BY <1>1, WantType
<1>5. waited \in Nat /\ due \in Nat /\ due <= LongestWait /\ owed \in SUBSET LineNo
  BY <1>3 DEF IInv, TypeOK
<1>6. Left(cache) \in Nat
  BY <1>1, <1>2, LeftOf
<1>7. Balanced(cache)
  BY <1>1, <1>2, Members, Accounted DEF IInv, PrefetchAccounted, PrefetchedIn
<1> QED BY <1>1, <1>2, <1>3, <1>4, <1>5, <1>6, <1>7

\* The object's parts of the invariant after a step that keeps the setup.
ObjectInv(c) == /\ c \in Built(setup)
                /\ Unique(c) /\ FetchedAreAbsent(c) /\ EngineOff(c) /\ Balanced(c)

\* ready() preserves the invariant.
LEMMA CallIInv == IInv /\ Call => IInv'
<1> SUFFICES ASSUME IInv, Call PROVE IInv'
  OBVIOUS
<1> DEFINE c == cache
           e == cache_ready(cache, want)
<1>1. /\ Parameters(setup) /\ setup \in Setups /\ cache \in Built(setup)
      /\ cache.prefetch = setup.prefetch /\ setup.prefetch \in BOOLEAN
      /\ want \in Requests /\ want \in Request
      /\ setup.client = "fetch" => ~want.write
      /\ Left(cache) \in Nat /\ waited \in Nat /\ due \in Nat
      /\ LongestWait \in Nat /\ due <= LongestWait
      /\ owed \in SUBSET LineNo
      /\ Balanced(cache)
  BY IInvMeans DEF Call
<1>2. /\ cache' = e /\ half' = "latch" /\ setup' = setup /\ want' = want
      /\ served' = cache_served(e)
      /\ waited' = IF cache.phase = "Idle" THEN 0 ELSE waited
      /\ due' = IF cache.phase = "Idle" THEN Cost(want) ELSE due
      /\ owed' = IF served' /\ want.write THEN owed \cup {want.line} ELSE owed
  BY DEF Call
<1>3. ObjectInv(e)
  <2>1. e \in Built(setup)
    BY <1>1, ReadySteps
  <2>2. Unique(e) /\ FetchedAreAbsent(e)
    BY <1>1, ReadyUnique DEF IInv
  <2>3. Balanced(e)
    BY <1>1, ReadyBalanced
  <2>4. EngineOff(e)
    <3>1. CASE cache.phase = "Idle"
      BY <1>1, <3>1, ReadyTime DEF IInv
    <3>2. CASE cache.phase # "Idle"
      <4>1. e = cache
        BY <1>1, <3>2, ReadySteps
      <4> QED BY <4>1 DEF IInv
    <3> QED BY <3>1, <3>2
  <2> QED BY <2>1, <2>2, <2>3, <2>4 DEF ObjectInv
<1>4. SameParameters(c, e) /\ e.backing.latency = c.backing.latency
  BY <1>1, <1>3, Members DEF ObjectInv, SameParameters
<1>5. /\ waited' \in Nat /\ due' \in Nat /\ due' <= LongestWait
      /\ waited' + Left(e) <= due'
      /\ ~c.prefetch => waited' + Left(e) = due'
      /\ e.phase # "Idle"
  <2>1. CASE cache.phase = "Idle"
    <3>1. /\ e.phase # "Idle" /\ Left(e) <= Cost(want)
          /\ ~cache.prefetch => Left(e) = Cost(want)
          /\ Cost(want) \in 0 .. LongestWait
      BY <1>1, <2>1, ReadyTime DEF IInv
    <3>2. waited' = 0 /\ due' = Cost(want)
      BY <1>2, <2>1
    <3>3. Left(e) \in Nat
      BY <1>1, <1>3, LeftOf DEF ObjectInv
    <3> QED BY <1>1, <3>1, <3>2, <3>3
  <2>2. CASE cache.phase # "Idle"
    <3>1. e = cache
      BY <1>1, <2>2, ReadySteps
    <3>2. waited' = waited /\ due' = due
      BY <1>2, <2>2
    <3> QED BY <1>1, <2>2, <3>1, <3>2 DEF IInv, OnTime
  <2> QED BY <2>1, <2>2
<1>6. /\ setup.client = "fetch" => owed' = {}
      /\ setup.client = "memory" /\ ~setup.prefetch =>
           e.cur = want /\ Flushes(e, owed')
      /\ owed' \in SUBSET LineNo
  <2>1. want.line \in LineNo /\ want.write \in BOOLEAN
    BY <1>1 DEF Request
  <2>2. setup.client = "fetch" => owed' = {}
    BY <1>1, <1>2 DEF IInv, Writebacks
  <2>3. ASSUME setup.client = "memory", ~setup.prefetch
        PROVE  e.cur = want /\ Flushes(e, owed)
    <3>1. CASE cache.phase = "Idle"
      BY <1>1, <2>3, <3>1, ReadyFlushes DEF IInv, Writebacks
    <3>2. CASE cache.phase # "Idle"
      <4>1. e = cache
        BY <1>1, <3>2, ReadySteps
      <4> QED BY <2>3, <3>2, <4>1 DEF IInv, Writebacks
    <3> QED BY <3>1, <3>2
  <2>4. ASSUME setup.client = "memory", ~setup.prefetch, cache_served(e), want.write
        PROVE  Flushes(e, owed \cup {want.line})
    <3>1. e.cur = want /\ Flushes(e, owed) /\ e.phase = "HitWait"
      BY <2>3, <2>4 DEF cache_served
    <3> HIDE DEF e
    <3>2. DirtyIn(e, want.line)
      BY <2>4, <3>1 DEF Flushes
    <3> QED BY <3>1, <3>2 DEF Flushes
  <2>5. owed' \in SUBSET LineNo
    BY <1>1, <1>2, <2>1
  <2>6. CASE served' /\ want.write
    <3>1. owed' = owed \cup {want.line} /\ cache_served(e)
      BY <1>2, <2>6
    <3> HIDE DEF e
    <3> QED BY <2>2, <2>3, <2>4, <2>5, <2>6, <3>1
  <2>7. CASE ~(served' /\ want.write)
    <3>1. owed' = owed
      BY <1>2, <2>7
    <3> HIDE DEF e
    <3> QED BY <2>2, <2>3, <2>5, <3>1
  <2> QED BY <2>6, <2>7
<1>7. LongestWait' = LongestWait
  BY <1>2, <1>4 DEF LongestWait, SameParameters
<1>8. Requests' = Requests
  BY <1>2 DEF Requests
<1>9. Left(e) \in Nat /\ e.prefetch = setup.prefetch
  BY <1>1, <1>3, LeftOf, Members DEF ObjectInv
<1> HIDE DEF e, c
<1>10. TypeOK'
  <2>1. waited' \in 0 .. LongestWait /\ due' \in 0 .. LongestWait
    BY <1>1, <1>5, <1>9
  <2>2. cache' \in Built(setup)
    BY <1>2, <1>3 DEF ObjectInv
  <2>3. served' \in BOOLEAN
    BY <1>2 DEF cache_served
  <2> QED BY <1>1, <1>2, <1>6, <1>7, <1>8, <2>1, <2>2, <2>3 DEF TypeOK, Built
<1>11. /\ Unique(cache)' /\ FetchedAreAbsent(cache)' /\ EngineOff(cache)'
  BY <1>2, <1>3 DEF ObjectInv
<1>12. OnTime'
  BY <1>1, <1>2, <1>5, <1>9 DEF OnTime, c
<1>13. Writebacks'
  BY <1>2, <1>6, <1>5, <1>1, IInvMeans DEF Writebacks, Call
<1>14. PrefetchAccounted'
  <2>1. Balanced(cache') /\ cache'.balance \in Int
    BY <1>1, <1>2, <1>3, Members DEF ObjectInv
  <2> QED BY <2>1, Accounted DEF PrefetchedIn, PrefetchAccounted
<1> QED BY <1>10, <1>11, <1>12, <1>13, <1>14 DEF IInv

\* tick() preserves the invariant.
LEMMA TickIInv == IInv /\ Tick => IInv'
<1> SUFFICES ASSUME IInv, Tick PROVE IInv'
  OBVIOUS
<1> DEFINE c == cache
           e == cache_tick(cache)
           left == IF cache.phase = "WriteBack" /\ e.phase = "MissFetch"
                     THEN owed \ {cache.wb_line} ELSE owed
<1>1. /\ Parameters(setup) /\ setup \in Setups /\ cache \in Built(setup)
      /\ cache.prefetch = setup.prefetch /\ setup.prefetch \in BOOLEAN
      /\ setup.client \in {"fetch", "memory"}
      /\ want \in Requests
      /\ Left(cache) \in Nat /\ waited \in Nat /\ due \in Nat
      /\ LongestWait \in Nat /\ due <= LongestWait
      /\ owed \in SUBSET LineNo
      /\ Balanced(cache)
  BY IInvMeans
<1>2. /\ cache' = e /\ half' = "evaluate" /\ setup' = setup /\ served' = FALSE
      /\ want' \in IF served \/ want = NoRequest \/ setup.client = "fetch"
                     THEN Requests ELSE {want}
      /\ waited' = IF e.phase = "Idle" THEN 0 ELSE waited + 1
      /\ due' = IF e.phase = "Idle" THEN 0 ELSE due
      /\ owed' = left
  BY DEF Tick
<1>3. /\ EngineOff(e)
      /\ SameParameters(c, e) /\ e.backing.latency = c.backing.latency
      /\ c.phase = "Idle" => e.phase = "Idle"
      /\ (c.phase # "Idle" /\ e.phase # "Idle") => Left(e) = Left(c) - 1
      /\ cache_served(c) => e.phase = "Idle"
  BY <1>1, TickTime DEF IInv
<1>4. ObjectInv(e)
  <2>1. e \in Built(setup)
    BY <1>1, TickSteps
  <2>2. Unique(e) /\ FetchedAreAbsent(e)
    BY <1>1, TickUnique DEF IInv
  <2>3. Balanced(e)
    BY <1>1, TickBalanced DEF IInv
  <2> QED BY <1>3, <2>1, <2>2, <2>3 DEF ObjectInv
<1>5. /\ Left(e) \in Nat /\ e.prefetch = setup.prefetch
      /\ e.phase = "Idle" => Left(e) = 0
  BY <1>1, <1>4, LeftOf, Members DEF ObjectInv
<1>6. want' \in Requests
  BY <1>1, <1>2
<1>7. setup.client = "memory" /\ ~setup.prefetch =>
        e.cur = c.cur /\ Flushes(e, left)
  BY <1>1, TickFlushes DEF IInv, Writebacks
<1>8. owed' \in SUBSET LineNo /\ (owed = {} => owed' = {})
  BY <1>1, <1>2
<1> HIDE DEF e, c, left
<1>9. LongestWait' = LongestWait /\ Requests' = Requests
  BY <1>2, <1>3 DEF LongestWait, SameParameters, Requests, c
<1>10. /\ waited' \in Nat /\ due' \in Nat /\ due' <= LongestWait
       /\ waited' + Left(e) <= due'
       /\ ~setup.prefetch => waited' + Left(e) = due'
       /\ e.phase = "Idle" => waited' = 0 /\ due' = 0
  <2>1. CASE e.phase = "Idle"
    BY <1>1, <1>2, <1>5, <2>1
  <2>2. CASE e.phase # "Idle"
    <3>1. waited' = waited + 1 /\ due' = due /\ Left(e) = Left(c) - 1
      BY <1>2, <1>3, <2>2
    <3>2. waited + Left(c) <= due /\ (~setup.prefetch => waited + Left(c) = due)
      BY <1>1 DEF IInv, OnTime, c
    <3> QED BY <1>1, <1>5, <2>2, <3>1, <3>2 DEF c
  <2> QED BY <2>1, <2>2
<1>11. TypeOK'
  <2>1. waited' \in 0 .. LongestWait /\ due' \in 0 .. LongestWait
    BY <1>1, <1>5, <1>10
  <2>2. cache' \in Built(setup)
    BY <1>2, <1>4 DEF ObjectInv
  <2> QED BY <1>1, <1>2, <1>6, <1>8, <1>9, <2>1, <2>2 DEF TypeOK, Built
<1>12. Unique(cache)' /\ FetchedAreAbsent(cache)' /\ EngineOff(cache)'
  BY <1>2, <1>4 DEF ObjectInv
<1>13. OnTime'
  BY <1>1, <1>2, <1>5, <1>10 DEF OnTime
<1>14. Writebacks'
  <2>1. setup.client = "fetch" => owed' = {}
    BY <1>8 DEF IInv, Writebacks
  <2>2. ASSUME setup.client = "memory", ~setup.prefetch, e.phase # "Idle"
        PROVE  want' # NoRequest /\ e.cur = want'
    <3>1. want # NoRequest /\ cache.cur = want
      BY <1>3, <2>2 DEF IInv, Writebacks, c
    <3>2. ~served
      BY <1>3, <2>2 DEF IInv, OnTime, c
    <3>3. want' = want
      BY <1>2, <2>2, <3>1, <3>2
    <3> QED BY <1>7, <2>2, <3>1, <3>3 DEF c
  <2> QED BY <1>2, <1>7, <2>1, <2>2 DEF Writebacks
<1>15. PrefetchAccounted'
  <2>1. Balanced(cache') /\ cache'.balance \in Int
    BY <1>1, <1>2, <1>4, Members DEF ObjectInv
  <2> QED BY <2>1, Accounted DEF PrefetchedIn, PrefetchAccounted
<1> QED BY <1>11, <1>12, <1>13, <1>14, <1>15 DEF IInv

\* The steps that leave the cache alone preserve it.
LEMMA QuietIInv == IInv /\ (NoCall \/ Freeze \/ UNCHANGED vars) => IInv'
<1> SUFFICES ASSUME IInv, NoCall \/ Freeze \/ UNCHANGED vars PROVE IInv'
  OBVIOUS
<1>1. /\ cache' = cache /\ setup' = setup /\ want' = want
      /\ waited' = waited /\ due' = due /\ owed' = owed
      /\ half' \in {"evaluate", "latch"} /\ served' \in BOOLEAN
      /\ served' => served /\ half' = half
  <2>1. half \in {"evaluate", "latch"} /\ served \in BOOLEAN /\ (served => half = "latch")
    BY DEF IInv, TypeOK, OnTime
  <2>2. CASE NoCall
    BY <2>1, <2>2 DEF NoCall
  <2>3. CASE Freeze
    BY <2>1, <2>3 DEF Freeze
  <2>4. CASE UNCHANGED vars
    BY <2>1, <2>4 DEF vars
  <2> QED BY <2>2, <2>3, <2>4
<1>2. TypeOK'
  BY <1>1 DEF IInv, TypeOK, LongestWait, Requests
<1>3. OnTime'
  BY <1>1 DEF IInv, OnTime
<1>4. Writebacks'
  BY <1>1 DEF IInv, Writebacks
<1>5. Unique(cache)' /\ FetchedAreAbsent(cache)' /\ EngineOff(cache)' /\ PrefetchAccounted'
  BY <1>1 DEF IInv, PrefetchAccounted
<1> QED BY <1>2, <1>3, <1>4, <1>5 DEF IInv

\* IInv is an inductive invariant of the cache and its client.
THEOREM Invariance == Spec => []IInv
<1>1. IInv /\ [Next]_vars => IInv'
  BY CallIInv, TickIInv, QuietIInv DEF Next, Evaluate
<1> QED BY InitIInv, <1>1, PTL DEF Spec

\* No call sequence takes a member of the cache, a timer or a counter out of
\* its range, for every geometry, latency and degree.
THEOREM TypeCorrect == Spec => []TypeOK
<1>1. IInv => TypeOK
  BY DEF IInv
<1> QED BY Invariance, <1>1, PTL

\* No line is ever in two ways of its set: a line the demand path fills or the
\* engine installs is absent at that moment, however long it waited.
THEOREM LinesUnique == Spec => []NoDuplicateLines
<1>1. IInv => NoDuplicateLines
  <2> SUFFICES ASSUME IInv, NEW l \in LineNo
               PROVE  Cardinality(Ways_of(cache, l)) <= 1
    BY DEF NoDuplicateLines
  <2>1. \A v, w \in Ways_of(cache, l) : v = w
    <3>1. index_of(l) \in Set
      BY IndexTag
    <3> QED BY <3>1 DEF IInv, Unique, Ways_of
  <2>2. CASE Ways_of(cache, l) = {}
    <3>1. Cardinality(Ways_of(cache, l)) = 0
      BY <2>2, FS_EmptySet, Zenon
    <3> QED BY <3>1
  <2>3. CASE Ways_of(cache, l) # {}
    <3>1. PICK w : Ways_of(cache, l) = {w}
      BY <2>1, <2>3
    <3>2. Cardinality(Ways_of(cache, l)) = 1
      BY <3>1, FS_Singleton, Zenon
    <3> QED BY <3>2
  <2> QED BY <2>2, <2>3
<1> QED BY Invariance, <1>1, PTL

\* An access costs what the latencies say: to the cycle without prefetching,
\* never more with it.
THEOREM AccessCosts == Spec => []AccessCost
<1>1. IInv => AccessCost
  <2> SUFFICES ASSUME IInv, served PROVE waited <= due /\ (~setup.prefetch => waited = due)
    BY DEF AccessCost
  <2>1. /\ Parameters(setup) /\ cache \in Built(setup)
        /\ cache.prefetch = setup.prefetch /\ waited \in Nat /\ due \in Nat
    BY IInvMeans
  <2>2. cache.phase = "HitWait" /\ cache.hit_remaining = 0
    BY DEF IInv, OnTime, cache_served
  <2>3. Left(cache) = 0
    BY <2>1, <2>2, LeftOf
  <2> QED BY <2>1, <2>3 DEF IInv, OnTime
<1> QED BY Invariance, <1>1, PTL

\* Every prefetched line is counted as useful or as useless, once: the counters
\* owe one outcome for each that is still unused.
THEOREM PrefetchesAccounted == Spec => []PrefetchAccounted
<1>1. IInv => PrefetchAccounted
  BY DEF IInv
<1> QED BY Invariance, <1>1, PTL

\* Core gives the engine to its instruction cache only.
CoreSetups == \A k \in Setups : k.client = "memory" => ~k.prefetch

\* In every cache Core builds a line that was stored to stays in the cache,
\* dirty, until its write-back is charged.
THEOREM WritebacksKept ==
    ASSUME CoreSetups PROVE Spec => []NoLostWriteback
<1>1. IInv => NoLostWriteback
  <2> SUFFICES ASSUME IInv PROVE NoLostWriteback
    OBVIOUS
  <2>1. setup \in Setups /\ setup.client \in {"fetch", "memory"}
    BY IInvMeans
  <2>2. setup.client = "fetch" \/ (setup.client = "memory" /\ ~setup.prefetch)
    BY <2>1 DEF CoreSetups
  <2>3. \A l \in owed : DirtyIn(cache, l)
    BY <2>2 DEF IInv, Writebacks, Flushes
  <2> QED BY <2>3 DEF NoLostWriteback, Dirty, DirtyIn
<1> QED BY Invariance, <1>1, PTL
=============================================================================
