--------------------------- MODULE CacheLFUProofs ---------------------------
(***************************************************************************)
(* LFU replacement without a prefetcher, for every geometry and as long as *)
(* no counter wraps: freq_count is the number of accesses, and the block   *)
(* that is replaced was accessed no more often than the ones that stay.    *)
(*                                                                         *)
(* LFUInv adds to the invariants of Cache that a block that is not cached  *)
(* has no uses, so that the miss which brings it in makes its counter 1.   *)
(* That last_blk is what it claims to be (DataInv) is needed too: a fast   *)
(* hit counts whatever way it points to.                                   *)
(***************************************************************************)
EXTENDS CacheLFU, CacheProofs

\* The valid blocks of c have been accessed as often as their freq_count says.
Counts(c, u) ==
  \A s \in Sets : \A w \in Ways :
    LET blk == c.sets[s].blk[w]
    IN  blk.valid => blk.freq = u[MkBaddr(blk.tag, s)]

\* The uses after an access to b that leaves cache n.
UsedOf(u, n, b) ==
  [x \in Blocks |-> IF x \notin Cached(n) THEN 0
                    ELSE IF x = b THEN u[x] + 1 ELSE u[x]]

\* Cache n is c after a hit of b in way w.
Hits(c, n, b, w) ==
  /\ w \in Matches(c.sets[SetOf(b)], TagOf(b))
  /\ \A s \in Sets : \A v \in Ways :
       /\ n.sets[s].blk[v].tag = c.sets[s].blk[v].tag
       /\ n.sets[s].blk[v].valid = c.sets[s].blk[v].valid
       /\ n.sets[s].blk[v].freq =
            IF s = SetOf(b) /\ v = w THEN (c.sets[s].blk[v].freq + 1) % FreqMod
            ELSE c.sets[s].blk[v].freq

\* Blocks are never counted beyond the bound, and those not cached not at all.
UsesOK(c, u) ==
  /\ u \in [Blocks -> 0 .. MaxUses]
  /\ \A x \in Blocks : x \notin Cached(c) => u[x] = 0
  /\ Counts(c, u)

\* A valid way holds the cached block whose address its tag makes.
LEMMA HeldBlock ==
  ASSUME NEW c, CacheOK(c), NEW s \in Sets, NEW v \in Ways, c.sets[s].blk[v].valid
  PROVE  LET x == MkBaddr(c.sets[s].blk[v].tag, s)
         IN  x \in Cached(c) /\ SetOf(x) = s /\ TagOf(x) = c.sets[s].blk[v].tag
<1> DEFINE t == c.sets[s].blk[v].tag
           x == MkBaddr(t, s)
<1>1. t \in Tags
  BY DEF CacheOK, CacheType, Set, Block
<1>2. x \in Blocks /\ SetOf(x) = s /\ TagOf(x) = t
  BY <1>1, BlockAddr
<1> HIDE DEF x
<1>3. v \in Matches(c.sets[SetOf(x)], TagOf(x))
  BY <1>2 DEF Matches
<1>4. x \in Cached(c)
  BY <1>2, <1>3 DEF Cached, Probe
<1> QED BY <1>2, <1>4 DEF x

\* A hit changes no block, only one counter.
LEMMA HitCached ==
  ASSUME NEW c, NEW n, NEW b, NEW w, Hits(c, n, b, w)
  PROVE  Cached(n) = Cached(c)
<1>1. \A x \in Blocks : Matches(n.sets[SetOf(x)], TagOf(x)) = Matches(c.sets[SetOf(x)], TagOf(x))
  BY BlockAddr DEF Hits, Matches
<1> QED BY <1>1 DEF Cached, Probe

\* A hit counts the block that is accessed, and the counter does not wrap.
LEMMA HitUses ==
  ASSUME NEW c, CacheOK(c), NEW n, CacheOK(n), NEW b \in Blocks, NEW w, Hits(c, n, b, w),
         NEW u, UsesOK(c, u), u[b] < MaxUses, MaxUses < FreqMod
  PROVE  UsesOK(n, UsedOf(u, n, b))
<1> DEFINE z == UsedOf(u, n, b)
<1>0. MaxUses \in Nat /\ FreqMod \in Nat \ {0} /\ u \in [Blocks -> 0 .. MaxUses]
  BY MaxUsesAssumption, FreqAssumption DEF UsesOK
<1>1. Cached(n) = Cached(c)
  BY HitCached
<1>2. z \in [Blocks -> 0 .. MaxUses] /\ \A x \in Blocks : x \notin Cached(n) => z[x] = 0
  BY <1>0 DEF UsedOf
<1>3. ASSUME NEW s \in Sets, NEW v \in Ways, n.sets[s].blk[v].valid
      PROVE  n.sets[s].blk[v].freq = z[MkBaddr(n.sets[s].blk[v].tag, s)]
  <2> DEFINE x == MkBaddr(c.sets[s].blk[v].tag, s)
  <2>1. c.sets[s].blk[v].valid /\ n.sets[s].blk[v].tag = c.sets[s].blk[v].tag
    BY <1>3 DEF Hits
  <2>2. x \in Cached(c) /\ SetOf(x) = s /\ TagOf(x) = c.sets[s].blk[v].tag
    BY <2>1, HeldBlock
  <2>3. c.sets[s].blk[v].freq = u[x]
    BY <2>1 DEF UsesOK, Counts
  <2>4. x \in Blocks /\ u[x] \in Nat
    BY <1>0, <2>2 DEF Cached
  <2> HIDE DEF x
  <2>5. z[x] = IF x = b THEN u[x] + 1 ELSE u[x]
    BY <1>1, <2>2, <2>4 DEF UsedOf
  <2>6. x = b <=> s = SetOf(b) /\ v = w
    <3>1. ASSUME x = b PROVE s = SetOf(b) /\ v = w
      <4>1. w \in Ways /\ c.sets[s].blk[w].valid /\ c.sets[s].blk[w].tag = TagOf(x)
        BY <2>2, <3>1 DEF Hits, Matches
      <4>2. Unique(c.sets[s])
        BY DEF CacheOK, SetOK
      <4> QED BY <2>1, <2>2, <3>1, <4>1, <4>2 DEF Unique
    <3>2. ASSUME s = SetOf(b), v = w PROVE x = b
      <4>1. c.sets[s].blk[v].tag = TagOf(b)
        BY <3>2 DEF Hits, Matches
      <4> QED BY <3>2, <4>1, BlockAddr DEF x
    <3> QED BY <3>1, <3>2
  <2>7. CASE x = b
    <3>1. n.sets[s].blk[v].freq = (u[x] + 1) % FreqMod
      BY <2>3, <2>6, <2>7 DEF Hits
    <3>2. u[x] + 1 \in Nat /\ u[x] + 1 < FreqMod
      BY <1>0, <2>4, <2>7
    <3>3. (u[x] + 1) % FreqMod = u[x] + 1
      BY <1>0, <3>2
    <3> QED BY <2>1, <2>5, <2>7, <3>1, <3>3 DEF x
  <2>8. CASE x # b
    <3>1. n.sets[s].blk[v].freq = u[x]
      BY <2>3, <2>6, <2>8 DEF Hits
    <3> QED BY <2>1, <2>5, <2>8, <3>1 DEF x
  <2> QED BY <2>7, <2>8
<1> QED BY <1>2, <1>3 DEF UsesOK, Counts

-----------------------------------------------------------------------------
\* freq_count++ touches one counter.
LEMMA CountFreq ==
  ASSUME NEW c, CacheOK(c), NEW s \in Sets, NEW w \in Ways
  PROVE  \A u \in Sets : \A v \in Ways :
           Count(c, s, w).sets[u].blk[v].freq =
             IF u = s /\ v = w THEN (c.sets[u].blk[v].freq + 1) % FreqMod
             ELSE c.sets[u].blk[v].freq
<1> DEFINE k == (c.sets[s].blk[w].freq + 1) % FreqMod
           n == Count(c, s, w)
<1>1. c \in CacheType /\ c.sets \in [Sets -> Set]
  BY DEF CacheOK, CacheType
<1>2. \A u \in Sets : c.sets[u] \in Set /\ c.sets[u].blk \in [Ways -> Block]
  BY <1>1 DEF Set
<1>3. n.sets = [c.sets EXCEPT ![s].blk[w].freq = k]
  BY <1>1 DEF Count, CacheType
<1> HIDE DEF k, n
<1>4. \A u \in Sets : u # s => n.sets[u] = c.sets[u]
  BY <1>1, <1>3
<1>5. n.sets[s].blk = [c.sets[s].blk EXCEPT ![w].freq = k]
  BY <1>1, <1>2, <1>3 DEF Set
<1>6. \A v \in Ways : v # w => n.sets[s].blk[v] = c.sets[s].blk[v]
  BY <1>2, <1>5
<1>7. n.sets[s].blk[w].freq = k
  BY <1>2, <1>5 DEF Block
<1>8. \A u \in Sets : \A v \in Ways :
        n.sets[u].blk[v].freq = IF u = s /\ v = w THEN k ELSE c.sets[u].blk[v].freq
  BY <1>4, <1>6, <1>7
<1> QED BY <1>8 DEF k, n

\* Marking a block dirty touches no counter.
LEMMA MarkDirtyFreq ==
  ASSUME NEW c, CacheOK(c), NEW s \in Sets, NEW w \in Ways, NEW cmd
  PROVE  \A u \in Sets : \A v \in Ways :
           MarkDirty(c, s, w, cmd).sets[u].blk[v].freq = c.sets[u].blk[v].freq
<1> DEFINE d == c.sets[s].blk[w].dirty \/ cmd = "Write"
           n == MarkDirty(c, s, w, cmd)
<1>1. c \in CacheType /\ c.sets \in [Sets -> Set]
  BY DEF CacheOK, CacheType
<1>2. \A u \in Sets : c.sets[u] \in Set /\ c.sets[u].blk \in [Ways -> Block]
  BY <1>1 DEF Set
<1>3. n.sets = [c.sets EXCEPT ![s].blk[w].dirty = d]
  BY <1>1 DEF MarkDirty, CacheType
<1> HIDE DEF d, n
<1>4. \A u \in Sets : u # s => n.sets[u] = c.sets[u]
  BY <1>1, <1>3
<1>5. n.sets[s].blk = [c.sets[s].blk EXCEPT ![w].dirty = d]
  BY <1>1, <1>2, <1>3 DEF Set
<1>6. \A v \in Ways : v # w => n.sets[s].blk[v] = c.sets[s].blk[v]
  BY <1>2, <1>5
<1>7. n.sets[s].blk[w].freq = c.sets[s].blk[w].freq
  BY <1>2, <1>5 DEF Block
<1>8. \A u \in Sets : \A v \in Ways : n.sets[u].blk[v].freq = c.sets[u].blk[v].freq
  BY <1>4, <1>6, <1>7
<1> QED BY <1>8 DEF n

\* Moving a way in its list touches no counter.
LEMMA PromoteFreq ==
  ASSUME NEW c, CacheOK(c), NEW s \in Sets, NEW w \in Ways
  PROVE  \A u \in Sets : Promote(c, s, w).sets[u].blk = c.sets[u].blk
<1> DEFINE p == ToHead(c.sets[s].pos, w)
           n == [c EXCEPT !.sets[s].pos = p]
<1>1. c \in CacheType /\ c.sets \in [Sets -> Set]
  BY DEF CacheOK, CacheType
<1>2. n.sets = [c.sets EXCEPT ![s].pos = p]
  BY <1>1 DEF CacheType
<1>3. Promote(c, s, w) = IF c.policy = "LRU" THEN n ELSE c
  BY DEF Promote
<1> HIDE DEF p, n
<1>4. \A u \in Sets : n.sets[u].blk = c.sets[u].blk
  BY <1>1, <1>2 DEF Set
<1> QED BY <1>3, <1>4

\* What the two kinds of hits have in common.
LEMMA HitCounts ==
  ASSUME NEW c, CacheOK(c), NEW b \in Blocks,
         NEW w, w \in Matches(c.sets[SetOf(b)], TagOf(b)), NEW cmd \in Cmds
  PROVE  LET n == MarkDirty(Count(c, SetOf(b), w), SetOf(b), w, cmd)
         IN  CacheOK(n) /\ Hits(c, n, b, w)
<1> DEFINE s == SetOf(b)
           m == Count(c, s, w)
           n == MarkDirty(m, s, w, cmd)
<1>1. s \in Sets /\ w \in Ways
  BY BlockAddr DEF Matches
<1>2. CacheOK(m) /\ SameBlocks(c, m)
  BY <1>1, CountOK
<1>3. \A u \in Sets : \A v \in Ways :
        m.sets[u].blk[v].freq = IF u = s /\ v = w THEN (c.sets[u].blk[v].freq + 1) % FreqMod
                                ELSE c.sets[u].blk[v].freq
  BY <1>1, CountFreq
<1> HIDE DEF s, m
<1>4. CacheOK(n) /\ SameBlocks(m, n)
  BY <1>1, <1>2, MarkDirtyOK
<1>5. \A u \in Sets : \A v \in Ways : n.sets[u].blk[v].freq = m.sets[u].blk[v].freq
  BY <1>1, <1>2, MarkDirtyFreq
<1> HIDE DEF n
<1>6. Hits(c, n, b, w)
  BY <1>2, <1>3, <1>4, <1>5 DEF Hits, SameBlocks, s
<1> QED BY <1>4, <1>6 DEF n, m, s

\* cache_fast_hit counts the way that last_blk points to.
LEMMA FastHitCounts ==
  ASSUME NEW c, CacheOK(c), LastOK(c), NEW b \in Blocks, b = c.last, NEW cmd \in Cmds,
         NEW o, o = FastHit(c, cmd, b), ~o.segv
  PROVE  Hits(c, o.c, b, c.lastBlk)
<1>1. c.lastBlk # NoBlk
  BY DEF FastHit, Segv
<1>2. c.lastBlk \in Matches(c.sets[SetOf(b)], TagOf(b))
  BY <1>1 DEF LastOK
<1>3. o.c = MarkDirty(Count(c, SetOf(b), c.lastBlk), SetOf(b), c.lastBlk, cmd)
  BY <1>1 DEF FastHit, Outcome
<1> QED BY <1>2, <1>3, HitCounts

\* cache_hit counts the block it found.
LEMMA SlowHitCounts ==
  ASSUME NEW c, CacheOK(c), c.pref = "none", NEW b \in Blocks, Probe(c, b), NEW cmd \in Cmds,
         NEW r, NEW o, o = SlowHit(c, cmd, b, r), ~o.segv
  PROVE  \E w : Hits(c, o.c, b, w)
<1> DEFINE s == SetOf(b)
           w == Found(c.sets[s], TagOf(b))
           m == Count(c, s, w)
           n == MarkDirty(m, s, w, cmd)
           p == Promote(n, s, w)
<1>1. s \in Sets /\ w \in Matches(c.sets[s], TagOf(b)) /\ w \in Ways
  BY BlockAddr, FoundMatches DEF Matches
<1>2. m.pref = "none"
  BY <1>1, CountOK DEF SameBlocks
<1>3. PrefetchLogic(m, b, r) = NoPrefetch(m)
  BY <1>2 DEF PrefetchLogic
<1>4. o = Outcome(Remember(p, b, w), NoPrefetch(m), {}, {})
  BY <1>3 DEF SlowHit, NoPrefetch
<1>5. o.c.sets = Remember(p, b, w).sets
  BY <1>4 DEF Outcome
<1> HIDE DEF w
<1>6. CacheOK(n) /\ Hits(c, n, b, w)
  BY <1>1, HitCounts
<1> HIDE DEF n
<1>7. CacheOK(p) /\ \A u \in Sets : p.sets[u].blk = n.sets[u].blk
  BY <1>1, <1>6, PromoteOK, PromoteFreq
<1> HIDE DEF p
<1>8. Remember(p, b, w).sets = p.sets
  BY <1>1, <1>7, RememberOK
<1> QED BY <1>5, <1>6, <1>7, <1>8 DEF Hits

-----------------------------------------------------------------------------
\* Cache n is c after a miss of b that replaced way w.
Fills(c, n, b, w) ==
  /\ w \in Ways
  /\ Cached(n) = (Cached(c) \ Gone(c, b, w)) \cup {b}
  /\ \A s \in Sets : \A v \in Ways :
       IF s = SetOf(b) /\ v = w
       THEN n.sets[s].blk[v].tag = TagOf(b) /\ n.sets[s].blk[v].freq = 1 % FreqMod
       ELSE n.sets[s].blk[v] = c.sets[s].blk[v]

\* cache_miss refills the victim of the replacement switch.
LEMMA MissFills ==
  ASSUME NEW c, CacheOK(c), c.pref = "none", NEW b \in Blocks, ~Probe(c, b), NEW cmd \in Cmds,
         NEW r, NEW q \in Draws(c.policy), NEW o, o = Miss(c, cmd, b, r, q), ~o.segv
  PROVE  Fills(c, o.c, b, Victim(c.policy, c.sets[SetOf(b)], q))
<1> DEFINE s == SetOf(b)
           S == c.sets[s]
           w == Victim(c.policy, S, q)
           d == (cmd = "Write")
           f == Forget(c)
           n == Replaced(f, b, w, d)
           B == [tag |-> TagOf(b), valid |-> TRUE, dirty |-> d, freq |-> 1 % FreqMod]
<1>1. PrefetchLogic(c, b, r) = NoPrefetch(c)
  BY DEF PrefetchLogic
<1>2. ~NoVictim(c.policy, S)
  BY <1>1 DEF Miss, NoPrefetch, Segv
<1>3. o.c = [f EXCEPT !.sets[s] = Refill(c.policy, S, w, TagOf(b), d)]
  BY <1>1, <1>2 DEF Miss, NoPrefetch, Outcome
<1>4. s \in Sets /\ c.policy \in AllPolicies /\ SetOK(S)
  BY BlockAddr DEF CacheOK, CacheType
<1>5. w \in Ways /\ d \in BOOLEAN
  BY <1>4, VictimInWays DEF SetOK
<1>6. CacheOK(f) /\ f.sets = c.sets /\ f.policy = c.policy /\ Cached(f) = Cached(c)
  BY ForgetOK DEF SameConfig
<1> HIDE DEF w, f, d
<1>7. o.c = n
  BY <1>3, <1>6 DEF Replaced
<1>8. ~Probe(f, b)
  BY <1>6 DEF Probe
<1>9. Cached(n) = (Cached(f) \ Gone(f, b, w)) \cup {b}
  BY <1>5, <1>6, <1>8, ReplaceEffect DEF ReplacementOK
<1>10. Gone(f, b, w) = Gone(c, b, w)
  BY <1>6 DEF Gone
<1>11. n.sets = [c.sets EXCEPT ![s] = Refill(c.policy, S, w, TagOf(b), d)]
  BY <1>6 DEF Replaced, CacheOK, CacheType
<1>12. c.sets \in [Sets -> Set] /\ S.blk \in [Ways -> Block]
  BY <1>4 DEF CacheOK, CacheType, Set
<1>13. n.sets[s].blk = [S.blk EXCEPT ![w] = B]
  BY <1>4, <1>11, <1>12 DEF Refill
<1>14. \A u \in Sets : u # s => n.sets[u] = c.sets[u]
  BY <1>11, <1>12
<1>15. n.sets[s].blk[w] = B /\ \A v \in Ways : v # w => n.sets[s].blk[v] = S.blk[v]
  BY <1>5, <1>12, <1>13
<1>16. \A u \in Sets : \A v \in Ways :
         IF u = s /\ v = w
         THEN n.sets[u].blk[v].tag = TagOf(b) /\ n.sets[u].blk[v].freq = 1 % FreqMod
         ELSE n.sets[u].blk[v] = c.sets[u].blk[v]
  BY <1>14, <1>15
<1> HIDE DEF n
<1>17. Fills(c, n, b, w)
  BY <1>5, <1>6, <1>9, <1>10, <1>16 DEF Fills
<1> QED BY <1>7, <1>17 DEF w

\* A block that comes in starts with one use, those that stay keep theirs.
LEMMA MissUses ==
  ASSUME NEW c, CacheOK(c), NEW n, CacheOK(n), NEW b \in Blocks, ~Probe(c, b),
         NEW w, Fills(c, n, b, w),
         NEW u, UsesOK(c, u), u[b] < MaxUses, MaxUses < FreqMod
  PROVE  UsesOK(n, UsedOf(u, n, b))
<1> DEFINE z == UsedOf(u, n, b)
<1>0. MaxUses \in Nat /\ FreqMod \in Nat \ {0} /\ u \in [Blocks -> 0 .. MaxUses]
  BY MaxUsesAssumption, FreqAssumption DEF UsesOK
<1>1. z \in [Blocks -> 0 .. MaxUses] /\ \A x \in Blocks : x \notin Cached(n) => z[x] = 0
  BY <1>0 DEF UsedOf
<1>2. b \notin Cached(c) /\ u[b] = 0 /\ b \in Cached(n)
  BY DEF Cached, UsesOK, Fills
<1>3. z[b] = 1 /\ 1 % FreqMod = 1
  <2>1. 1 < FreqMod
    BY <1>0, <1>2
  <2> QED BY <1>0, <1>2, <2>1 DEF UsedOf
<1>4. ASSUME NEW s \in Sets, NEW v \in Ways, n.sets[s].blk[v].valid
      PROVE  n.sets[s].blk[v].freq = z[MkBaddr(n.sets[s].blk[v].tag, s)]
  <2>1. CASE s = SetOf(b) /\ v = w
    <3>1. n.sets[s].blk[v].tag = TagOf(b) /\ n.sets[s].blk[v].freq = 1
      BY <1>3, <2>1 DEF Fills
    <3>2. MkBaddr(TagOf(b), s) = b
      BY <2>1, BlockAddr
    <3> QED BY <1>3, <3>1, <3>2
  <2>2. CASE ~(s = SetOf(b) /\ v = w)
    <3> DEFINE x == MkBaddr(c.sets[s].blk[v].tag, s)
    <3>1. n.sets[s].blk[v] = c.sets[s].blk[v]
      BY <2>2 DEF Fills
    <3>2. x \in Cached(c)
      BY <1>4, <3>1, HeldBlock
    <3>3. x \in Cached(n)
      BY <1>4, <3>1, HeldBlock
    <3>4. c.sets[s].blk[v].freq = u[x]
      BY <1>4, <3>1 DEF UsesOK, Counts
    <3> HIDE DEF x
    <3>5. x # b /\ x \in Blocks
      BY <1>2, <3>2 DEF Cached
    <3>6. z[x] = u[x]
      BY <3>3, <3>5 DEF UsedOf
    <3> QED BY <3>1, <3>4, <3>6 DEF x
  <2> QED BY <2>1, <2>2
<1> QED BY <1>1, <1>4 DEF UsesOK, Counts

\* Invalidating blocks takes their uses and no others.
LEMMA FlushUses ==
  ASSUME NEW c, CacheOK(c), NEW n, CacheOK(n),
         \A s \in Sets : \A v \in Ways :
            n.sets[s].blk[v].valid => n.sets[s].blk[v] = c.sets[s].blk[v],
         NEW u, UsesOK(c, u)
  PROVE  UsesOK(n, [x \in Blocks |-> IF x \in Cached(n) THEN u[x] ELSE 0])
<1> DEFINE z == [x \in Blocks |-> IF x \in Cached(n) THEN u[x] ELSE 0]
<1>1. MaxUses \in Nat /\ u \in [Blocks -> 0 .. MaxUses]
  BY MaxUsesAssumption DEF UsesOK
<1>2. z \in [Blocks -> 0 .. MaxUses] /\ \A x \in Blocks : x \notin Cached(n) => z[x] = 0
  BY <1>1
<1>3. ASSUME NEW s \in Sets, NEW v \in Ways, n.sets[s].blk[v].valid
      PROVE  n.sets[s].blk[v].freq = z[MkBaddr(n.sets[s].blk[v].tag, s)]
  <2> DEFINE x == MkBaddr(n.sets[s].blk[v].tag, s)
  <2>1. x \in Cached(n) /\ x \in Blocks
    BY <1>3, HeldBlock DEF Cached
  <2>2. n.sets[s].blk[v] = c.sets[s].blk[v]
    BY <1>3
  <2>3. c.sets[s].blk[v].freq = u[x]
    BY <1>3, <2>2 DEF UsesOK, Counts
  <2> HIDE DEF x
  <2> QED BY <2>1, <2>2, <2>3 DEF x
<1> QED BY <1>2, <1>3 DEF UsesOK, Counts

\* cache_flush and cache_flush_addr change no block that stays valid.
LEMMA FlushKeeps ==
  ASSUME NEW c, CacheOK(c), NEW b \in Blocks
  PROVE  \A s \in Sets : \A v \in Ways :
           /\ Flush(c).sets[s].blk[v].valid =>
                Flush(c).sets[s].blk[v] = c.sets[s].blk[v]
           /\ FlushAddr(c, b).sets[s].blk[v].valid =>
                FlushAddr(c, b).sets[s].blk[v] = c.sets[s].blk[v]
<1> DEFINE s == SetOf(b)
           w == Found(c.sets[s], TagOf(b))
           R == [pos |-> ToTail(c.sets[s].pos, w),
                 blk |-> [c.sets[s].blk EXCEPT ![w].valid = FALSE]]
<1>1. s \in Sets /\ c \in CacheType /\ c.sets \in [Sets -> Set]
  BY BlockAddr DEF CacheOK, CacheType
<1>2. \A u \in Sets : c.sets[u].blk \in [Ways -> Block]
  BY <1>1 DEF Set
<1>3. \A u \in Sets : \A v \in Ways : ~Flush(c).sets[u].blk[v].valid
  BY <1>1, <1>2 DEF Flush, Forget, CacheType, Block, Set
<1>4. CASE ~Probe(c, b)
  BY <1>3, <1>4 DEF FlushAddr
<1>5. CASE Probe(c, b)
  <2>1. w \in Ways
    BY <1>5, FoundMatches DEF Matches
  <2> HIDE DEF w
  <2>2. FlushAddr(c, b).sets = [c.sets EXCEPT ![s] = R]
    BY <1>1, <1>5 DEF FlushAddr, Forget, CacheType, w
  <2>3. FlushAddr(c, b).sets[s].blk = [c.sets[s].blk EXCEPT ![w].valid = FALSE]
    BY <1>1, <2>2
  <2>4. \A u \in Sets : u # s => FlushAddr(c, b).sets[u] = c.sets[u]
    BY <1>1, <2>2
  <2>5. ~FlushAddr(c, b).sets[s].blk[w].valid
    BY <1>1, <1>2, <2>1, <2>3 DEF Block
  <2>6. \A v \in Ways : v # w => FlushAddr(c, b).sets[s].blk[v] = c.sets[s].blk[v]
    BY <1>1, <1>2, <2>3
  <2> QED BY <1>3, <2>4, <2>5, <2>6
<1> QED BY <1>4, <1>5

-----------------------------------------------------------------------------
\* The configurations in which only the program's accesses bring in blocks, and
\* no counter reaches its end.
CountingConfig == Prefetchers \subseteq {"none"} /\ MaxUses < FreqMod

\* The inductive invariant.
LFUInv == IInv /\ DataInv /\ UsesOK(cache, uses)

\* A block that leaves although its set has others was used least among them.
EvictionOK(n) ==
  cache.policy = "LFU" =>
    \A x, y \in Cached(cache) :
       /\ SetOf(x) = SetOf(y)
       /\ x \notin Cached(n) /\ y \in Cached(n)
       /\ Cached(n) \ Cached(cache) # {}
       => uses[x] <= uses[y]

\* A miss evicts a least used block.
LEMMA MissEvicts ==
  ASSUME LFUInv, NEW n, NEW b \in Blocks, NEW q,
         Fills(cache, n, b, Victim(cache.policy, cache.sets[SetOf(b)], q))
  PROVE  EvictionOK(n)
<1> DEFINE s == SetOf(b)
           S == cache.sets[s]
           w == Victim(cache.policy, S, q)
<1> SUFFICES ASSUME cache.policy = "LFU", NEW x \in Cached(cache), NEW y \in Cached(cache),
                    SetOf(x) = SetOf(y), x \notin Cached(n), y \in Cached(n)
             PROVE  uses[x] <= uses[y]
  BY DEF EvictionOK
<1>1. CacheOK(cache) /\ Counts(cache, uses) /\ s \in Sets
  BY BlockAddr DEF LFUInv, IInv, UsesOK
<1>2. w = LeastFrequent(S)
  BY DEF Victim
<1>3. S \in Set /\ Perm(S.pos)
  BY <1>1 DEF CacheOK, SetOK
<1>4. w \in Ways /\ \A v \in Ways : S.blk[w].freq <= S.blk[v].freq
  BY <1>2, <1>3, LeastFrequentInWays
<1> HIDE DEF w
<1>5. x \in Gone(cache, b, w)
  BY DEF Fills, w
<1>6. S.blk[w].valid /\ x = MkBaddr(S.blk[w].tag, s)
  BY <1>5 DEF Gone, Out
<1>7. SetOf(x) = s /\ uses[x] = S.blk[w].freq
  BY <1>1, <1>4, <1>6, HeldBlock DEF Counts
<1>8. PICK v \in Ways : S.blk[v].valid /\ S.blk[v].tag = TagOf(y)
  <2>1. Probe(cache, y) /\ SetOf(y) = s
    BY <1>7 DEF Cached
  <2>2. Matches(S, TagOf(y)) # {}
    BY <2>1 DEF Probe
  <2> QED BY <2>2 DEF Matches
<1>9. MkBaddr(S.blk[v].tag, s) = y
  BY <1>7, <1>8, BlockAddr DEF Cached
<1>10. uses[y] = S.blk[v].freq
  BY <1>1, <1>8, <1>9 DEF Counts
<1> QED BY <1>4, <1>7, <1>8, <1>10

\* Every step is one of Cache's, keeps the counters exact and evicts a least used
\* block.
LEMMA LFUNextInv ==
  ASSUME CountingConfig, LFUInv, LFUNext
  PROVE  Next /\ UsesOK(cache, uses)' /\ EvictionOK(cache')
<1>0. Next
  BY DEF LFUNext, LFUAccess, LFUSegv, LFUFlush, Next, AnyAccess
<1>1. CacheOK(cache) /\ LastOK(cache) /\ UsesOK(cache, uses) /\ cache.pref = "none"
  BY DEF LFUInv, IInv, DataInv, CountingConfig
<1>2. CacheOK(cache')
  BY <1>0, NextInv DEF LFUInv, IInv
<1>3. \A b : Used(b) => uses' = UsedOf(uses, cache', b)
  BY DEF Used, UsedOf
<1>4. ASSUME NEW b \in Blocks, uses[b] < MaxUses, Used(b), NEW w, Hits(cache, cache', b, w)
      PROVE  UsesOK(cache, uses)' /\ EvictionOK(cache')
  <2>1. UsesOK(cache', UsedOf(uses, cache', b))
    BY <1>1, <1>2, <1>4, HitUses DEF CountingConfig
  <2>2. Cached(cache') = Cached(cache)
    BY <1>4, HitCached
  <2> QED BY <1>3, <1>4, <2>1, <2>2 DEF EvictionOK
<1>5. ASSUME NEW cmd \in Cmds, NEW b \in Blocks, uses[b] < MaxUses, Used(b),
             AccessFastHit(cmd, b)
      PROVE  UsesOK(cache, uses)' /\ EvictionOK(cache')
  <2> DEFINE o == FastHit(cache, cmd, b)
  <2>1. b = cache.last /\ ~o.segv /\ cache' = o.c
    BY <1>5 DEF AccessFastHit, Complete
  <2> HIDE DEF o
  <2>2. Hits(cache, cache', b, cache.lastBlk)
    BY <1>1, <2>1, FastHitCounts DEF o
  <2> QED BY <1>4, <1>5, <2>2
<1>6. ASSUME NEW cmd \in Cmds, NEW b \in Blocks, uses[b] < MaxUses, Used(b), NEW r,
             AccessSlowHit(cmd, b, r)
      PROVE  UsesOK(cache, uses)' /\ EvictionOK(cache')
  <2> DEFINE o == SlowHit(cache, cmd, b, r)
  <2>1. Probe(cache, b) /\ ~o.segv /\ cache' = o.c
    BY <1>6 DEF AccessSlowHit, Complete
  <2> HIDE DEF o
  <2>2. PICK w : Hits(cache, cache', b, w)
    BY <1>1, <2>1, SlowHitCounts DEF o
  <2> QED BY <1>4, <1>6, <2>2
<1>7. ASSUME NEW cmd \in Cmds, NEW b \in Blocks, uses[b] < MaxUses, Used(b), NEW r,
             NEW q \in Draws(cache.policy), AccessMiss(cmd, b, r, q)
      PROVE  UsesOK(cache, uses)' /\ EvictionOK(cache')
  <2> DEFINE o == Miss(cache, cmd, b, r, q)
             w == Victim(cache.policy, cache.sets[SetOf(b)], q)
  <2>1. ~Probe(cache, b) /\ ~o.segv /\ cache' = o.c
    BY <1>7 DEF AccessMiss, Complete
  <2> HIDE DEF o
  <2>2. Fills(cache, cache', b, w)
    BY <1>1, <2>1, MissFills DEF o
  <2>3. EvictionOK(cache')
    BY <2>2, MissEvicts
  <2> HIDE DEF w
  <2>4. UsesOK(cache', UsedOf(uses, cache', b))
    BY <1>1, <1>2, <1>7, <2>1, <2>2, MissUses DEF CountingConfig
  <2> QED BY <1>3, <1>7, <2>3, <2>4
<1>8. ASSUME NEW cmd, NEW b, NEW r, NEW q, LFUSegv(cmd, b, r, q)
      PROVE  UsesOK(cache, uses)' /\ EvictionOK(cache')
  <2>1. cache' = cache /\ uses' = uses
    BY <1>8 DEF LFUSegv, AccessSegv
  <2> QED BY <1>1, <2>1 DEF EvictionOK
<1>9. CASE LFUFlush
  <2> DEFINE z == [x \in Blocks |-> IF x \in Cached(cache') THEN uses[x] ELSE 0]
  <2>1. uses' = z
    BY <1>9 DEF LFUFlush
  <2>2. PICK b \in Blocks : cache' = Flush(cache) \/ cache' = FlushAddr(cache, b)
    <3>1. cache.last \in Blocks
      BY <1>1 DEF CacheOK, CacheType
    <3> QED BY <1>9, <3>1 DEF LFUFlush, FlushAll, FlushOne
  <2>3. \A s \in Sets : \A v \in Ways :
          cache'.sets[s].blk[v].valid => cache'.sets[s].blk[v] = cache.sets[s].blk[v]
    BY <1>1, <2>2, FlushKeeps
  <2>4. UsesOK(cache', z)
    BY <1>1, <1>2, <2>3, FlushUses
  <2>5. Cached(cache') \subseteq Cached(cache)
    BY <1>1, <2>2, FlushOK, FlushAddrOK
  <2> HIDE DEF z
  <2>6. UsesOK(cache, uses)'
    BY <2>1, <2>4
  <2> QED BY <1>0, <2>5, <2>6 DEF EvictionOK
<1> QED BY <1>0, <1>5, <1>6, <1>7, <1>8, <1>9 DEF LFUNext, LFUAccess

\* LFUInv is an invariant, and what every step promises holds.
LEMMA LFUInductive ==
  ASSUME CountingConfig
  PROVE  LFUSpec => []LFUInv /\ [][EvictionOK(cache')]_lfuVars
<1>1. LFUInit => LFUInv
  <2> SUFFICES ASSUME LFUInit PROVE LFUInv
    OBVIOUS
  <2>1. IInv /\ DataInv /\ Cached(cache) = {}
    BY InitInv DEF LFUInit
  <2>2. uses \in [Blocks -> 0 .. MaxUses] /\ \A x \in Blocks : uses[x] = 0
    BY MaxUsesAssumption DEF LFUInit
  <2>3. CacheOK(cache)
    BY <2>1 DEF IInv
  <2>4. \A s \in Sets : \A v \in Ways : ~cache.sets[s].blk[v].valid
    BY <2>1, <2>3, HeldBlock
  <2> QED BY <2>1, <2>2, <2>4 DEF LFUInv, UsesOK, Counts
<1>2. SafeConfig
  BY DEF CountingConfig, SafeConfig, SafePref
<1>3. LFUInv /\ LFUNext => LFUInv' /\ EvictionOK(cache')
  BY <1>2, LFUNextInv, NextInv DEF LFUInv
<1>4. LFUInv /\ UNCHANGED lfuVars => LFUInv'
  BY DEF LFUInv, IInv, DataInv, lfuVars
<1> QED BY <1>1, <1>3, <1>4, PTL DEF LFUSpec

\* freq_count is the number of accesses to a cached block, for every geometry,
\* with every policy, as long as no prefetch brought the block in and the counter
\* did not wrap; finding 2 shows that the first of these premises is needed.
THEOREM FreqCountsAccesses ==
  ASSUME CountingConfig
  PROVE  LFUSpec => []FreqIsUses
<1>1. LFUInv => FreqIsUses
  BY DEF LFUInv, UsesOK, Counts, FreqIsUses
<1> QED BY <1>1, LFUInductive, PTL

\* Under the same premises the LFU scan of cache_miss replaces a block that was
\* accessed no more often than any block that stays in the set.
THEOREM LeastUsedGoes ==
  ASSUME CountingConfig
  PROVE  LFUSpec => EvictsLeastUsed
<1>1. EvictionOK(cache') => (cache.policy = "LFU" =>
         \A x, y \in Cached(cache) :
            /\ SetOf(x) = SetOf(y)
            /\ x \notin Cached(cache') /\ y \in Cached(cache')
            /\ Cached(cache') \ Cached(cache) # {}
            => uses[x] <= uses[y])
  BY DEF EvictionOK
<1> QED BY <1>1, LFUInductive, PTL DEF EvictsLeastUsed

\* The history of uses only watches: every call of an LFU run is one of Cache, and
\* in every safe configuration, with a prefetcher or without, implements the
\* abstract write-back cache.
THEOREM LFUImplementsWriteBack == SafeConfig => (LFUSpec => WriteBackSpec)
<1> SUFFICES ASSUME SafeConfig PROVE LFUSpec => WriteBackSpec
  OBVIOUS
<1>1. LFUInit => Init
  BY DEF LFUInit
<1>2. [LFUNext]_lfuVars => [Next]_vars
  BY DEF LFUNext, LFUAccess, LFUSegv, LFUFlush, Next, AnyAccess, lfuVars, vars
<1>3. Spec => WriteBackSpec
  BY ImplementsWriteBack
<1> QED BY <1>1, <1>2, <1>3, PTL DEF LFUSpec, Spec
=============================================================================
