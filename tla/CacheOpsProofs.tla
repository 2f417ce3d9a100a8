--------------------------- MODULE CacheOpsProofs ---------------------------
(***************************************************************************)
(* What the operations of CacheOps preserve and compute, for every size of *)
(* cache.  The central facts are ReplaceEffect (a refill drops at most one *)
(* block and saves it), PrefetchLogicOK (what a prefetch may touch), and   *)
(* FastHitOK, SlowHitOK and MissOK (every path of cache_access).           *)
(***************************************************************************)
EXTENDS CacheOps, WellFoundedInduction, TLAPS

\* CACHE_SET and CACHE_TAG of a block are a set and a tag, and CACHE_MK_BADDR
\* puts the block together again from them, and the other way round.
LEMMA BlockAddr ==
  /\ \A b \in Blocks : /\ SetOf(b) \in Sets
                       /\ TagOf(b) \in Tags
                       /\ MkBaddr(TagOf(b), SetOf(b)) = b
  /\ \A t \in Tags, s \in Sets : /\ MkBaddr(t, s) \in Blocks
                                 /\ SetOf(MkBaddr(t, s)) = s
                                 /\ TagOf(MkBaddr(t, s)) = t
<1>1. ASSUME NEW b \in Blocks
      PROVE  SetOf(b) \in Sets /\ TagOf(b) \in Tags /\ MkBaddr(TagOf(b), SetOf(b)) = b
  BY GeometryAssumption DEF SetOf, TagOf, Blocks, Sets, Tags, NBlocks, MkBaddr
<1>2. ASSUME NEW t \in Tags, NEW s \in Sets
      PROVE  /\ MkBaddr(t, s) \in Blocks
             /\ SetOf(MkBaddr(t, s)) = s
             /\ TagOf(MkBaddr(t, s)) = t
  BY GeometryAssumption DEF SetOf, TagOf, Blocks, Sets, Tags, NBlocks, MkBaddr
<1> QED BY <1>1, <1>2

\* A way list as a permutation of the ways.
Perm(p) == /\ p \in [Ways -> Ways]
           /\ \A v, w \in Ways : p[v] = p[w] => v = w
           /\ \A i \in Ways : \E w \in Ways : p[w] = i

\* No tag is valid in two ways.
Unique(S) ==
  \A v, w \in Ways : S.blk[v].valid /\ S.blk[w].valid /\ S.blk[v].tag = S.blk[w].tag => v = w

\* A well-formed set.
SetOK(S) == S \in Set /\ Perm(S.pos) /\ Unique(S)

\* The ways are the naturals below the associativity.
LEMMA WaysNat ==
  \A n : n \in Ways <=> n \in Nat /\ n < Assoc
BY GeometryAssumption DEF Ways

\* update_way_list(..., Head) keeps the list a permutation of the ways.
LEMMA ToHeadPerm ==
  ASSUME NEW p, Perm(p), NEW w \in Ways
  PROVE  Perm(ToHead(p, w))
<1> DEFINE h == ToHead(p, w)
<1>1. /\ \A v \in Ways : p[v] \in Nat /\ p[v] < Assoc
      /\ \A u, v \in Ways : p[u] = p[v] => u = v
  BY WaysNat DEF Perm
<1>2. h = [v \in Ways |-> IF v = w THEN 0
                          ELSE IF p[v] < p[w] THEN p[v] + 1 ELSE p[v]]
  BY DEF ToHead
<1> HIDE DEF h
<1>3. ASSUME NEW v \in Ways PROVE h[v] \in Ways
  <2>1. h[v] \in Nat /\ h[v] < Assoc
    BY <1>1, <1>2, GeometryAssumption
  <2> QED BY <2>1, WaysNat
<1>4. \A u, v \in Ways : h[u] = h[v] => u = v
  BY <1>1, <1>2
<1>5. ASSUME NEW i \in Ways PROVE \E v \in Ways : h[v] = i
  <2>0. i \in Nat /\ i < Assoc
    BY WaysNat
  <2>1. CASE i = 0
    BY <2>1, <1>2
  <2>2. CASE i # 0 /\ i <= p[w]
    <3>1. i - 1 \in Ways
      BY <2>0, <2>2, WaysNat, GeometryAssumption
    <3>2. PICK v \in Ways : p[v] = i - 1
      BY <3>1 DEF Perm
    <3>3. h[v] = i
      BY <2>0, <2>2, <3>2, <1>1, <1>2
    <3> QED BY <3>3
  <2>3. CASE i > p[w]
    <3>1. PICK v \in Ways : p[v] = i
      BY DEF Perm
    <3>2. h[v] = i
      BY <2>0, <2>3, <3>1, <1>1, <1>2
    <3> QED BY <3>2
  <2> QED BY <2>0, <2>1, <2>2, <2>3, <1>1
<1>6. h \in [Ways -> Ways]
  BY <1>2, <1>3
<1> QED BY <1>4, <1>5, <1>6 DEF Perm, h

\* update_way_list(..., Tail) keeps the list a permutation of the ways.
LEMMA ToTailPerm ==
  ASSUME NEW p, Perm(p), NEW w \in Ways
  PROVE  Perm(ToTail(p, w))
<1> DEFINE h == ToTail(p, w)
<1>1. /\ \A v \in Ways : p[v] \in Nat /\ p[v] < Assoc
      /\ \A u, v \in Ways : p[u] = p[v] => u = v
  BY WaysNat DEF Perm
<1>2. h = [v \in Ways |-> IF v = w THEN Assoc - 1
                          ELSE IF p[v] > p[w] THEN p[v] - 1 ELSE p[v]]
  BY DEF ToTail
<1> HIDE DEF h
<1>3. ASSUME NEW v \in Ways PROVE h[v] \in Ways
  <2>1. h[v] \in Nat /\ h[v] < Assoc
    BY <1>1, <1>2, GeometryAssumption
  <2> QED BY <2>1, WaysNat
<1>4. \A u, v \in Ways : h[u] = h[v] => u = v
  BY <1>1, <1>2, GeometryAssumption
<1>5. ASSUME NEW i \in Ways PROVE \E v \in Ways : h[v] = i
  <2>0. i \in Nat /\ i < Assoc
    BY WaysNat
  <2>1. CASE i = Assoc - 1
    BY <2>1, <1>2
  <2>2. CASE i # Assoc - 1 /\ i >= p[w]
    <3>1. i + 1 \in Ways
      BY <2>0, <2>2, WaysNat, GeometryAssumption
    <3>2. PICK v \in Ways : p[v] = i + 1
      BY <3>1 DEF Perm
    <3>3. h[v] = i
      BY <2>0, <2>2, <3>2, <1>1, <1>2
    <3> QED BY <3>3
  <2>3. CASE i < p[w]
    <3>1. PICK v \in Ways : p[v] = i
      BY DEF Perm
    <3>2. h[v] = i
      BY <2>0, <2>3, <3>1, <1>1, <1>2
    <3> QED BY <3>2
  <2> QED BY <2>0, <2>1, <2>2, <2>3, <1>1
<1>6. h \in [Ways -> Ways]
  BY <1>2, <1>3
<1> QED BY <1>4, <1>5, <1>6 DEF Perm, h

\* A nonempty set of naturals has a least element.
LEMMA LeastNat ==
  ASSUME NEW T \in SUBSET Nat, T # {}
  PROVE  \E x \in T : \A y \in T : x <= y
<1>1. PICK x \in T : \A y \in T : <<y, x>> \notin OpToRel(<, Nat)
  BY NatLessThanWellFounded, WFMin, Zenon
<1>2. \A y \in T : ~(y < x)
  BY <1>1 DEF OpToRel
<1> QED BY <1>2

\* The LFU scan of a set always selects one of its ways: the lowest frequency
\* exists, and so does the first way in list order that has it.
LEMMA LeastFrequentInWays ==
  ASSUME NEW S \in Set, Perm(S.pos)
  PROVE  /\ LeastFrequent(S) \in Ways
         /\ \A v \in Ways : S.blk[LeastFrequent(S)].freq <= S.blk[v].freq
<1> DEFINE F == {S.blk[w].freq : w \in Ways}
<1>0. 0 \in Ways
  BY WaysNat, GeometryAssumption
<1>1. F \in SUBSET Nat /\ F # {}
  <2>1. \A w \in Ways : S.blk[w].freq \in Nat
    BY FreqAssumption DEF Set, Block, Freqs
  <2> QED BY <1>0, <2>1
<1>2. PICK f \in F : \A g \in F : f <= g
  BY <1>1, LeastNat
<1> DEFINE Q == {S.pos[w] : w \in {v \in Ways : S.blk[v].freq = f}}
<1>3. Q \in SUBSET Nat /\ Q # {}
  BY <1>2, GeometryAssumption DEF Set, Ways
<1>4. PICK m \in Q : \A n \in Q : m <= n
  BY <1>3, LeastNat
<1>5. PICK w \in Ways : S.blk[w].freq = f /\ S.pos[w] = m
  BY <1>4
<1>6. ASSUME NEW v \in Ways
      PROVE  \/ S.blk[w].freq < S.blk[v].freq
             \/ S.blk[w].freq = S.blk[v].freq /\ S.pos[w] <= S.pos[v]
  <2>1. S.blk[v].freq \in F /\ S.blk[v].freq \in Nat /\ f \in Nat
    BY <1>1, <1>2
  <2>2. CASE S.blk[v].freq = f
    <3>1. S.pos[v] \in Q
      BY <2>2
    <3> QED BY <2>2, <3>1, <1>4, <1>5
  <2>3. CASE S.blk[v].freq # f
    <3>1. f <= S.blk[v].freq
      BY <2>1, <1>2
    <3> QED BY <2>1, <2>3, <3>1, <1>5
  <2> QED BY <2>2, <2>3
<1> DEFINE Least(x) == \A v \in Ways : \/ S.blk[x].freq < S.blk[v].freq
                                       \/ S.blk[x].freq = S.blk[v].freq /\ S.pos[x] <= S.pos[v]
<1>7. LeastFrequent(S) = CHOOSE x \in Ways : Least(x)
  BY DEF LeastFrequent
<1>8. LeastFrequent(S) \in Ways /\ Least(LeastFrequent(S))
  BY <1>6, <1>7
<1>9. \A v \in Ways : S.blk[v].freq \in Nat
  BY <1>1
<1>10. ASSUME NEW v \in Ways PROVE S.blk[LeastFrequent(S)].freq <= S.blk[v].freq
  BY <1>8, <1>9
<1> QED BY <1>8, <1>10

\* Whatever the policy, the replacement switch selects a way of the set.
LEMMA VictimInWays ==
  ASSUME NEW S \in Set, Perm(S.pos), NEW pol \in AllPolicies, NEW r \in Draws(pol)
  PROVE  Victim(pol, S, r) \in Ways
<1>1. CASE pol \in {"LRU", "FIFO"}
  <2>1. Assoc - 1 \in Ways
    BY GeometryAssumption DEF Ways
  <2>2. \E w \in Ways : S.pos[w] = Assoc - 1
    BY <2>1 DEF Perm
  <2> QED BY <1>1, <2>2 DEF Victim
<1>2. CASE pol = "Random"
  BY <1>2 DEF Victim, Draws
<1>3. CASE pol = "LFU"
  BY <1>3, LeastFrequentInWays DEF Victim
<1> QED BY <1>1, <1>2, <1>3 DEF AllPolicies

-----------------------------------------------------------------------------
\* A well-formed cache.
CacheOK(c) == c \in CacheType /\ \A s \in Sets : SetOK(c.sets[s])

\* The block that leaves when way w of set s is replaced, if any.
Out(S, s, w) == IF S.blk[w].valid THEN {MkBaddr(S.blk[w].tag, s)} ELSE {}

\* Refilling a way with a tag the set does not hold keeps the set well formed.
LEMMA RefillOK ==
  ASSUME NEW S, SetOK(S), NEW pol, NEW w \in Ways, NEW t \in Tags, NEW d \in BOOLEAN,
         Matches(S, t) = {}
  PROVE  SetOK(Refill(pol, S, w, t, d))
<1> DEFINE R == Refill(pol, S, w, t, d)
           B == [tag |-> t, valid |-> TRUE, dirty |-> d, freq |-> 1 % FreqMod]
<1>1. S \in Set /\ Perm(S.pos) /\ Unique(S)
  BY DEF SetOK
<1>2. Perm(R.pos)
  BY <1>1, ToHeadPerm DEF Refill
<1>3. B \in Block
  <2>1. 1 % FreqMod \in Freqs
    BY FreqAssumption DEF Freqs
  <2> QED BY <2>1 DEF Block
<1>4. R.blk = [S.blk EXCEPT ![w] = B]
  BY DEF Refill
<1>5. R \in Set
  <2>1. R.blk \in [Ways -> Block]
    BY <1>1, <1>3, <1>4 DEF Set
  <2>2. R = [pos |-> R.pos, blk |-> R.blk]
    BY DEF Refill
  <2> QED BY <1>2, <2>1, <2>2 DEF Set, Perm
<1>6. Unique(R)
  <2>1. \A v \in Ways : ~(S.blk[v].valid /\ S.blk[v].tag = t)
    BY DEF Matches
  <2>2. S.blk \in [Ways -> Block]
    BY <1>1 DEF Set
  <2>3. \A v \in Ways : R.blk[v] = IF v = w THEN B ELSE S.blk[v]
    BY <1>4, <2>2
  <2> QED BY <1>1, <2>1, <2>3 DEF Unique
<1> QED BY <1>2, <1>5, <1>6 DEF SetOK

\* Cache c with way w of block b's set refilled with b.
Replaced(c, b, w, d) ==
  [c EXCEPT !.sets[SetOf(b)] = Refill(c.policy, c.sets[SetOf(b)], w, TagOf(b), d)]

\* What that replacement writes back, and which block it drops.
Written(c, b, w) == WriteBack(c.sets[SetOf(b)], SetOf(b), w)
Gone(c, b, w)    == Out(c.sets[SetOf(b)], SetOf(b), w)

\* What replacing way w of the set of an uncached block b by b does.
ReplacementOK(c, b, w, d) ==
  /\ CacheOK(Replaced(c, b, w, d))
  /\ Cached(Replaced(c, b, w, d)) = (Cached(c) \ Gone(c, b, w)) \cup {b}
  /\ Dirty(Replaced(c, b, w, d)) = (Dirty(c) \ Written(c, b, w)) \cup (IF d THEN {b} ELSE {})
  /\ Written(c, b, w) = Gone(c, b, w) \cap Dirty(c)
  /\ Gone(c, b, w) \subseteq Cached(c)
  /\ \A x \in Gone(c, b, w) : SetOf(x) = SetOf(b)

\* Replacing a way by an uncached block, as a miss and a prefetch both do, has
\* the effect ReplacementOK: one block in, at most one out, of the same set, and
\* the one that leaves is written back exactly if it is dirty.
LEMMA ReplaceEffect ==
  ASSUME NEW c, CacheOK(c), NEW b \in Blocks, ~Probe(c, b),
         NEW w \in Ways, NEW d \in BOOLEAN
  PROVE  ReplacementOK(c, b, w, d)
<1> DEFINE s == SetOf(b)
           S == c.sets[s]
           n == Replaced(c, b, w, d)
<1>0. n = [c EXCEPT !.sets[s] = Refill(c.policy, S, w, TagOf(b), d)]
  BY DEF Replaced
<1> HIDE DEF n
<1> DEFINE R == Refill(c.policy, S, w, TagOf(b), d)
<1>1. s \in Sets /\ TagOf(b) \in Tags
  BY BlockAddr
<1>2. SetOK(S) /\ c \in CacheType
  BY <1>1 DEF CacheOK
<1>3. SetOK(R)
  BY <1>1, <1>2, RefillOK DEF Probe
<1>4. /\ n.sets = [c.sets EXCEPT ![s] = R]
      /\ n \in CacheType
  BY <1>0, <1>1, <1>2, <1>3 DEF CacheType, SetOK
<1>5. c.sets \in [Sets -> Set]
  BY <1>2 DEF CacheType
<1>6. CacheOK(n)
  BY <1>3, <1>4, <1>5 DEF CacheOK
<1>7. /\ S.blk \in [Ways -> Block] /\ Unique(S)
      /\ R.blk = [S.blk EXCEPT ![w] = [tag |-> TagOf(b), valid |-> TRUE,
                                       dirty |-> d, freq |-> 1 % FreqMod]]
  BY <1>2 DEF SetOK, Set, Refill
<1> HIDE DEF R
<1>8. S.blk[w].tag \in Tags
  BY <1>7 DEF Block
<1>9. \A x \in Out(S, s, w) : x \in Blocks /\ SetOf(x) = s
  BY <1>1, <1>8, BlockAddr DEF Out
<1>10. ASSUME NEW x \in Blocks, SetOf(x) = s
       PROVE  /\ x \in Out(S, s, w) <=> S.blk[w].valid /\ S.blk[w].tag = TagOf(x)
              /\ x = b <=> TagOf(x) = TagOf(b)
  <2>1. x = MkBaddr(TagOf(x), s) /\ b = MkBaddr(TagOf(b), s)
    BY <1>10, BlockAddr
  <2>2. TagOf(MkBaddr(S.blk[w].tag, s)) = S.blk[w].tag
    BY <1>1, <1>8, BlockAddr
  <2> QED BY <2>1, <2>2 DEF Out
<1>11. ASSUME NEW x \in Blocks, SetOf(x) # s
       PROVE  n.sets[SetOf(x)] = c.sets[SetOf(x)] /\ x # b /\ x \notin Out(S, s, w)
  <2>1. SetOf(x) \in Sets
    BY BlockAddr
  <2> QED BY <1>4, <1>5, <1>9, <1>11, <2>1
<1>12. n.sets[s] = R
  BY <1>1, <1>4, <1>5
<1>13. ASSUME NEW x \in Blocks
       PROVE  x \in Cached(n) <=> x \in (Cached(c) \ Out(S, s, w)) \cup {b}
  <2>1. CASE SetOf(x) # s
    BY <1>11, <2>1 DEF Cached, Probe
  <2>2. CASE SetOf(x) = s
    <3>1. x \in Cached(n) <=> \E v \in Ways : R.blk[v].tag = TagOf(x) /\ R.blk[v].valid
      BY <1>12, <2>2 DEF Cached, Probe, Matches
    <3>2. x \in Cached(c) <=> \E v \in Ways : S.blk[v].tag = TagOf(x) /\ S.blk[v].valid
      BY <2>2 DEF Cached, Probe, Matches
    <3> QED BY <3>1, <3>2, <2>2, <1>7, <1>10 DEF Unique
  <2> QED BY <2>1, <2>2
<1>14. ASSUME NEW x \in Blocks
       PROVE  x \in Dirty(n)
                <=> x \in (Dirty(c) \ Out(S, s, w)) \cup (IF d THEN {b} ELSE {})
  <2>1. CASE SetOf(x) # s
    BY <1>11, <2>1 DEF Dirty
  <2>2. CASE SetOf(x) = s
    <3>1. x \in Dirty(n) <=> \E v \in Ways : /\ R.blk[v].tag = TagOf(x) /\ R.blk[v].valid
                                             /\ R.blk[v].dirty
      BY <1>12, <2>2 DEF Dirty, Matches
    <3>2. x \in Dirty(c) <=> \E v \in Ways : /\ S.blk[v].tag = TagOf(x) /\ S.blk[v].valid
                                             /\ S.blk[v].dirty
      BY <2>2 DEF Dirty, Matches
    <3> QED BY <3>1, <3>2, <2>2, <1>7, <1>10 DEF Unique
  <2> QED BY <2>1, <2>2
<1>15. ASSUME NEW x \in Out(S, s, w)
       PROVE  /\ x \in Cached(c)
              /\ x \in Dirty(c) <=> x \in WriteBack(S, s, w)
  <2>1. x \in Blocks /\ SetOf(x) = s
    BY <1>9
  <2>2. S.blk[w].valid /\ S.blk[w].tag = TagOf(x)
    BY <1>10, <2>1
  <2>3. x = MkBaddr(S.blk[w].tag, s)
    BY <2>2 DEF Out
  <2>4. x \in WriteBack(S, s, w) <=> S.blk[w].dirty
    BY <2>2, <2>3 DEF WriteBack
  <2>5. x \in Dirty(c) <=> S.blk[w].dirty
    BY <1>7, <2>1, <2>2 DEF Dirty, Matches, Unique
  <2>6. x \in Cached(c)
    BY <2>1, <2>2 DEF Cached, Probe, Matches
  <2> QED BY <2>4, <2>5, <2>6
<1>16. WriteBack(S, s, w) \subseteq Out(S, s, w)
  BY DEF WriteBack, Out
<1>17. WriteBack(S, s, w) = Out(S, s, w) \cap Dirty(c)
  BY <1>15, <1>16
<1>18. /\ Cached(n) \subseteq Blocks /\ Cached(c) \subseteq Blocks
       /\ Dirty(n) \subseteq Blocks /\ Dirty(c) \subseteq Blocks
  BY DEF Cached, Dirty
<1>19. Cached(n) = (Cached(c) \ Out(S, s, w)) \cup {b}
  BY <1>13, <1>18
<1>20. Dirty(n) = (Dirty(c) \ WriteBack(S, s, w)) \cup (IF d THEN {b} ELSE {})
  BY <1>14, <1>17, <1>18
<1> QED BY <1>6, <1>9, <1>15, <1>17, <1>19, <1>20 DEF ReplacementOK, Written, Gone, n

-----------------------------------------------------------------------------
\* No more than one block is written back for a refill.
AtMostOne(B) == \A x, y \in B : x = y

\* What a prefetch of block p with outcome pf does to cache c: it touches only
\* the set of p, and the blocks it drops are saved.
Ahead(c, pf, p) ==
  /\ CacheOK(pf.c)
  /\ pf.c.policy = c.policy /\ pf.c.pref = c.pref
  /\ pf.c.last = c.last /\ pf.c.lastBlk = c.lastBlk
  /\ \A s \in Sets \ {SetOf(p)} : pf.c.sets[s] = c.sets[s]
  /\ pf.rd \subseteq {p} /\ pf.rd \cap Cached(c) = {}
  /\ Cached(pf.c) \subseteq Cached(c) \cup pf.rd
  /\ \A x \in Cached(c) \ Cached(pf.c) : SetOf(x) = SetOf(p)
  /\ Dirty(pf.c) = Dirty(c) \ pf.wb
  /\ Dirty(pf.c) = Dirty(c) \cap Cached(pf.c)
  /\ pf.wb \subseteq Dirty(c) /\ AtMostOne(pf.wb)

\* A dirty block is a cached block: stale dirty bits of flushed ways do not count.
LEMMA DirtyIsCached == \A c : Dirty(c) \subseteq Cached(c)
BY DEF Dirty, Cached, Probe, Matches

\* Not prefetching is a (vacuous) prefetch of any block.
LEMMA NoPrefetchOK ==
  ASSUME NEW c, CacheOK(c), NEW p \in Blocks
  PROVE  Ahead(c, NoPrefetch(c), p)
BY DirtyIsCached DEF Ahead, NoPrefetch, AtMostOne

\* cache_issue_prefetch of p, with its initial probe, touches only p's set, never
\* brings in a second copy and loses no dirty data.
LEMMA IssuePrefetchOK ==
  ASSUME NEW c, CacheOK(c), NEW p \in Blocks, NEW r \in Draws(c.policy),
         ~IssuePrefetch(c, p, r).segv
  PROVE  Ahead(c, IssuePrefetch(c, p, r), p)
<1> DEFINE pf == IssuePrefetch(c, p, r)
<1>1. CASE Probe(c, p)
  BY <1>1, NoPrefetchOK DEF IssuePrefetch
<1>2. CASE ~Probe(c, p)
  <2> DEFINE S == c.sets[SetOf(p)]
             w == Victim(c.policy, S, r)
             n == Replaced(c, p, w, FALSE)
  <2>1. pf = FetchAhead(c, p, r)
    BY <1>2 DEF IssuePrefetch
  <2>2. ~NoVictim(c.policy, S)
    BY <2>1 DEF FetchAhead, NoPrefetch
  <2>3. pf = [c |-> n, wb |-> Written(c, p, w), rd |-> {p}, segv |-> FALSE]
    BY <2>1, <2>2 DEF FetchAhead, Replaced, Written
  <2>4. SetOf(p) \in Sets /\ SetOK(S) /\ c.policy \in AllPolicies
    BY BlockAddr DEF CacheOK, CacheType
  <2>5. w \in Ways
    BY <2>4, VictimInWays DEF SetOK
  <2>6. /\ n.policy = c.policy /\ n.pref = c.pref
        /\ n.last = c.last /\ n.lastBlk = c.lastBlk
        /\ \A u \in Sets \ {SetOf(p)} : n.sets[u] = c.sets[u]
    BY DEF CacheOK, CacheType, Replaced
  <2>7. pf.c = n /\ pf.wb = Written(c, p, w) /\ pf.rd = {p}
    BY <2>3
  <2> HIDE DEF S, w, pf
  <2>8. ReplacementOK(c, p, w, FALSE)
    BY <1>2, <2>5, ReplaceEffect
  <2>9. p \notin Cached(c)
    BY <1>2 DEF Cached
  <2> HIDE DEF n
  <2>10. /\ CacheOK(n)
         /\ Cached(n) = (Cached(c) \ Gone(c, p, w)) \cup {p}
         /\ Dirty(n) = Dirty(c) \ Written(c, p, w)
         /\ Written(c, p, w) = Gone(c, p, w) \cap Dirty(c)
         /\ \A x \in Gone(c, p, w) : SetOf(x) = SetOf(p)
    BY <2>8 DEF ReplacementOK, n
  <2>11. Dirty(n) = Dirty(c) \cap Cached(n)
    BY <2>9, <2>10, DirtyIsCached
  <2>12. AtMostOne(Written(c, p, w))
    BY DEF AtMostOne, Written, WriteBack
  <2>13. \A x \in Cached(c) \ Cached(n) : SetOf(x) = SetOf(p)
    BY <2>10
  <2>14. Ahead(c, pf, p)
    BY <2>6, <2>7, <2>9, <2>10, <2>11, <2>12, <2>13 DEF Ahead
  <2> QED BY <2>14 DEF pf
<1> QED BY <1>1, <1>2

\* The prefetchers that cannot reach the set of the access that triggers them:
\* none, and next_line in a cache of more than one set.
SafePref(f) == f = "none" \/ (f = "next_line" /\ NSets > 1)

\* Multiplication distributes over addition, the way the address lemmas need it.
LEMMA Distribute ==
  ASSUME NEW m \in Int, NEW n \in Int
  PROVE  /\ (m + 1) * n = (m * n) + n
         /\ n * m = ((m - 1) * n) + n
OBVIOUS

\* The next line is a block other than b, in another set unless there is one set
\* only; it wraps at the end of the address space.
LEMMA NextLine ==
  ASSUME NEW b \in Blocks, NBlocks > 1
  PROVE  /\ (b + 1) % NBlocks \in Blocks
         /\ (b + 1) % NBlocks # b
         /\ NSets > 1 => SetOf((b + 1) % NBlocks) # SetOf(b)
<1>1. NBlocks \in Nat /\ b \in Nat /\ b < NBlocks
  BY GeometryAssumption DEF NBlocks, Blocks
<1>2. CASE b + 1 < NBlocks
  <2>1. (b + 1) % NBlocks = b + 1
    BY <1>1, <1>2
  <2>2. ASSUME NSets > 1 PROVE (b + 1) % NSets # b % NSets
    <3> DEFINE t == b \div NSets
               u == b % NSets
    <3>1. t \in Nat /\ u \in 0 .. NSets - 1 /\ b = (t * NSets) + u
      BY <1>1, GeometryAssumption
    <3> HIDE DEF t, u
    <3>2. CASE u + 1 < NSets
      <4>1. b + 1 = (t * NSets) + (u + 1)
        BY <3>1, GeometryAssumption
      <4>2. (b + 1) % NSets = u + 1
        BY <3>1, <3>2, <4>1, GeometryAssumption
      <4> QED BY <3>1, <4>2 DEF u
    <3>3. CASE u + 1 = NSets
      <4>1. b + 1 = ((t + 1) * NSets) + 0
        <5>1. (t + 1) * NSets = (t * NSets) + NSets
          BY <3>1, Distribute, GeometryAssumption
        <5> DEFINE x == t * NSets
                   y == (t + 1) * NSets
        <5>2. x \in Int /\ y \in Int /\ y = x + NSets /\ b = x + u
          BY <3>1, <5>1, GeometryAssumption
        <5> HIDE DEF x, y
        <5>3. b + 1 = y + 0
          BY <3>1, <3>3, <5>2, GeometryAssumption
        <5> QED BY <5>3 DEF y
      <4>2. (b + 1) % NSets = 0
        BY <3>1, <4>1, GeometryAssumption
      <4> QED BY <2>2, <3>1, <3>3, <4>2, GeometryAssumption DEF u
    <3> QED BY <3>1, <3>2, <3>3, GeometryAssumption
  <2> QED BY <1>1, <1>2, <2>1, <2>2 DEF SetOf, Blocks
<1>3. CASE b + 1 = NBlocks
  <2>1. (b + 1) % NBlocks = 0
    BY <1>1, <1>3
  <2>2. b = ((NTags - 1) * NSets) + (NSets - 1)
    <3>1. NSets * NTags = ((NTags - 1) * NSets) + NSets
      BY Distribute, GeometryAssumption
    <3> DEFINE x == (NTags - 1) * NSets
    <3>2. x \in Int /\ NBlocks = x + NSets
      BY <3>1, GeometryAssumption DEF NBlocks
    <3> HIDE DEF x
    <3>3. b = x + (NSets - 1)
      BY <1>1, <1>3, <3>2, GeometryAssumption
    <3> QED BY <3>3 DEF x
  <2>3. b % NSets = NSets - 1
    BY <2>2, GeometryAssumption
  <2>4. 0 % NSets = 0
    BY GeometryAssumption
  <2> QED BY <1>1, <1>3, <2>1, <2>3, <2>4, GeometryAssumption DEF SetOf, Blocks
<1> QED BY <1>1, <1>2, <1>3

\* Training keeps a stride-table entry well formed: the difference wraps, the
\* confidence saturates.
LEMMA TrainOK ==
  ASSUME NEW e \in StrideEntry, NEW b \in Blocks
  PROVE  Train(e, b) \in StrideEntry
<1>1. (b - e.last) % NBlocks \in Blocks
  BY GeometryAssumption DEF StrideEntry, Blocks, NBlocks
<1> DEFINE str == (b - e.last) % NBlocks
<1>2. (IF str # e.stride THEN 1 ELSE IF e.conf < 3 THEN e.conf + 1 ELSE e.conf) \in 0 .. 3
  BY DEF StrideEntry
<1> QED BY <1>1, <1>2 DEF Train, StrideEntry

\* A nonzero stride leads to a block other than the one accessed.
LEMMA StrideTarget ==
  ASSUME NEW b \in Blocks, NEW d \in Blocks, d # 0
  PROVE  (b + d) % NBlocks \in Blocks /\ (b + d) % NBlocks # b
<1>1. NBlocks \in Nat \ {0} /\ b \in 0 .. NBlocks - 1 /\ d \in 1 .. NBlocks - 1
  BY GeometryAssumption DEF NBlocks, Blocks
<1>2. CASE b + d < NBlocks
  BY <1>1, <1>2 DEF Blocks
<1>3. CASE b + d >= NBlocks
  <2>1. (b + d) % NBlocks = b + d - NBlocks
    BY <1>1, <1>3
  <2> QED BY <1>1, <1>3, <2>1 DEF Blocks
<1> QED BY <1>1, <1>2, <1>3

\* What the prefetch of an access to b with outcome pf does.
PrefetchOK(c, b, pf) ==
  /\ \E p \in Blocks : Ahead(c, pf, p)
  /\ b \notin pf.rd
  /\ SafePref(c.pref) => pf.c.sets[SetOf(b)] = c.sets[SetOf(b)]

\* The stride prefetcher trains its table and prefetches at most one block,
\* which is not the one accessed.
LEMMA StridePrefetchOK ==
  ASSUME NEW c, CacheOK(c), NEW b \in Blocks, NEW r \in Draws(c.policy),
         ~StridePrefetch(c, b, r).segv
  PROVE  /\ \E p \in Blocks : Ahead(c, StridePrefetch(c, b, r), p)
         /\ b \notin StridePrefetch(c, b, r).rd
<1> DEFINE i == StrideIndex(b)
           e == c.table[i]
           n == Train(e, b)
           trained == [c EXCEPT !.table[i] = n]
           p == (b + n.stride) % NBlocks
           pf == StridePrefetch(c, b, r)
<1>1. i \in Entries /\ e \in StrideEntry
  BY StrideAssumption DEF CacheOK, CacheType
<1>2. n \in StrideEntry
  BY <1>1, TrainOK
<1> HIDE DEF i, n
<1>3. /\ trained.sets = c.sets /\ trained.policy = c.policy /\ trained.pref = c.pref
      /\ trained.last = c.last /\ trained.lastBlk = c.lastBlk
      /\ trained \in CacheType
  BY <1>1, <1>2 DEF CacheOK, CacheType
<1>4. pf = IF StrideDetected(e, n) THEN IssuePrefetch(trained, p, r) ELSE NoPrefetch(trained)
  BY DEF StridePrefetch, i, n
<1> HIDE DEF trained, pf
<1>5. CacheOK(trained) /\ Cached(trained) = Cached(c) /\ Dirty(trained) = Dirty(c)
  BY <1>3 DEF CacheOK, Cached, Dirty, Probe
<1>6. ASSUME NEW q \in Blocks, Ahead(trained, pf, q)
      PROVE  Ahead(c, pf, q)
  BY <1>3, <1>5, <1>6 DEF Ahead
<1>7. CASE StrideDetected(e, n)
  <2>1. n.stride \in Blocks /\ n.stride # 0
    BY <1>2, <1>7 DEF StrideEntry, StrideDetected
  <2>2. p \in Blocks /\ p # b
    BY <2>1, StrideTarget
  <2> HIDE DEF p
  <2>3. pf = IssuePrefetch(trained, p, r)
    BY <1>4, <1>7
  <2>4. ~pf.segv
    BY DEF pf
  <2>5. Ahead(trained, pf, p)
    BY <1>3, <1>5, <2>2, <2>3, <2>4, IssuePrefetchOK
  <2>6. b \notin pf.rd
    BY <2>2, <2>5 DEF Ahead
  <2> QED BY <1>6, <2>2, <2>5, <2>6 DEF pf
<1>8. CASE ~StrideDetected(e, n)
  <2>1. pf = NoPrefetch(trained)
    BY <1>4, <1>8
  <2>2. Ahead(trained, pf, b)
    BY <1>5, <2>1, NoPrefetchOK
  <2>3. b \notin pf.rd
    BY <2>1 DEF NoPrefetch
  <2> QED BY <1>6, <2>2, <2>3 DEF pf
<1> QED BY <1>7, <1>8

\* cache_prefetch_logic, with any prefetcher, never fetches the accessed block
\* and, with a safe one, leaves the accessed set alone.
LEMMA PrefetchLogicOK ==
  ASSUME NEW c, CacheOK(c), NEW b \in Blocks, NBlocks > 1, NEW r \in Draws(c.policy),
         ~PrefetchLogic(c, b, r).segv
  PROVE  PrefetchOK(c, b, PrefetchLogic(c, b, r))
<1> DEFINE pf == PrefetchLogic(c, b, r)
<1>1. CASE c.pref = "none"
  <2>1. pf = NoPrefetch(c)
    BY <1>1 DEF PrefetchLogic
  <2>2. Ahead(c, pf, b)
    BY <2>1, NoPrefetchOK
  <2> QED BY <2>1, <2>2 DEF PrefetchOK, NoPrefetch
<1>2. CASE c.pref = "next_line"
  <2> DEFINE p == (b + 1) % NBlocks
  <2>1. p \in Blocks /\ p # b /\ (NSets > 1 => SetOf(p) # SetOf(b))
    BY NextLine
  <2>2. pf = IssuePrefetch(c, p, r)
    BY <1>2 DEF PrefetchLogic
  <2>3. ~pf.segv
    OBVIOUS
  <2> HIDE DEF p, pf
  <2>4. Ahead(c, pf, p)
    BY <2>1, <2>2, <2>3, IssuePrefetchOK
  <2>5. b \notin pf.rd
    BY <2>1, <2>4 DEF Ahead
  <2>6. NSets > 1 => pf.c.sets[SetOf(b)] = c.sets[SetOf(b)]
    BY <2>1, <2>4, BlockAddr DEF Ahead
  <2>7. PrefetchOK(c, b, pf)
    BY <1>2, <2>1, <2>4, <2>5, <2>6 DEF PrefetchOK, SafePref
  <2> QED BY <2>7 DEF pf
<1>3. CASE c.pref = "stride"
  <2>1. pf = StridePrefetch(c, b, r)
    BY <1>3 DEF PrefetchLogic
  <2>2. (\E p \in Blocks : Ahead(c, pf, p)) /\ b \notin pf.rd
    BY <2>1, StridePrefetchOK
  <2> QED BY <1>3, <2>2 DEF PrefetchOK, SafePref
<1>4. c.pref \in AllPrefetchers
  BY DEF CacheOK, CacheType
<1> QED BY <1>1, <1>2, <1>3, <1>4 DEF AllPrefetchers

-----------------------------------------------------------------------------
\* A hit changes no tag and no valid bit: what is cached stays cached.
SameBlocks(c, n) ==
  /\ n.policy = c.policy /\ n.pref = c.pref /\ n.table = c.table
  /\ n.last = c.last /\ n.lastBlk = c.lastBlk
  /\ \A s \in Sets, w \in Ways : /\ n.sets[s].blk[w].tag = c.sets[s].blk[w].tag
                                 /\ n.sets[s].blk[w].valid = c.sets[s].blk[w].valid

\* A search of such caches finds the same ways.
LEMMA SameBlocksMatches ==
  ASSUME NEW c, NEW n, SameBlocks(c, n), NEW s \in Sets, NEW t
  PROVE  Matches(n.sets[s], t) = Matches(c.sets[s], t)
BY DEF SameBlocks, Matches

\* Such caches hold the same blocks.
LEMMA SameBlocksCached ==
  ASSUME NEW c, NEW n, SameBlocks(c, n)
  PROVE  Cached(n) = Cached(c)
<1>1. ASSUME NEW b \in Blocks
      PROVE  Matches(n.sets[SetOf(b)], TagOf(b)) = Matches(c.sets[SetOf(b)], TagOf(b))
  BY BlockAddr, SameBlocksMatches
<1>2. \A b \in Blocks : Probe(n, b) <=> Probe(c, b)
  BY <1>1 DEF Probe
<1> QED BY <1>2 DEF Cached

\* The dirty bits of c and n agree.
SameDirty(c, n) ==
  \A s \in Sets, w \in Ways : n.sets[s].blk[w].dirty = c.sets[s].blk[w].dirty

\* Caches with the same blocks and the same dirty bits hold the same dirty blocks.
LEMMA SameDirtyDirty ==
  ASSUME NEW c, NEW n, SameBlocks(c, n), SameDirty(c, n)
  PROVE  Dirty(n) = Dirty(c)
<1>1. ASSUME NEW b \in Blocks
      PROVE  Matches(n.sets[SetOf(b)], TagOf(b)) = Matches(c.sets[SetOf(b)], TagOf(b))
  BY BlockAddr, SameBlocksMatches
<1>2. \A S, t : Matches(S, t) \subseteq Ways
  BY DEF Matches
<1>3. ASSUME NEW b \in Blocks, NEW w \in Ways
      PROVE  n.sets[SetOf(b)].blk[w].dirty = c.sets[SetOf(b)].blk[w].dirty
  BY BlockAddr DEF SameDirty
<1> QED BY <1>1, <1>2, <1>3 DEF Dirty

\* Cache c with set s replaced by R.
WithSet(c, s, R) == [c EXCEPT !.sets[s] = R]

\* Changing anything but tags and valid bits keeps a cache well formed.
LEMMA UpdateSet ==
  ASSUME NEW c, CacheOK(c), NEW s \in Sets, NEW R \in Set, Perm(R.pos),
         \A v \in Ways : /\ R.blk[v].tag = c.sets[s].blk[v].tag
                        /\ R.blk[v].valid = c.sets[s].blk[v].valid
  PROVE  /\ CacheOK(WithSet(c, s, R)) /\ SameBlocks(c, WithSet(c, s, R))
         /\ WithSet(c, s, R).sets = [c.sets EXCEPT ![s] = R]
<1> DEFINE n == WithSet(c, s, R)
<1>1. c \in CacheType /\ c.sets \in [Sets -> Set] /\ SetOK(c.sets[s])
  BY DEF CacheOK, CacheType
<1>2. /\ n \in CacheType /\ n.sets = [c.sets EXCEPT ![s] = R]
      /\ n.policy = c.policy /\ n.pref = c.pref /\ n.table = c.table
      /\ n.last = c.last /\ n.lastBlk = c.lastBlk
  BY <1>1 DEF CacheType, WithSet
<1> HIDE DEF n
<1>3. SetOK(R)
  BY <1>1 DEF SetOK, Unique
<1>4. CacheOK(n)
  BY <1>1, <1>2, <1>3 DEF CacheOK
<1>5. SameBlocks(c, n)
  BY <1>1, <1>2 DEF SameBlocks
<1> QED BY <1>2, <1>4, <1>5 DEF n

\* freq_count++ changes nothing the other operations rely on.
LEMMA CountOK ==
  ASSUME NEW c, CacheOK(c), NEW s \in Sets, NEW w \in Ways
  PROVE  /\ CacheOK(Count(c, s, w)) /\ SameBlocks(c, Count(c, s, w))
         /\ Dirty(Count(c, s, w)) = Dirty(c)
<1> DEFINE n == Count(c, s, w)
           S == c.sets[s]
           R == [S EXCEPT !.blk[w].freq = (@ + 1) % FreqMod]
<1>1. /\ c \in CacheType /\ c.sets \in [Sets -> Set] /\ SetOK(S)
      /\ S \in Set /\ S.blk \in [Ways -> Block] /\ S.blk[w] \in Block
  BY DEF CacheOK, CacheType, SetOK, Set
<1>2. (S.blk[w].freq + 1) % FreqMod \in Freqs
  BY <1>1, FreqAssumption DEF Block, Freqs
<1>3. n = WithSet(c, s, R)
  BY DEF Count, WithSet
<1>4. /\ R \in Set /\ R.pos = S.pos
      /\ \A v \in Ways : /\ R.blk[v].tag = S.blk[v].tag
                         /\ R.blk[v].valid = S.blk[v].valid
                         /\ R.blk[v].dirty = S.blk[v].dirty
  BY <1>1, <1>2 DEF Set, Block
<1> HIDE DEF R, n
<1>5. CacheOK(n) /\ SameBlocks(c, n) /\ n.sets = [c.sets EXCEPT ![s] = R]
  BY <1>1, <1>3, <1>4, UpdateSet DEF SetOK
<1>6. SameDirty(c, n)
  BY <1>1, <1>4, <1>5 DEF SameDirty
<1> QED BY <1>5, <1>6, SameDirtyDirty DEF n

\* Marking the way that holds b dirty makes b, and only b, dirty.
LEMMA MarkDirtyOK ==
  ASSUME NEW c, CacheOK(c), NEW s \in Sets, NEW w \in Ways, NEW cmd \in Cmds
  PROVE  /\ CacheOK(MarkDirty(c, s, w, cmd)) /\ SameBlocks(c, MarkDirty(c, s, w, cmd))
         /\ \A b \in Blocks :
               s = SetOf(b) /\ w \in Matches(c.sets[s], TagOf(b)) =>
                 Dirty(MarkDirty(c, s, w, cmd))
                   = Dirty(c) \cup (IF cmd = "Write" THEN {b} ELSE {})
<1> DEFINE n == MarkDirty(c, s, w, cmd)
           S == c.sets[s]
           d == S.blk[w].dirty \/ cmd = "Write"
           R == [S EXCEPT !.blk[w].dirty = d]
<1>1. /\ c \in CacheType /\ c.sets \in [Sets -> Set] /\ SetOK(S)
      /\ S \in Set /\ S.blk \in [Ways -> Block] /\ S.blk[w] \in Block
  BY DEF CacheOK, CacheType, SetOK, Set
<1>2. d \in BOOLEAN
  OBVIOUS
<1>3. n = WithSet(c, s, R)
  BY DEF MarkDirty, WithSet
<1>4. /\ R \in Set /\ R.pos = S.pos
      /\ \A v \in Ways : /\ R.blk[v].tag = S.blk[v].tag
                         /\ R.blk[v].valid = S.blk[v].valid
                         /\ R.blk[v].dirty = IF v = w THEN d ELSE S.blk[v].dirty
  BY <1>1, <1>2 DEF Set, Block
<1> HIDE DEF R, n
<1>5. CacheOK(n) /\ SameBlocks(c, n) /\ n.sets = [c.sets EXCEPT ![s] = R]
  BY <1>1, <1>3, <1>4, UpdateSet DEF SetOK
<1>6. ASSUME NEW b \in Blocks, s = SetOf(b), w \in Matches(S, TagOf(b))
      PROVE  Dirty(n) = Dirty(c) \cup (IF cmd = "Write" THEN {b} ELSE {})
  <2>1. ASSUME NEW x \in Blocks
        PROVE  x \in Dirty(n) <=> x \in Dirty(c) \/ (cmd = "Write" /\ x = b)
    <3>1. CASE SetOf(x) # s
      <4>1. n.sets[SetOf(x)] = c.sets[SetOf(x)]
        BY <1>1, <1>5, <3>1, BlockAddr
      <4> QED BY <1>6, <3>1, <4>1 DEF Dirty
    <3>2. CASE SetOf(x) = s
      <4>1. n.sets[s] = R
        BY <1>1, <1>5
      <4>2. x \in Dirty(n) <=> \E v \in Ways : /\ S.blk[v].tag = TagOf(x) /\ S.blk[v].valid
                                               /\ (IF v = w THEN d ELSE S.blk[v].dirty)
        BY <1>4, <3>2, <4>1 DEF Dirty, Matches
      <4>3. x \in Dirty(c) <=> \E v \in Ways : /\ S.blk[v].tag = TagOf(x) /\ S.blk[v].valid
                                               /\ S.blk[v].dirty
        BY <3>2 DEF Dirty, Matches
      <4>4. S.blk[w].tag = TagOf(b) /\ S.blk[w].valid
        BY <1>6 DEF Matches
      <4>5. x = b <=> TagOf(x) = TagOf(b)
        <5>1. x = MkBaddr(TagOf(x), s) /\ b = MkBaddr(TagOf(b), s)
          BY <1>6, <3>2, BlockAddr
        <5> QED BY <5>1
      <4> QED BY <4>2, <4>3, <4>4, <4>5
    <3> QED BY <3>1, <3>2
  <2>2. Dirty(n) \subseteq Blocks /\ Dirty(c) \subseteq Blocks
    BY DEF Dirty
  <2> QED BY <2>1, <2>2
<1> QED BY <1>5, <1>6 DEF n

\* Moving a hit block to the head of its way list moves no block between ways.
LEMMA PromoteOK ==
  ASSUME NEW c, CacheOK(c), NEW s \in Sets, NEW w \in Ways
  PROVE  /\ CacheOK(Promote(c, s, w)) /\ SameBlocks(c, Promote(c, s, w))
         /\ Dirty(Promote(c, s, w)) = Dirty(c)
<1> DEFINE S == c.sets[s]
           R == [S EXCEPT !.pos = ToHead(@, w)]
<1>1. c \in CacheType /\ c.sets \in [Sets -> Set] /\ SetOK(S) /\ S \in Set
  BY DEF CacheOK, CacheType, SetOK
<1>2. Perm(ToHead(S.pos, w))
  BY <1>1, ToHeadPerm DEF SetOK
<1>3. R \in Set /\ R.pos = ToHead(S.pos, w) /\ R.blk = S.blk
  BY <1>1, <1>2 DEF Set, Perm
<1>4. CASE c.policy = "LRU"
  <2> DEFINE n == Promote(c, s, w)
  <2>1. n = WithSet(c, s, R)
    BY <1>4 DEF Promote, WithSet
  <2> HIDE DEF n, R
  <2>2. CacheOK(n) /\ SameBlocks(c, n) /\ n.sets = [c.sets EXCEPT ![s] = R]
    BY <1>2, <1>3, <2>1, UpdateSet
  <2>3. SameDirty(c, n)
    BY <1>1, <1>3, <2>2 DEF SameDirty
  <2> QED BY <2>2, <2>3, SameDirtyDirty DEF n
<1>5. CASE c.policy # "LRU"
  BY <1>5 DEF Promote, SameBlocks
<1> QED BY <1>4, <1>5

-----------------------------------------------------------------------------
\* last_blk, when set, holds the block last_tagset names.
LastOK(c) == c.lastBlk # NoBlk => c.lastBlk \in Matches(c.sets[SetOf(c.last)], TagOf(c.last))

\* The block an access writes, if any.
Store(cmd, b) == IF cmd = "Write" THEN {b} ELSE {}

\* The policy and the prefetcher are fixed.
SameConfig(c, n) == n.policy = c.policy /\ n.pref = c.pref

\* What an access with outcome o of block b does to a coherent cache c.
AccessOK(c, o, cmd, b) ==
  /\ LastOK(o.c)
  /\ Dirty(o.c) = (Dirty(c) \ (o.pwb \cup o.wb)) \cup Store(cmd, b)
  /\ Dirty(o.c) = (Dirty(c) \cap Cached(o.c)) \cup Store(cmd, b)
  /\ o.pwb \cup o.wb \subseteq Dirty(c) /\ o.prd \cup o.rd \subseteq Blocks
  /\ AtMostOne(o.pwb) /\ AtMostOne(o.wb)
  /\ b \in Cached(o.c)
  /\ \E p \in Blocks : /\ Cached(o.c) \subseteq Cached(c) \cup {b, p}
                       /\ \A x \in Cached(c) \ Cached(o.c) : SetOf(x) \in {SetOf(b), SetOf(p)}

\* A search of the way list finds the block that cache_probe found.
LEMMA FoundMatches ==
  ASSUME NEW c, CacheOK(c), NEW b \in Blocks, Probe(c, b)
  PROVE  Found(c.sets[SetOf(b)], TagOf(b)) \in Matches(c.sets[SetOf(b)], TagOf(b))
<1> DEFINE S == c.sets[SetOf(b)]
           M == Matches(S, TagOf(b))
<1>1. SetOK(S) /\ M # {} /\ M \subseteq Ways
  BY BlockAddr DEF CacheOK, Probe, Matches
<1>2. PICK w \in M : TRUE
  BY <1>1
<1>3. \A v \in M : v = w
  BY <1>1, <1>2 DEF SetOK, Unique, Matches
<1>4. S.pos[w] \in Ways
  BY <1>1, <1>2 DEF SetOK, Perm
<1>5. \A v \in M : S.pos[w] <= S.pos[v]
  BY <1>3, <1>4, WaysNat
<1> QED BY <1>2, <1>5 DEF Found

\* A fast hit keeps the cache well formed and, when last_blk is what it claims
\* to be, has the effect of an access.
LEMMA FastHitOK ==
  ASSUME NEW c, CacheOK(c), NEW b \in Blocks, b = c.last, NEW cmd \in Cmds,
         NEW o, o = FastHit(c, cmd, b), ~o.segv
  PROVE  /\ CacheOK(o.c) /\ SameConfig(c, o.c)
         /\ LastOK(c) => AccessOK(c, o, cmd, b)
<1> DEFINE s == SetOf(b)
           w == c.lastBlk
           c1 == Count(c, s, w)
           c2 == MarkDirty(c1, s, w, cmd)
<1>1. w # NoBlk
  BY DEF FastHit, Segv
<1>2. s \in Sets /\ w \in Ways
  BY <1>1, BlockAddr DEF CacheOK, CacheType
<1>3. o.c = c2 /\ o.pwb = {} /\ o.wb = {} /\ o.prd = {} /\ o.rd = {}
  BY <1>1 DEF FastHit, Outcome, NoPrefetch
<1> HIDE DEF s, w, c1, c2
<1>4. CacheOK(c1) /\ SameBlocks(c, c1) /\ Dirty(c1) = Dirty(c)
  BY <1>2, CountOK DEF c1
<1>5. CacheOK(c2) /\ SameBlocks(c1, c2)
  BY <1>2, <1>4, MarkDirtyOK DEF c2
<1>6. SameBlocks(c, c2)
  BY <1>4, <1>5 DEF SameBlocks
<1>7. Cached(c2) = Cached(c)
  BY <1>6, SameBlocksCached
<1>8. ASSUME LastOK(c) PROVE AccessOK(c, o, cmd, b)
  <2>1. w \in Matches(c.sets[s], TagOf(b))
    BY <1>1, <1>8 DEF LastOK, w, s
  <2>2. w \in Matches(c1.sets[s], TagOf(b))
    BY <1>2, <1>4, <2>1 DEF Matches, SameBlocks
  <2>3. Dirty(c2) = Dirty(c) \cup Store(cmd, b)
    BY <1>2, <1>4, <2>2, MarkDirtyOK DEF c2, s, Store
  <2>4. b \in Cached(c)
    BY <2>1 DEF Cached, Probe, s
  <2>5. LastOK(c2)
    <3>1. c2.last = b /\ c2.lastBlk = w
      BY <1>6 DEF SameBlocks, w
    <3>2. w \in Matches(c2.sets[s], TagOf(b))
      BY <1>2, <1>6, <2>1 DEF Matches, SameBlocks
    <3> QED BY <3>1, <3>2 DEF LastOK, s
  <2> QED BY <1>3, <1>7, <2>3, <2>4, <2>5, DirtyIsCached DEF AccessOK, AtMostOne
<1> QED BY <1>3, <1>5, <1>6, <1>8 DEF SameConfig, SameBlocks

\* Recording the last block to hit changes no block.
LEMMA RememberOK ==
  ASSUME NEW c, CacheOK(c), NEW b \in Blocks, NEW w \in Ways
  PROVE  /\ CacheOK(Remember(c, b, w)) /\ SameConfig(c, Remember(c, b, w))
         /\ Remember(c, b, w).sets = c.sets
         /\ Remember(c, b, w).last = b /\ Remember(c, b, w).lastBlk = w
         /\ Cached(Remember(c, b, w)) = Cached(c) /\ Dirty(Remember(c, b, w)) = Dirty(c)
<1> DEFINE n == Remember(c, b, w)
<1>1. n \in CacheType /\ n.sets = c.sets /\ n.last = b /\ n.lastBlk = w /\ SameConfig(c, n)
  BY DEF Remember, CacheOK, CacheType, SameConfig
<1> HIDE DEF n
<1>2. CacheOK(n) /\ Cached(n) = Cached(c) /\ Dirty(n) = Dirty(c)
  BY <1>1 DEF CacheOK, Cached, Dirty, Probe
<1> QED BY <1>1, <1>2 DEF n

\* Forgetting the last block to hit changes no block.
LEMMA ForgetOK ==
  ASSUME NEW c, CacheOK(c)
  PROVE  /\ CacheOK(Forget(c)) /\ SameConfig(c, Forget(c))
         /\ Forget(c).sets = c.sets /\ Forget(c).lastBlk = NoBlk
         /\ Cached(Forget(c)) = Cached(c) /\ Dirty(Forget(c)) = Dirty(c)
<1> DEFINE n == Forget(c)
<1>0. 0 \in Blocks
  BY GeometryAssumption DEF Blocks, NBlocks
<1>1. n \in CacheType /\ n.sets = c.sets /\ n.lastBlk = NoBlk /\ SameConfig(c, n)
  BY <1>0 DEF Forget, CacheOK, CacheType, SameConfig
<1> HIDE DEF n
<1>2. CacheOK(n) /\ Cached(n) = Cached(c) /\ Dirty(n) = Dirty(c)
  BY <1>1 DEF CacheOK, Cached, Dirty, Probe
<1> QED BY <1>1, <1>2 DEF n

\* A slow hit keeps the cache well formed and, with a safe prefetcher, has the
\* effect of an access: the block found is still in its way after the prefetch.
LEMMA SlowHitOK ==
  ASSUME NEW c, CacheOK(c), NEW b \in Blocks, b # c.last, Probe(c, b), NEW cmd \in Cmds,
         NEW r \in Draws(c.policy), NEW o, o = SlowHit(c, cmd, b, r), ~o.segv
  PROVE  /\ CacheOK(o.c) /\ SameConfig(c, o.c)
         /\ SafePref(c.pref) => AccessOK(c, o, cmd, b)
<1> DEFINE s  == SetOf(b)
           t  == TagOf(b)
           w  == Found(c.sets[s], t)
           c1 == Count(c, s, w)
           pf == PrefetchLogic(c1, b, r)
           c2 == MarkDirty(pf.c, s, w, cmd)
           c3 == Promote(c2, s, w)
           c4 == Remember(c3, b, w)
<1>1. s \in Sets /\ w \in Matches(c.sets[s], t)
  BY BlockAddr, FoundMatches
<1>2. w \in Ways
  BY <1>1 DEF Matches
<1>3. NBlocks > 1
  BY GeometryAssumption DEF CacheOK, CacheType, Blocks, NBlocks
<1>4. o = IF pf.segv THEN Segv(c) ELSE Outcome(c4, pf, {}, {})
  BY DEF SlowHit
<1>5. ~pf.segv
  BY <1>4 DEF Segv
<1>6. o.c = c4 /\ o.pwb = pf.wb /\ o.wb = {} /\ o.prd = pf.rd /\ o.rd = {}
  BY <1>4, <1>5 DEF Outcome
<1> HIDE DEF s, t, w, c1, pf, c2, c3, c4
<1>7. CacheOK(c1) /\ SameBlocks(c, c1) /\ Dirty(c1) = Dirty(c)
  BY <1>1, <1>2, CountOK DEF c1
<1>8. Cached(c1) = Cached(c)
  BY <1>7, SameBlocksCached
<1>9. PrefetchOK(c1, b, pf)
  <2>1. r \in Draws(c1.policy)
    BY <1>7 DEF SameBlocks
  <2> QED BY <1>3, <1>5, <1>7, <2>1, PrefetchLogicOK DEF pf
<1>10. PICK p \in Blocks : Ahead(c1, pf, p)
  BY <1>9 DEF PrefetchOK
<1>11. CacheOK(pf.c) /\ pf.c.policy = c.policy /\ pf.c.pref = c.pref
  BY <1>7, <1>10 DEF Ahead, SameBlocks
<1>12. CacheOK(c2) /\ SameBlocks(pf.c, c2)
  BY <1>1, <1>2, <1>11, MarkDirtyOK DEF c2
<1>13. CacheOK(c3) /\ SameBlocks(c2, c3) /\ Dirty(c3) = Dirty(c2)
  BY <1>1, <1>2, <1>12, PromoteOK DEF c3
<1>14. /\ CacheOK(c4) /\ SameConfig(c3, c4) /\ c4.sets = c3.sets
       /\ c4.last = b /\ c4.lastBlk = w
       /\ Cached(c4) = Cached(c3) /\ Dirty(c4) = Dirty(c3)
  BY <1>2, <1>13, RememberOK DEF c4
<1>15. SameConfig(c, c4)
  BY <1>11, <1>12, <1>13, <1>14 DEF SameConfig, SameBlocks
<1>16. ASSUME SafePref(c.pref) PROVE AccessOK(c, o, cmd, b)
  <2>1. pf.c.sets[s] = c1.sets[s]
    BY <1>7, <1>9, <1>16 DEF PrefetchOK, SameBlocks, s
  <2>2. w \in Matches(pf.c.sets[s], t)
    BY <1>1, <1>7, <2>1, SameBlocksMatches
  <2>3. w \in Matches(c4.sets[s], t)
    BY <1>1, <1>12, <1>13, <1>14, <2>2, SameBlocksMatches
  <2>4. LastOK(c4)
    BY <1>14, <2>3 DEF LastOK, s, t
  <2>5. b \in Cached(c4)
    BY <2>3 DEF Cached, Probe, s, t
  <2>6. Cached(c4) = Cached(pf.c)
    BY <1>12, <1>13, <1>14, SameBlocksCached
  <2>7. Dirty(c4) = Dirty(pf.c) \cup Store(cmd, b)
    BY <1>1, <1>2, <1>11, <1>13, <1>14, <2>2, MarkDirtyOK DEF c2, s, t, Store
  <2>8. /\ Cached(c4) \subseteq Cached(c) \cup {b, p}
        /\ \A x \in Cached(c) \ Cached(c4) : SetOf(x) = SetOf(p)
        /\ Dirty(pf.c) = Dirty(c) \ pf.wb
        /\ Dirty(pf.c) = Dirty(c) \cap Cached(c4)
        /\ pf.wb \subseteq Dirty(c) /\ pf.rd \subseteq Blocks /\ AtMostOne(pf.wb)
    BY <1>7, <1>8, <1>10, <2>6 DEF Ahead
  <2>9. AtMostOne(o.pwb) /\ AtMostOne(o.wb)
    BY <1>6, <2>8 DEF AtMostOne
  <2> QED BY <1>6, <2>4, <2>5, <2>7, <2>8, <2>9 DEF AccessOK
<1> QED BY <1>6, <1>14, <1>15, <1>16

\* A miss has the effect of an access, with every prefetcher: it searches for its
\* victim after the prefetch.
LEMMA MissOK ==
  ASSUME NEW c, CacheOK(c), NEW b \in Blocks, b # c.last, ~Probe(c, b), NEW cmd \in Cmds,
         NEW r \in Draws(c.policy), NEW q \in Draws(c.policy),
         NEW o, o = Miss(c, cmd, b, r, q), ~o.segv
  PROVE  CacheOK(o.c) /\ SameConfig(c, o.c) /\ AccessOK(c, o, cmd, b)
<1> DEFINE s  == SetOf(b)
           pf == PrefetchLogic(c, b, r)
           S  == pf.c.sets[s]
           w  == Victim(c.policy, S, q)
           d  == (cmd = "Write")
           f  == Forget(pf.c)
           n  == Replaced(f, b, w, d)
<1>1. NBlocks > 1
  BY GeometryAssumption DEF CacheOK, CacheType, Blocks, NBlocks
<1>2. o = IF pf.segv \/ NoVictim(c.policy, S) THEN Segv(c)
          ELSE Outcome([f EXCEPT !.sets[s] = Refill(c.policy, S, w, TagOf(b), d)],
                       pf, WriteBack(S, s, w), {b})
  BY DEF Miss
<1>3. ~pf.segv /\ ~NoVictim(c.policy, S)
  BY <1>2 DEF Segv
<1>4. /\ o.c = [f EXCEPT !.sets[s] = Refill(c.policy, S, w, TagOf(b), d)]
      /\ o.pwb = pf.wb /\ o.wb = WriteBack(S, s, w) /\ o.prd = pf.rd /\ o.rd = {b}
  BY <1>2, <1>3 DEF Outcome
<1> HIDE DEF pf
<1>5. PrefetchOK(c, b, pf)
  BY <1>1, <1>3, PrefetchLogicOK DEF pf
<1>6. PICK p \in Blocks : Ahead(c, pf, p)
  BY <1>5 DEF PrefetchOK
<1>7. CacheOK(pf.c) /\ pf.c.policy = c.policy /\ pf.c.pref = c.pref
  BY <1>6 DEF Ahead
<1>8. /\ CacheOK(f) /\ SameConfig(pf.c, f) /\ f.sets = pf.c.sets /\ f.lastBlk = NoBlk
      /\ Cached(f) = Cached(pf.c) /\ Dirty(f) = Dirty(pf.c)
  BY <1>7, ForgetOK
<1> HIDE DEF f
<1>9. o.c = n /\ o.wb = Written(f, b, w)
  BY <1>4, <1>7, <1>8 DEF Replaced, Written, SameConfig
<1>10. b \notin Cached(f)
  BY <1>5, <1>6, <1>8 DEF Ahead, PrefetchOK, Cached
<1>11. ~Probe(f, b)
  BY <1>10 DEF Cached
<1>12. w \in Ways
  <2>1. s \in Sets /\ c.policy \in AllPolicies
    BY BlockAddr DEF CacheOK, CacheType
  <2>2. SetOK(S)
    BY <1>7, <2>1 DEF CacheOK
  <2> QED BY <2>1, <2>2, VictimInWays DEF SetOK
<1> HIDE DEF w, S
<1>13. d \in BOOLEAN
  OBVIOUS
<1> HIDE DEF d
<1>14. ReplacementOK(f, b, w, d)
  BY <1>8, <1>11, <1>12, <1>13, ReplaceEffect
<1>15. n.lastBlk = NoBlk /\ SameConfig(f, n)
  BY <1>8 DEF Replaced, CacheOK, CacheType, SameConfig
<1> HIDE DEF n
<1>16. /\ CacheOK(n)
       /\ Cached(n) = (Cached(f) \ Gone(f, b, w)) \cup {b}
       /\ Dirty(n) = (Dirty(f) \ Written(f, b, w)) \cup (IF d THEN {b} ELSE {})
       /\ Written(f, b, w) = Gone(f, b, w) \cap Dirty(f)
       /\ Gone(f, b, w) \subseteq Cached(f)
       /\ \A x \in Gone(f, b, w) : SetOf(x) = s
  BY <1>14 DEF ReplacementOK, n
<1>17. /\ Cached(f) \subseteq Cached(c) \cup {p}
       /\ pf.rd \cap Cached(c) = {} /\ Cached(f) \subseteq Cached(c) \cup pf.rd
       /\ \A x \in Cached(c) \ Cached(f) : SetOf(x) = SetOf(p)
       /\ Dirty(f) = Dirty(c) \ pf.wb
       /\ Dirty(f) = Dirty(c) \cap Cached(f)
       /\ pf.wb \subseteq Dirty(c) /\ pf.rd \subseteq Blocks /\ AtMostOne(pf.wb)
  BY <1>6, <1>8 DEF Ahead
<1>18. (IF d THEN {b} ELSE {}) = Store(cmd, b)
  BY DEF Store, d
<1>19. Dirty(n) = (Dirty(c) \ (o.pwb \cup o.wb)) \cup Store(cmd, b)
  BY <1>4, <1>9, <1>16, <1>17, <1>18
<1>20. b \notin Dirty(c)
  <2>1. b \notin Cached(c)
    BY DEF Cached
  <2> QED BY <2>1, DirtyIsCached
<1>21. Dirty(n) = (Dirty(c) \cap Cached(n)) \cup Store(cmd, b)
  BY <1>16, <1>17, <1>18, <1>20
<1>22. /\ Cached(n) \subseteq Cached(c) \cup {b, p}
       /\ \A x \in Cached(c) \ Cached(n) : SetOf(x) \in {SetOf(b), SetOf(p)}
  BY <1>16, <1>17
<1>23. LastOK(n)
  BY <1>15 DEF LastOK
<1>24. SameConfig(c, n)
  BY <1>7, <1>8, <1>15 DEF SameConfig
<1>25. o.pwb \cup o.wb \subseteq Dirty(c) /\ o.prd \cup o.rd \subseteq Blocks
  BY <1>4, <1>9, <1>16, <1>17
<1>26. AtMostOne(o.pwb) /\ AtMostOne(o.wb)
  BY <1>4, <1>9, <1>17 DEF AtMostOne, Written, WriteBack
<1> QED BY <1>9, <1>16, <1>19, <1>21, <1>22, <1>23, <1>24, <1>25, <1>26 DEF AccessOK

\* cache_access as a whole: on a coherent cache, with a safe prefetcher, every
\* path has the effect of an access, unless it dereferences NULL.
LEMMA AccessEffect ==
  ASSUME NEW c, CacheOK(c), LastOK(c), SafePref(c.pref),
         NEW cmd \in Cmds, NEW b \in Blocks,
         NEW r \in Draws(c.policy), NEW q \in Draws(c.policy),
         ~Access(c, cmd, b, r, q).segv
  PROVE  LET o == Access(c, cmd, b, r, q)
         IN  CacheOK(o.c) /\ SameConfig(c, o.c) /\ AccessOK(c, o, cmd, b)
<1>1. CASE b = c.last
  BY <1>1, FastHitOK DEF Access
<1>2. CASE b # c.last /\ Probe(c, b)
  BY <1>2, SlowHitOK DEF Access
<1>3. CASE b # c.last /\ ~Probe(c, b)
  BY <1>3, MissOK DEF Access
<1> QED BY <1>1, <1>2, <1>3

\* cache_flush leaves no block cached and forgets the last hit.
LEMMA FlushOK ==
  ASSUME NEW c, CacheOK(c)
  PROVE  /\ CacheOK(Flush(c)) /\ SameConfig(c, Flush(c)) /\ LastOK(Flush(c))
         /\ Cached(Flush(c)) = {} /\ Dirty(Flush(c)) = {}
<1> DEFINE n == Flush(c)
           R(s) == [c.sets[s] EXCEPT !.blk = [w \in Ways |->
                      [c.sets[s].blk[w] EXCEPT !.valid = FALSE]]]
<1>1. CacheOK(Forget(c)) /\ SameConfig(c, Forget(c)) /\ Forget(c).lastBlk = NoBlk
  BY ForgetOK
<1>2. ASSUME NEW s \in Sets
      PROVE  SetOK(R(s)) /\ \A w \in Ways : ~R(s).blk[w].valid
  <2>1. c.sets[s] \in Set /\ Perm(c.sets[s].pos) /\ c.sets[s].blk \in [Ways -> Block]
    BY DEF CacheOK, SetOK, Set
  <2>2. \A w \in Ways : [c.sets[s].blk[w] EXCEPT !.valid = FALSE] \in Block
    BY <2>1 DEF Block
  <2>3. /\ R(s) \in Set /\ R(s).pos = c.sets[s].pos
        /\ \A w \in Ways : ~R(s).blk[w].valid
    BY <2>1, <2>2 DEF Set, Block
  <2> HIDE DEF R
  <2> QED BY <2>1, <2>3 DEF SetOK, Unique
<1>3. n = [Forget(c) EXCEPT !.sets = [s \in Sets |-> R(s)]]
  BY DEF Flush
<1> HIDE DEF R, n
<1>4. /\ n.sets = [s \in Sets |-> R(s)] /\ n.lastBlk = NoBlk /\ SameConfig(Forget(c), n)
      /\ n \in CacheType
  <2>1. [s \in Sets |-> R(s)] \in [Sets -> Set]
    BY <1>2 DEF SetOK
  <2> HIDE DEF Forget
  <2> QED BY <1>1, <1>3, <2>1 DEF CacheOK, CacheType, SameConfig
<1>5. CacheOK(n)
  BY <1>2, <1>4 DEF CacheOK
<1>6. Cached(n) = {} /\ Dirty(n) = {}
  BY <1>2, <1>4, BlockAddr DEF Cached, Dirty, Probe, Matches
<1> QED BY <1>1, <1>4, <1>5, <1>6 DEF n, LastOK, SameConfig

\* cache_flush_addr removes its block and no other.
LEMMA FlushAddrOK ==
  ASSUME NEW c, CacheOK(c), NEW b \in Blocks
  PROVE  /\ CacheOK(FlushAddr(c, b)) /\ SameConfig(c, FlushAddr(c, b))
         /\ LastOK(c) => LastOK(FlushAddr(c, b))
         /\ Cached(FlushAddr(c, b)) = Cached(c) \ {b}
         /\ Dirty(FlushAddr(c, b)) = Dirty(c) \ {b}
<1>1. CASE ~Probe(c, b)
  <2>1. FlushAddr(c, b) = c
    BY <1>1 DEF FlushAddr
  <2>2. b \notin Cached(c) /\ b \notin Dirty(c)
    BY <1>1, DirtyIsCached DEF Cached
  <2> QED BY <2>1, <2>2 DEF SameConfig
<1>2. CASE Probe(c, b)
  <2> DEFINE s == SetOf(b)
             S == c.sets[s]
             t == TagOf(b)
             w == Found(S, t)
             f == Forget(c)
             R == [pos |-> ToTail(S.pos, w), blk |-> [S.blk EXCEPT ![w].valid = FALSE]]
             n == FlushAddr(c, b)
  <2>1. s \in Sets /\ t \in Tags /\ w \in Matches(S, t)
    BY <1>2, BlockAddr, FoundMatches
  <2>2. w \in Ways /\ S.blk[w].tag = t /\ S.blk[w].valid
    BY <2>1 DEF Matches
  <2>3. SetOK(S) /\ S \in Set /\ S.blk \in [Ways -> Block] /\ Perm(S.pos) /\ Unique(S)
    BY <2>1 DEF CacheOK, SetOK, Set
  <2>4. n = WithSet(f, s, R)
    BY <1>2 DEF FlushAddr, WithSet
  <2> HIDE DEF w
  <2>5. Perm(R.pos)
    BY <2>2, <2>3, ToTailPerm
  <2>6. /\ R \in Set
        /\ \A v \in Ways : /\ R.blk[v].tag = S.blk[v].tag
                           /\ R.blk[v].dirty = S.blk[v].dirty
                           /\ R.blk[v].valid <=> S.blk[v].valid /\ v # w
    <3>1. [S.blk[w] EXCEPT !.valid = FALSE] \in Block
      BY <2>2, <2>3 DEF Block
    <3>2. R.blk = [S.blk EXCEPT ![w] = [S.blk[w] EXCEPT !.valid = FALSE]]
      OBVIOUS
    <3>3. R.blk \in [Ways -> Block]
      BY <2>3, <3>1, <3>2
    <3>4. R \in Set
      BY <2>5, <3>3 DEF Set, Perm
    <3>5. \A v \in Ways : R.blk[v] = IF v = w THEN [S.blk[w] EXCEPT !.valid = FALSE]
                                     ELSE S.blk[v]
      BY <2>3, <3>2
    <3>6. S.blk[w] \in Block /\ \A v \in Ways : S.blk[v] \in Block
      BY <2>2, <2>3
    <3> HIDE DEF R, S
    <3> QED BY <2>2, <3>4, <3>5, <3>6 DEF Block
  <2> HIDE DEF R, f, n
  <2>7. SetOK(R)
    BY <2>3, <2>5, <2>6 DEF SetOK, Unique
  <2>8. /\ CacheOK(f) /\ SameConfig(c, f) /\ f.sets = c.sets /\ f.lastBlk = NoBlk
    BY ForgetOK DEF f
  <2>9. /\ n.sets = [c.sets EXCEPT ![s] = R] /\ n.lastBlk = NoBlk /\ SameConfig(f, n)
        /\ n \in CacheType
    BY <2>1, <2>4, <2>6, <2>8 DEF WithSet, CacheOK, CacheType, SameConfig
  <2>10. c.sets \in [Sets -> Set]
    BY DEF CacheOK, CacheType
  <2>11. CacheOK(n)
    BY <2>7, <2>9, <2>10 DEF CacheOK
  <2>12. ASSUME NEW x \in Blocks
         PROVE  /\ x \in Cached(n) <=> x \in Cached(c) /\ x # b
                /\ x \in Dirty(n) <=> x \in Dirty(c) /\ x # b
    <3>1. CASE SetOf(x) # s
      <4>1. n.sets[SetOf(x)] = c.sets[SetOf(x)]
        BY <2>9, <2>10, <3>1, BlockAddr
      <4> QED BY <3>1, <4>1 DEF Cached, Dirty, Probe
    <3>2. CASE SetOf(x) = s
      <4>1. n.sets[s] = R
        BY <2>1, <2>9, <2>10
      <4>2. x = b <=> TagOf(x) = t
        <5>1. x = MkBaddr(TagOf(x), s) /\ b = MkBaddr(t, s)
          BY <3>2, BlockAddr
        <5> QED BY <5>1
      <4>3. /\ x \in Cached(n) <=> \E v \in Ways : R.blk[v].tag = TagOf(x) /\ R.blk[v].valid
            /\ x \in Cached(c) <=> \E v \in Ways : S.blk[v].tag = TagOf(x) /\ S.blk[v].valid
        BY <3>2, <4>1 DEF Cached, Probe, Matches
      <4>4. /\ x \in Dirty(n) <=> \E v \in Ways : /\ R.blk[v].tag = TagOf(x)
                                                  /\ R.blk[v].valid /\ R.blk[v].dirty
            /\ x \in Dirty(c) <=> \E v \in Ways : /\ S.blk[v].tag = TagOf(x)
                                                  /\ S.blk[v].valid /\ S.blk[v].dirty
        BY <3>2, <4>1 DEF Dirty, Matches
      <4>5. x \in Cached(n) <=> x \in Cached(c) /\ x # b
        BY <2>2, <2>3, <2>6, <4>2, <4>3 DEF Unique
      <4>6. x \in Dirty(n) <=> x \in Dirty(c) /\ x # b
        BY <2>2, <2>3, <2>6, <4>2, <4>4 DEF Unique
      <4> QED BY <4>5, <4>6
    <3> QED BY <3>1, <3>2
  <2>13. /\ Cached(n) \subseteq Blocks /\ Cached(c) \subseteq Blocks
         /\ Dirty(n) \subseteq Blocks /\ Dirty(c) \subseteq Blocks
    BY DEF Cached, Dirty
  <2>14. Cached(n) = Cached(c) \ {b} /\ Dirty(n) = Dirty(c) \ {b}
    BY <2>12, <2>13
  <2> QED BY <2>8, <2>9, <2>11, <2>14 DEF LastOK, SameConfig, n
<1> QED BY <1>1, <1>2

\* cache_create makes a well-formed, empty cache.
LEMMA CreatedOK ==
  ASSUME NEW pol \in AllPolicies, NEW f \in AllPrefetchers
  PROVE  /\ CacheOK(Created(pol, f)) /\ LastOK(Created(pol, f))
         /\ Created(pol, f).policy = pol /\ Created(pol, f).pref = f
         /\ Cached(Created(pol, f)) = {} /\ Dirty(Created(pol, f)) = {}
<1> DEFINE n == Created(pol, f)
           B == [tag |-> 0, valid |-> FALSE, dirty |-> FALSE, freq |-> 0]
           P == [w \in Ways |-> Assoc - 1 - w]
           S == [pos |-> P, blk |-> [w \in Ways |-> B]]
           E == [last |-> 0, stride |-> 0, conf |-> 0]
<1>1. 0 \in Tags /\ 0 \in Freqs /\ 0 \in Blocks
  BY GeometryAssumption, FreqAssumption DEF Tags, Freqs, Blocks, NBlocks
<1>2. Perm(P)
  <2>1. \A w \in Ways : Assoc - 1 - w \in Ways /\ Assoc - 1 - (Assoc - 1 - w) = w
    BY GeometryAssumption DEF Ways
  <2>2. P \in [Ways -> Ways]
    BY <2>1
  <2>3. \A v, w \in Ways : P[v] = P[w] => v = w
    BY <2>1
  <2>4. \A i \in Ways : P[Assoc - 1 - i] = i
    BY <2>1
  <2> HIDE DEF P
  <2> QED BY <2>1, <2>2, <2>3, <2>4 DEF Perm
<1>3. SetOK(S) /\ \A w \in Ways : ~S.blk[w].valid
  <2>1. B \in Block
    BY <1>1 DEF Block
  <2> HIDE DEF P
  <2> QED BY <1>2, <2>1 DEF SetOK, Set, Perm, Unique
<1>4. E \in StrideEntry
  BY <1>1 DEF StrideEntry
<1>5. n = [policy |-> pol, pref |-> f, sets |-> [s \in Sets |-> S], last |-> 0,
           lastBlk |-> NoBlk, table |-> [i \in Entries |-> E]]
  BY DEF Created
<1> HIDE DEF S, E, n
<1>6. n \in CacheType
  BY <1>1, <1>3, <1>4, <1>5 DEF CacheType, SetOK
<1>7. n.sets = [s \in Sets |-> S] /\ n.lastBlk = NoBlk /\ n.policy = pol /\ n.pref = f
  BY <1>5
<1>8. CacheOK(n)
  BY <1>3, <1>6, <1>7 DEF CacheOK
<1>9. Cached(n) = {} /\ Dirty(n) = {}
  BY <1>3, <1>7, BlockAddr DEF Cached, Dirty, Probe, Matches
<1> QED BY <1>7, <1>8, <1>9 DEF n, LastOK

=============================================================================
