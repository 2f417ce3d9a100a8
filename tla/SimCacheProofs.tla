--------------------------- MODULE SimCacheProofs ---------------------------
(***************************************************************************)
(* The hierarchy of sim-cache never loses a write, and a system call after *)
(* a flush finds it in memory: for every geometry of the levels, policy    *)
(* and place of the fetches, and every prefetcher that cannot reach the    *)
(* set of the access that triggers it.                                     *)
(*                                                                         *)
(* Each level is a cache of CacheOps, and what CacheOpsProofs shows of one *)
(* cache is used for both (P1 and P2).  HInv says where the data is; a     *)
(* sequence of calls below the first level is followed call by call: what  *)
(* dl1 wrote is in dl2 or memory then, and nothing else moved up or was    *)
(* dropped (Reached).                                                      *)
(***************************************************************************)
EXTENDS SimCache, WellFoundedInduction, TLAPS

P1 == INSTANCE CacheOpsProofs WITH NSets <- NSets1, Assoc <- Assoc1, NTags <- NTags1
P2 == INSTANCE CacheOpsProofs WITH NSets <- NSets2, Assoc <- Assoc2, NTags <- NTags2

\* The configurations in which a prefetch cannot evict the block being hit, in
\* any of the caches: they share one prefetcher.
SafeConfig ==
  \A f \in Prefetchers : f = "none" \/ (f = "next_line" /\ NSets1 > 1 /\ NSets2 > 1)

-----------------------------------------------------------------------------
(* The caches of the model are those that CacheOpsProofs is about.         *)

\* The operations of the first-level caches.
LEMMA Same1 ==
  /\ \A c : P1!Cached(c) = L1!Cached(c)
  /\ \A c : P1!Dirty(c) = L1!Dirty(c)
  /\ \A S, s, w : P1!WriteBack(S, s, w) = L1!WriteBack(S, s, w)
  /\ \A c : P1!Flush(c) = L1!Flush(c)
  /\ \A pol, pf : P1!Created(pol, pf) = L1!Created(pol, pf)
  /\ \A pol : P1!Draws(pol) = L1!Draws(pol)
  /\ \A c, cmd, b, r, q : P1!Access(c, cmd, b, r, q) = L1!Access(c, cmd, b, r, q)
  /\ P1!Blocks = L1!Blocks /\ P1!Sets = L1!Sets /\ P1!Ways = L1!Ways
<1>1. \A p, w : P1!ToHead(p, w) = L1!ToHead(p, w)
  BY DEF P1!ToHead, L1!ToHead, P1!Ways, L1!Ways
<1>2. \A S, t : P1!Matches(S, t) = L1!Matches(S, t)
  BY DEF P1!Matches, L1!Matches, P1!Ways, L1!Ways
<1>3. \A S, t : P1!Found(S, t) = L1!Found(S, t)
  BY DEF P1!Found, L1!Found, P1!Matches, L1!Matches, P1!Ways, L1!Ways
<1>4. \A c, b : P1!Probe(c, b) = L1!Probe(c, b)
  BY <1>2 DEF P1!Probe, L1!Probe, P1!SetOf, L1!SetOf, P1!TagOf, L1!TagOf
<1>5. \A pol, S : P1!NoVictim(pol, S) = L1!NoVictim(pol, S)
  BY DEF P1!NoVictim, L1!NoVictim, P1!Ways, L1!Ways
<1>6. \A pol, S, r : P1!Victim(pol, S, r) = L1!Victim(pol, S, r)
  BY DEF P1!Victim, L1!Victim, P1!LeastFrequent, L1!LeastFrequent, P1!Ways, L1!Ways
<1>7. \A S, s, w : P1!WriteBack(S, s, w) = L1!WriteBack(S, s, w)
  BY DEF P1!WriteBack, L1!WriteBack, P1!MkBaddr, L1!MkBaddr
<1>8. \A pol, S, w, t, d : P1!Refill(pol, S, w, t, d) = L1!Refill(pol, S, w, t, d)
  BY <1>1 DEF P1!Refill, L1!Refill
<1>9. \A c : P1!NoPrefetch(c) = L1!NoPrefetch(c)
  BY DEF P1!NoPrefetch, L1!NoPrefetch
<1>10. \A c, p, r : P1!FetchAhead(c, p, r) = L1!FetchAhead(c, p, r)
  BY <1>5, <1>6, <1>7, <1>8, <1>9 DEF P1!FetchAhead, L1!FetchAhead, P1!SetOf,
     L1!SetOf, P1!TagOf, L1!TagOf
<1>11. \A c, p, r : P1!IssuePrefetch(c, p, r) = L1!IssuePrefetch(c, p, r)
  BY <1>4, <1>9, <1>10 DEF P1!IssuePrefetch, L1!IssuePrefetch
<1>12. \A e, b : P1!Train(e, b) = L1!Train(e, b)
  BY DEF P1!Train, L1!Train, P1!NBlocks, L1!NBlocks
<1>13. \A e, n : P1!StrideDetected(e, n) = L1!StrideDetected(e, n)
  BY DEF P1!StrideDetected, L1!StrideDetected
<1>14. \A c, b, r : P1!StridePrefetch(c, b, r) = L1!StridePrefetch(c, b, r)
  BY <1>9, <1>11, <1>12, <1>13 DEF P1!StridePrefetch, L1!StridePrefetch, P1!NBlocks,
     L1!NBlocks
<1>15. \A c, b, r : P1!PrefetchLogic(c, b, r) = L1!PrefetchLogic(c, b, r)
  BY <1>9, <1>11, <1>14 DEF P1!PrefetchLogic, L1!PrefetchLogic, P1!NBlocks, L1!NBlocks
<1>16. \A c, pf, wb, rd : P1!Outcome(c, pf, wb, rd) = L1!Outcome(c, pf, wb, rd)
  BY DEF P1!Outcome, L1!Outcome
<1>17. \A c : P1!Segv(c) = L1!Segv(c)
  BY DEF P1!Segv, L1!Segv
<1>18. \A c, s, w : P1!Count(c, s, w) = L1!Count(c, s, w)
  BY DEF P1!Count, L1!Count
<1>19. \A c, s, w, cmd : P1!MarkDirty(c, s, w, cmd) = L1!MarkDirty(c, s, w, cmd)
  BY DEF P1!MarkDirty, L1!MarkDirty
<1>20. \A c, cmd, b : P1!FastHit(c, cmd, b) = L1!FastHit(c, cmd, b)
  BY <1>9, <1>16, <1>17, <1>18, <1>19 DEF P1!FastHit, L1!FastHit, P1!SetOf, L1!SetOf,
     P1!NoBlk, L1!NoBlk
<1>21. \A c, s, w : P1!Promote(c, s, w) = L1!Promote(c, s, w)
  BY <1>1 DEF P1!Promote, L1!Promote
<1>22. \A c, b, w : P1!Remember(c, b, w) = L1!Remember(c, b, w)
  BY DEF P1!Remember, L1!Remember
<1>23. \A c, cmd, b, r : P1!SlowHit(c, cmd, b, r) = L1!SlowHit(c, cmd, b, r)
  BY <1>3, <1>15, <1>16, <1>17, <1>18, <1>19, <1>21, <1>22 DEF P1!SlowHit, L1!SlowHit,
     P1!SetOf, L1!SetOf, P1!TagOf, L1!TagOf
<1>24. \A c : P1!Forget(c) = L1!Forget(c)
  BY DEF P1!Forget, L1!Forget, P1!NoBlk, L1!NoBlk
<1>25. \A c, cmd, b, r, q : P1!Miss(c, cmd, b, r, q) = L1!Miss(c, cmd, b, r, q)
  BY <1>5, <1>6, <1>7, <1>8, <1>15, <1>16, <1>17, <1>24 DEF P1!Miss, L1!Miss,
     P1!SetOf, L1!SetOf, P1!TagOf, L1!TagOf
<1>26. \A c, cmd, b, r, q : P1!Access(c, cmd, b, r, q) = L1!Access(c, cmd, b, r, q)
  BY <1>4, <1>20, <1>23, <1>25 DEF P1!Access, L1!Access
<1>27. \A c : P1!Flush(c) = L1!Flush(c)
  BY DEF P1!Flush, L1!Flush, P1!Forget, L1!Forget, P1!NoBlk, L1!NoBlk, P1!Sets,
     L1!Sets, P1!Ways, L1!Ways
<1>28. \A c : P1!Cached(c) = L1!Cached(c)
  BY DEF P1!Cached, L1!Cached, P1!Blocks, L1!Blocks, P1!NBlocks, L1!NBlocks, P1!Probe,
     L1!Probe, P1!SetOf, L1!SetOf, P1!TagOf, L1!TagOf, P1!Matches, L1!Matches,
     P1!Ways, L1!Ways
<1>29. \A c : P1!Dirty(c) = L1!Dirty(c)
  BY DEF P1!Dirty, L1!Dirty, P1!Blocks, L1!Blocks, P1!NBlocks, L1!NBlocks, P1!SetOf,
     L1!SetOf, P1!TagOf, L1!TagOf, P1!Matches, L1!Matches, P1!Ways, L1!Ways
<1>30. \A pol, pf : P1!Created(pol, pf) = L1!Created(pol, pf)
  BY DEF P1!Created, L1!Created, P1!Sets, L1!Sets, P1!Ways, L1!Ways, P1!Entries,
     L1!Entries, P1!NoBlk, L1!NoBlk
<1>31. \A pol : P1!Draws(pol) = L1!Draws(pol)
  BY DEF P1!Draws, L1!Draws, P1!Ways, L1!Ways
<1>32. P1!Blocks = L1!Blocks /\ P1!Sets = L1!Sets /\ P1!Ways = L1!Ways
  BY DEF P1!Blocks, L1!Blocks, P1!NBlocks, L1!NBlocks, P1!Sets, L1!Sets, P1!Ways,
     L1!Ways
<1> QED BY <1>28, <1>29, <1>7, <1>27, <1>30, <1>31, <1>26, <1>32

\* The operations of dl2.
LEMMA Same2 ==
  /\ \A c : P2!Cached(c) = L2!Cached(c)
  /\ \A c : P2!Dirty(c) = L2!Dirty(c)
  /\ \A S, s, w : P2!WriteBack(S, s, w) = L2!WriteBack(S, s, w)
  /\ \A c : P2!Flush(c) = L2!Flush(c)
  /\ \A pol, pf : P2!Created(pol, pf) = L2!Created(pol, pf)
  /\ \A pol : P2!Draws(pol) = L2!Draws(pol)
  /\ \A c, cmd, b, r, q : P2!Access(c, cmd, b, r, q) = L2!Access(c, cmd, b, r, q)
  /\ P2!Blocks = L2!Blocks /\ P2!Sets = L2!Sets /\ P2!Ways = L2!Ways
<1>1. \A p, w : P2!ToHead(p, w) = L2!ToHead(p, w)
  BY DEF P2!ToHead, L2!ToHead, P2!Ways, L2!Ways
<1>2. \A S, t : P2!Matches(S, t) = L2!Matches(S, t)
  BY DEF P2!Matches, L2!Matches, P2!Ways, L2!Ways
<1>3. \A S, t : P2!Found(S, t) = L2!Found(S, t)
  BY DEF P2!Found, L2!Found, P2!Matches, L2!Matches, P2!Ways, L2!Ways
<1>4. \A c, b : P2!Probe(c, b) = L2!Probe(c, b)
  BY <1>2 DEF P2!Probe, L2!Probe, P2!SetOf, L2!SetOf, P2!TagOf, L2!TagOf
<1>5. \A pol, S : P2!NoVictim(pol, S) = L2!NoVictim(pol, S)
  BY DEF P2!NoVictim, L2!NoVictim, P2!Ways, L2!Ways
<1>6. \A pol, S, r : P2!Victim(pol, S, r) = L2!Victim(pol, S, r)
  BY DEF P2!Victim, L2!Victim, P2!LeastFrequent, L2!LeastFrequent, P2!Ways, L2!Ways
<1>7. \A S, s, w : P2!WriteBack(S, s, w) = L2!WriteBack(S, s, w)
  BY DEF P2!WriteBack, L2!WriteBack, P2!MkBaddr, L2!MkBaddr
<1>8. \A pol, S, w, t, d : P2!Refill(pol, S, w, t, d) = L2!Refill(pol, S, w, t, d)
  BY <1>1 DEF P2!Refill, L2!Refill
<1>9. \A c : P2!NoPrefetch(c) = L2!NoPrefetch(c)
  BY DEF P2!NoPrefetch, L2!NoPrefetch
<1>10. \A c, p, r : P2!FetchAhead(c, p, r) = L2!FetchAhead(c, p, r)
  BY <1>5, <1>6, <1>7, <1>8, <1>9 DEF P2!FetchAhead, L2!FetchAhead, P2!SetOf,
     L2!SetOf, P2!TagOf, L2!TagOf
<1>11. \A c, p, r : P2!IssuePrefetch(c, p, r) = L2!IssuePrefetch(c, p, r)
  BY <1>4, <1>9, <1>10 DEF P2!IssuePrefetch, L2!IssuePrefetch
<1>12. \A e, b : P2!Train(e, b) = L2!Train(e, b)
  BY DEF P2!Train, L2!Train, P2!NBlocks, L2!NBlocks
<1>13. \A e, n : P2!StrideDetected(e, n) = L2!StrideDetected(e, n)
  BY DEF P2!StrideDetected, L2!StrideDetected
<1>14. \A c, b, r : P2!StridePrefetch(c, b, r) = L2!StridePrefetch(c, b, r)
  BY <1>9, <1>11, <1>12, <1>13 DEF P2!StridePrefetch, L2!StridePrefetch, P2!NBlocks,
     L2!NBlocks
<1>15. \A c, b, r : P2!PrefetchLogic(c, b, r) = L2!PrefetchLogic(c, b, r)
  BY <1>9, <1>11, <1>14 DEF P2!PrefetchLogic, L2!PrefetchLogic, P2!NBlocks, L2!NBlocks
<1>16. \A c, pf, wb, rd : P2!Outcome(c, pf, wb, rd) = L2!Outcome(c, pf, wb, rd)
  BY DEF P2!Outcome, L2!Outcome
<1>17. \A c : P2!Segv(c) = L2!Segv(c)
  BY DEF P2!Segv, L2!Segv
<1>18. \A c, s, w : P2!Count(c, s, w) = L2!Count(c, s, w)
  BY DEF P2!Count, L2!Count
<1>19. \A c, s, w, cmd : P2!MarkDirty(c, s, w, cmd) = L2!MarkDirty(c, s, w, cmd)
  BY DEF P2!MarkDirty, L2!MarkDirty
<1>20. \A c, cmd, b : P2!FastHit(c, cmd, b) = L2!FastHit(c, cmd, b)
  BY <1>9, <1>16, <1>17, <1>18, <1>19 DEF P2!FastHit, L2!FastHit, P2!SetOf, L2!SetOf,
     P2!NoBlk, L2!NoBlk
<1>21. \A c, s, w : P2!Promote(c, s, w) = L2!Promote(c, s, w)
  BY <1>1 DEF P2!Promote, L2!Promote
<1>22. \A c, b, w : P2!Remember(c, b, w) = L2!Remember(c, b, w)
  BY DEF P2!Remember, L2!Remember
<1>23. \A c, cmd, b, r : P2!SlowHit(c, cmd, b, r) = L2!SlowHit(c, cmd, b, r)
  BY <1>3, <1>15, <1>16, <1>17, <1>18, <1>19, <1>21, <1>22 DEF P2!SlowHit, L2!SlowHit,
     P2!SetOf, L2!SetOf, P2!TagOf, L2!TagOf
<1>24. \A c : P2!Forget(c) = L2!Forget(c)
  BY DEF P2!Forget, L2!Forget, P2!NoBlk, L2!NoBlk
<1>25. \A c, cmd, b, r, q : P2!Miss(c, cmd, b, r, q) = L2!Miss(c, cmd, b, r, q)
  BY <1>5, <1>6, <1>7, <1>8, <1>15, <1>16, <1>17, <1>24 DEF P2!Miss, L2!Miss,
     P2!SetOf, L2!SetOf, P2!TagOf, L2!TagOf
<1>26. \A c, cmd, b, r, q : P2!Access(c, cmd, b, r, q) = L2!Access(c, cmd, b, r, q)
  BY <1>4, <1>20, <1>23, <1>25 DEF P2!Access, L2!Access
<1>27. \A c : P2!Flush(c) = L2!Flush(c)
  BY DEF P2!Flush, L2!Flush, P2!Forget, L2!Forget, P2!NoBlk, L2!NoBlk, P2!Sets,
     L2!Sets, P2!Ways, L2!Ways
<1>28. \A c : P2!Cached(c) = L2!Cached(c)
  BY DEF P2!Cached, L2!Cached, P2!Blocks, L2!Blocks, P2!NBlocks, L2!NBlocks, P2!Probe,
     L2!Probe, P2!SetOf, L2!SetOf, P2!TagOf, L2!TagOf, P2!Matches, L2!Matches,
     P2!Ways, L2!Ways
<1>29. \A c : P2!Dirty(c) = L2!Dirty(c)
  BY DEF P2!Dirty, L2!Dirty, P2!Blocks, L2!Blocks, P2!NBlocks, L2!NBlocks, P2!SetOf,
     L2!SetOf, P2!TagOf, L2!TagOf, P2!Matches, L2!Matches, P2!Ways, L2!Ways
<1>30. \A pol, pf : P2!Created(pol, pf) = L2!Created(pol, pf)
  BY DEF P2!Created, L2!Created, P2!Sets, L2!Sets, P2!Ways, L2!Ways, P2!Entries,
     L2!Entries, P2!NoBlk, L2!NoBlk
<1>31. \A pol : P2!Draws(pol) = L2!Draws(pol)
  BY DEF P2!Draws, L2!Draws, P2!Ways, L2!Ways
<1>32. P2!Blocks = L2!Blocks /\ P2!Sets = L2!Sets /\ P2!Ways = L2!Ways
  BY DEF P2!Blocks, L2!Blocks, P2!NBlocks, L2!NBlocks, P2!Sets, L2!Sets, P2!Ways,
     L2!Ways
<1> QED BY <1>28, <1>29, <1>7, <1>27, <1>30, <1>31, <1>26, <1>32

\* The sizes are what CacheOpsProofs assumes of them, and CACHE_BADDR of dl2 maps
\* the blocks of dl1 to those of dl2.
LEMMA Sizes ==
  /\ NSets1 \in Nat \ {0} /\ Assoc1 \in Nat \ {0} /\ NTags1 \in Nat \ {0}
  /\ NSets2 \in Nat \ {0} /\ Assoc2 \in Nat \ {0} /\ NTags2 \in Nat \ {0}
  /\ FreqMod \in Nat \ {0} /\ StrideTableSize \in Nat \ {0}
  /\ \A b \in P1!Blocks : StrideIndex(b) \in P1!Entries
  /\ \A b \in P2!Blocks : StrideIndex(b) \in P2!Entries
  /\ \A b \in P1!Blocks : L2Block(b) \in P2!Blocks
<1> DEFINE n1 == NSets1 * NTags1
           n2 == NSets2 * NTags2
<1>1. /\ NSets1 \in Nat \ {0} /\ Assoc1 \in Nat \ {0} /\ NTags1 \in Nat \ {0}
      /\ NSets2 \in Nat \ {0} /\ Assoc2 \in Nat \ {0} /\ NTags2 \in Nat \ {0}
      /\ FreqMod \in Nat \ {0} /\ StrideTableSize \in Nat \ {0} /\ Ratio \in Nat \ {0}
  BY SizeAssumption
<1>2. n1 \in Nat /\ n2 \in Nat /\ n1 = Ratio * n2
  BY <1>1, SizeAssumption DEF L1!NBlocks, L2!NBlocks
<1>3. P1!Blocks = 0 .. n1 - 1 /\ P2!Blocks = 0 .. n2 - 1 /\ L1!Blocks = 0 .. n1 - 1
  BY DEF P1!Blocks, P1!NBlocks, P2!Blocks, P2!NBlocks, L1!Blocks, L1!NBlocks
<1> HIDE DEF n1, n2
<1>4. ASSUME NEW b \in 0 .. n1 - 1 PROVE b \div Ratio \in 0 .. n2 - 1
  <2> DEFINE d == b \div Ratio
             m == b % Ratio
  <2>1. d \in Nat /\ m \in 0 .. Ratio - 1 /\ b = (Ratio * d) + m
    BY <1>1, <1>2
  <2> HIDE DEF d, m
  <2>2. Ratio * d < Ratio * n2
    BY <1>1, <1>2, <2>1
  <2>3. d < n2
    BY <1>1, <1>2, <2>1, <2>2
  <2> QED BY <1>2, <2>1, <2>3 DEF d
<1>5. n2 <= n1
  BY <1>1, <1>2
<1>6. P1!Entries = L1!Entries /\ P2!Entries = L1!Entries
  BY DEF P1!Entries, P2!Entries, L1!Entries
<1>7. \A b \in 0 .. n1 - 1 : StrideIndex(b) \in L1!Entries
  BY <1>3, HierarchyAssumption
<1> QED BY <1>1, <1>2, <1>3, <1>4, <1>5, <1>6, <1>7 DEF L2Block

\* A coherent cache of either level.
Level1(c) == P1!CacheOK(c) /\ P1!LastOK(c) /\ P1!SafePref(c.pref)
Level2(c) == P2!CacheOK(c) /\ P2!LastOK(c) /\ P2!SafePref(c.pref)

\* What an access of a first-level cache with outcome o leaves there, and what it
\* calls below.
Accessed1(c, o, cmd, b) ==
  /\ Level1(o.c) /\ b \in L1!Cached(o.c)
  /\ L1!Dirty(o.c) = (L1!Dirty(c) \ (o.pwb \cup o.wb))
                       \cup (IF cmd = "Write" THEN {b} ELSE {})
  /\ o.pwb \cup o.wb \subseteq L1!Dirty(c) /\ o.prd \cup o.rd \subseteq Blocks
  /\ P1!AtMostOne(o.pwb) /\ P1!AtMostOne(o.wb)

\* Every access that does not dereference NULL has that effect.
LEMMA Access1 ==
  ASSUME NEW c, Level1(c), NEW cmd \in Cmds, NEW b \in Blocks,
         NEW r \in L1!Draws(c.policy), NEW q \in L1!Draws(c.policy),
         NEW o, o = L1!Access(c, cmd, b, r, q), ~o.segv
  PROVE  Accessed1(c, o, cmd, b)
<1>1. cmd \in P1!Cmds /\ b \in P1!Blocks
  BY Same1 DEF Cmds, Blocks, L1!Cmds, P1!Cmds
<1>2. r \in P1!Draws(c.policy) /\ q \in P1!Draws(c.policy) /\ o = P1!Access(c, cmd, b, r, q)
  BY Same1
<1>3. P1!CacheOK(o.c) /\ P1!SameConfig(c, o.c) /\ P1!AccessOK(c, o, cmd, b)
  BY <1>1, <1>2, Sizes, P1!AccessEffect DEF Level1
<1>4. Level1(o.c)
  BY <1>3 DEF Level1, P1!SameConfig, P1!AccessOK
<1> QED BY <1>3, <1>4, Same1 DEF P1!AccessOK, P1!Store, Blocks, Accessed1

\* What an access of dl2 with outcome o leaves there.
Accessed2(c, o, cmd, b) ==
  /\ Level2(o.c)
  /\ L2!Dirty(o.c) = (L2!Dirty(c) \ (o.pwb \cup o.wb))
                       \cup (IF cmd = "Write" THEN {b} ELSE {})

\* Every access of dl2 that does not dereference NULL has that effect.
LEMMA Access2 ==
  ASSUME NEW c, Level2(c), NEW cmd \in Cmds, NEW b \in L2!Blocks,
         NEW r \in L2!Draws(c.policy), NEW q \in L2!Draws(c.policy),
         NEW o, o = L2!Access(c, cmd, b, r, q), ~o.segv
  PROVE  Accessed2(c, o, cmd, b)
<1>1. cmd \in P2!Cmds /\ b \in P2!Blocks
  BY Same2 DEF Cmds, L1!Cmds, P2!Cmds
<1>2. r \in P2!Draws(c.policy) /\ q \in P2!Draws(c.policy) /\ o = P2!Access(c, cmd, b, r, q)
  BY Same2
<1>3. P2!CacheOK(o.c) /\ P2!SameConfig(c, o.c) /\ P2!AccessOK(c, o, cmd, b)
  BY <1>1, <1>2, Sizes, P2!AccessEffect DEF Level2
<1>4. Level2(o.c)
  BY <1>3 DEF Level2, P2!SameConfig, P2!AccessOK
<1> QED BY <1>3, <1>4, Same2 DEF P2!AccessOK, P2!Store, Accessed2

\* cache_flush empties either level.
LEMMA Flushed ==
  /\ \A c : Level1(c) => /\ Level1(L1!Flush(c))
                         /\ L1!Cached(L1!Flush(c)) = {} /\ L1!Dirty(L1!Flush(c)) = {}
  /\ \A c : Level2(c) => Level2(L2!Flush(c)) /\ L2!Dirty(L2!Flush(c)) = {}
<1>1. ASSUME NEW c, Level1(c)
      PROVE  /\ Level1(P1!Flush(c))
             /\ P1!Cached(P1!Flush(c)) = {} /\ P1!Dirty(P1!Flush(c)) = {}
  BY <1>1, Sizes, P1!FlushOK DEF Level1, P1!SameConfig
<1>2. ASSUME NEW c, Level2(c)
      PROVE  Level2(P2!Flush(c)) /\ P2!Dirty(P2!Flush(c)) = {}
  BY <1>2, Sizes, P2!FlushOK DEF Level2, P2!SameConfig
<1> QED BY <1>1, <1>2, Same1, Same2

\* cache_create makes coherent caches without dirty blocks.
LEMMA Made ==
  ASSUME SafeConfig, NEW pol \in Policies, NEW pf \in Prefetchers
  PROVE  /\ Level1(L1!Created(pol, pf)) /\ L1!Dirty(L1!Created(pol, pf)) = {}
         /\ Level2(L2!Created(pol, pf))
<1>1. /\ pol \in P1!AllPolicies /\ pf \in P1!AllPrefetchers
      /\ pol \in P2!AllPolicies /\ pf \in P2!AllPrefetchers
  BY HierarchyAssumption DEF L1!AllPolicies, L1!AllPrefetchers, P1!AllPolicies,
     P1!AllPrefetchers, P2!AllPolicies, P2!AllPrefetchers
<1>2. P1!SafePref(pf) /\ P2!SafePref(pf)
  BY DEF SafeConfig, P1!SafePref, P2!SafePref
<1>3. Level1(P1!Created(pol, pf)) /\ P1!Dirty(P1!Created(pol, pf)) = {}
  BY <1>1, <1>2, Sizes, P1!CreatedOK DEF Level1
<1>4. Level2(P2!Created(pol, pf))
  BY <1>1, <1>2, Sizes, P2!CreatedOK DEF Level2
<1> QED BY <1>3, <1>4, Same1, Same2

\* Induction over the natural numbers, for a set given by a formula.
LEMMA Induction ==
  ASSUME NEW D, 0 \in D, \A n \in Nat : n \in D => n + 1 \in D
  PROVE  Nat \subseteq D
<1> SUFFICES ASSUME Nat \ D # {} PROVE FALSE
  OBVIOUS
<1>1. PICK x \in Nat \ D : \A y \in Nat \ D : x <= y
  BY Sizes, P1!LeastNat
<1>2. x # 0 /\ x - 1 \in Nat
  BY <1>1
<1>3. x - 1 \in D
  BY <1>1, <1>2
<1>4. (x - 1) + 1 \in D /\ (x - 1) + 1 = x
  BY <1>2, <1>3
<1> QED BY <1>1, <1>4

-----------------------------------------------------------------------------
(* Calls below the first level.                                            *)

Where == {"dl1", "dl2", "memory"}

\* dl2 is coherent, and what was last seen there is in a dirty block.
HOK(h) ==
  /\ Level2(h.c)
  /\ h.newest \in [Blocks -> Where]
  /\ \A b \in Blocks : h.newest[b] = "dl2" => L2Block(b) \in L2!Dirty(h.c)

\* From g to h the data of the blocks in W left dl1, and no other block of memory
\* or dl1 changed its place.
Moved(g, h, W) ==
  \A b \in Blocks : /\ h.newest[b] = "dl1" <=> g.newest[b] = "dl1" /\ b \notin W
                    /\ g.newest[b] = "memory" /\ b \notin W => h.newest[b] = "memory"

Reached(g, h, W) == h.segv \/ (HOK(h) /\ Moved(g, h, W))

\* What a sequence of calls is made of, and the blocks its first n calls write.
Calls == {a \in [cmd : Cmds, bs : SUBSET Blocks] : a.cmd = "Write" => P1!AtMostOne(a.bs)}

Writes(a) == IF a.cmd = "Write" THEN a.bs ELSE {}

Written(calls, n) == {b \in Blocks : \E i \in 1 .. n : b \in Writes(calls[i])}

\* An access of dl2 saves what it drops, and puts what it is given into a dirty
\* block.
LEMMA AccessDl2OK ==
  ASSUME NEW h, HOK(h), NEW cmd \in Cmds, NEW b \in Blocks, NEW x \in AccessDl2(h, cmd, b)
  PROVE  /\ h.segv => x.segv
         /\ Reached(h, x, IF cmd = "Write" THEN {b} ELSE {})
<1>1. PICK r \in L2!Draws(h.c.policy), q \in L2!Draws(h.c.policy) :
        x = LET o == L2!Access(h.c, cmd, L2Block(b), r, q)
                n == Saved(h.newest, o.pwb \cup o.wb)
            IN  IF h.segv \/ o.segv THEN [c |-> h.c, newest |-> h.newest, segv |-> TRUE]
                ELSE [c      |-> o.c,
                      newest |-> IF cmd = "Write" THEN [n EXCEPT ![b] = "dl2"] ELSE n,
                      segv   |-> FALSE]
  BY DEF AccessDl2
<1> DEFINE o == L2!Access(h.c, cmd, L2Block(b), r, q)
           n == Saved(h.newest, o.pwb \cup o.wb)
<1>2. CASE h.segv \/ o.segv
  BY <1>1, <1>2 DEF Reached
<1>3. CASE ~(h.segv \/ o.segv)
  <2>1. /\ x.c = o.c /\ ~x.segv
        /\ x.newest = IF cmd = "Write" THEN [n EXCEPT ![b] = "dl2"] ELSE n
    BY <1>1, <1>3
  <2>2. ~o.segv /\ o = L2!Access(h.c, cmd, L2Block(b), r, q)
    BY <1>3
  <2> HIDE DEF o
  <2>3. L2Block(b) \in L2!Blocks /\ Level2(h.c)
    BY Sizes, Same1, Same2 DEF Blocks, HOK
  <2>4. Accessed2(h.c, o, cmd, L2Block(b))
    BY <2>2, <2>3, Access2
  <2>5. /\ n \in [Blocks -> Where]
        /\ \A y \in Blocks :
             n[y] = IF h.newest[y] = "dl2" /\ L2Block(y) \in o.pwb \cup o.wb THEN "memory"
                    ELSE h.newest[y]
    BY DEF Saved, HOK, Where
  <2> HIDE DEF n
  <2>6. /\ x.newest \in [Blocks -> Where]
        /\ \A y \in Blocks : x.newest[y] = IF cmd = "Write" /\ y = b THEN "dl2" ELSE n[y]
    BY <2>1, <2>5 DEF Where
  <2>7. HOK(x)
    BY <2>1, <2>4, <2>5, <2>6 DEF HOK, Accessed2
  <2>8. Moved(h, x, IF cmd = "Write" THEN {b} ELSE {})
    BY <2>5, <2>6 DEF Moved
  <2> QED BY <1>3, <2>7, <2>8 DEF Reached
<1> QED BY <1>2, <1>3

\* One call after those that wrote W.
LEMMA DoOK ==
  ASSUME NEW g, NEW H, NEW W \in SUBSET Blocks, \A h \in H : Reached(g, h, W),
         NEW a \in Calls, NEW x \in Do(H, a)
  PROVE  Reached(g, x, W \cup Writes(a))
<1>1. CASE a.bs = {}
  <2>1. x \in H /\ W \cup Writes(a) = W
    BY <1>1 DEF Do, Writes
  <2> QED BY <2>1
<1>2. CASE a.bs # {}
  <2>1. PICK h \in H, b \in a.bs : x \in AccessDl2(h, a.cmd, b)
    BY <1>2 DEF Do
  <2>2. a.cmd \in Cmds /\ b \in Blocks /\ Writes(a) = IF a.cmd = "Write" THEN {b} ELSE {}
    BY <2>1 DEF Calls, Writes, P1!AtMostOne
  <2>3. CASE h.segv
    BY <2>1, <2>3 DEF AccessDl2, Reached
  <2>4. CASE ~h.segv
    <3>1. HOK(h) /\ Moved(g, h, W)
      BY <2>4 DEF Reached
    <3>2. Reached(h, x, Writes(a))
      BY <2>1, <2>2, <3>1, AccessDl2OK DEF Writes
    <3>3. Moved(h, x, Writes(a)) => Moved(g, x, W \cup Writes(a))
      BY <3>1 DEF Moved
    <3> QED BY <3>2, <3>3 DEF Reached
  <2> QED BY <2>3, <2>4
<1> QED BY <1>1, <1>2

\* The sets of hierarchies after every call of a sequence.
LEMMA BelowWalk ==
  ASSUME NEW h, NEW calls \in Seq(Calls)
  PROVE  \E f : /\ f = [n \in 0 .. Len(calls) |-> IF n = 0 THEN {h} ELSE Do(f[n - 1], calls[n])]
                /\ Below(h, calls) = f[Len(calls)]
<1> DEFINE N == Len(calls)
           Eq(f, m) == f = [n \in 0 .. m |-> IF n = 0 THEN {h} ELSE Do(f[n - 1], calls[n])]
           D == {n \in Nat : \E f : Eq(f, n)}
<1>0. N \in Nat
  OBVIOUS
<1>1. 0 \in D
  <2>1. Eq([n \in 0 .. 0 |-> {h}], 0)
    OBVIOUS
  <2> QED BY <2>1
<1>2. ASSUME NEW m \in Nat, m \in D PROVE m + 1 \in D
  <2>1. PICK f : Eq(f, m)
    BY <1>2
  <2> DEFINE u == [n \in 0 .. m + 1 |-> IF n = m + 1 THEN Do(f[m], calls[m + 1]) ELSE f[n]]
  <2>2. Eq(u, m + 1)
    <3>1. \A n \in 0 .. m + 1 : n # 0 => n - 1 \in 0 .. m /\ u[n - 1] = f[n - 1]
      OBVIOUS
    <3>2. u[0] = {h}
      BY <2>1
    <3>3. ASSUME NEW n \in 0 .. m + 1
          PROVE  u[n] = IF n = 0 THEN {h} ELSE Do(u[n - 1], calls[n])
      <4>1. CASE n = 0
        BY <3>2, <4>1
      <4>2. CASE n = m + 1
        BY <3>1, <4>2
      <4>3. CASE n # 0 /\ n # m + 1
        <5>1. n \in 0 .. m /\ u[n] = f[n] /\ u[n - 1] = f[n - 1]
          BY <3>1, <4>3
        <5> QED BY <2>1, <4>3, <5>1
      <4> QED BY <4>1, <4>2, <4>3
    <3> HIDE DEF u
    <3>4. u = [n \in 0 .. m + 1 |-> u[n]]
      BY DEF u
    <3> QED BY <3>3, <3>4
  <2>3. m + 1 \in Nat
    OBVIOUS
  <2> HIDE DEF Eq, u
  <2> QED BY <2>2, <2>3
<1>3. N \in D
  <2> HIDE DEF D, N
  <2> QED BY <1>0, <1>1, <1>2, Induction
<1>4. Below(h, calls) = (CHOOSE f : Eq(f, N))[N]
  BY DEF Below
<1> QED BY <1>3, <1>4

\* A sequence of calls takes what it writes out of dl1 and loses nothing.
LEMMA BelowOK ==
  ASSUME NEW h, HOK(h), NEW calls \in Seq(Calls), NEW x \in Below(h, calls)
  PROVE  Reached(h, x, Written(calls, Len(calls)))
<1> DEFINE N == Len(calls)
<1>1. PICK f : /\ f = [n \in 0 .. N |-> IF n = 0 THEN {h} ELSE Do(f[n - 1], calls[n])]
               /\ Below(h, calls) = f[N]
  BY BelowWalk
<1> DEFINE D == {n \in Nat : n <= N => \A y \in f[n] : Reached(h, y, Written(calls, n))}
<1>2. N \in Nat /\ \A n \in 1 .. N : calls[n] \in Calls
  OBVIOUS
<1> HIDE DEF N
<1>3. f[0] = {h} /\ \A n \in Nat : n < N => f[n + 1] = Do(f[n], calls[n + 1])
  <2>1. \A n \in 0 .. N : f[n] = IF n = 0 THEN {h} ELSE Do(f[n - 1], calls[n])
    BY <1>1
  <2>2. ASSUME NEW n \in Nat, n < N
        PROVE  n + 1 \in 0 .. N /\ n + 1 # 0 /\ (n + 1) - 1 = n
    BY <1>2, <2>2
  <2>3. ASSUME NEW n \in Nat, n < N
        PROVE  f[n + 1] = Do(f[n], calls[n + 1])
    BY <2>1, <2>2, <2>3
  <2>4. 0 \in 0 .. N
    BY <1>2
  <2> QED BY <2>1, <2>3, <2>4
<1>4. 0 \in D
  <2>1. Reached(h, h, Written(calls, 0))
    <3>1. Written(calls, 0) = {}
      BY DEF Written
    <3> QED BY <3>1 DEF Reached, Moved
  <2> QED BY <1>3, <2>1
<1>5. ASSUME NEW n \in Nat, n \in D PROVE n + 1 \in D
  <2> SUFFICES ASSUME n + 1 <= N, NEW y \in f[n + 1]
               PROVE  Reached(h, y, Written(calls, n + 1))
    OBVIOUS
  <2>1. n < N /\ n <= N /\ n + 1 \in 1 .. N
    BY <1>2
  <2>2. calls[n + 1] \in Calls /\ y \in Do(f[n], calls[n + 1])
    BY <1>2, <1>3, <2>1
  <2>3. \A z \in f[n] : Reached(h, z, Written(calls, n))
    BY <1>5, <2>1
  <2>4. Reached(h, y, Written(calls, n) \cup Writes(calls[n + 1]))
    BY <2>2, <2>3, DoOK DEF Written
  <2>5. Writes(calls[n + 1]) \subseteq Blocks
    BY <2>2 DEF Writes, Calls
  <2>6. 1 .. n + 1 = (1 .. n) \cup {n + 1}
    OBVIOUS
  <2>7. Written(calls, n + 1) = Written(calls, n) \cup Writes(calls[n + 1])
    BY <2>5, <2>6 DEF Written
  <2> QED BY <2>4, <2>7
<1>6. N \in D
  <2> HIDE DEF D
  <2> QED BY <1>2, <1>4, <1>5, Induction
<1> QED BY <1>1, <1>2, <1>6 DEF N

\* The calls of an access write what the first level drops.
LEMMA TrafficOK ==
  ASSUME NEW o, o.pwb \cup o.wb \subseteq Blocks, o.prd \cup o.rd \subseteq Blocks,
         P1!AtMostOne(o.pwb), P1!AtMostOne(o.wb)
  PROVE  Traffic(o) \in Seq(Calls) /\ Written(Traffic(o), Len(Traffic(o))) = o.pwb \cup o.wb
<1> DEFINE calls == Traffic(o)
<1>1. "Read" \in Cmds /\ "Write" \in Cmds
  BY DEF Cmds, L1!Cmds
<1>2. /\ Call("Write", o.pwb) \in Calls /\ Call("Read", o.prd) \in Calls
      /\ Call("Write", o.wb) \in Calls /\ Call("Read", o.rd) \in Calls
  BY <1>1 DEF Calls, Call
<1>3. /\ calls \in Seq(Calls) /\ Len(calls) = 4
      /\ calls[1] = Call("Write", o.pwb) /\ calls[2] = Call("Read", o.prd)
      /\ calls[3] = Call("Write", o.wb) /\ calls[4] = Call("Read", o.rd)
  BY <1>2 DEF Traffic
<1> HIDE DEF calls
<1>4. /\ Writes(calls[1]) = o.pwb /\ Writes(calls[2]) = {}
      /\ Writes(calls[3]) = o.wb /\ Writes(calls[4]) = {}
  BY <1>3 DEF Writes, Call
<1>5. 1 .. 4 = {1, 2, 3, 4}
  OBVIOUS
<1>6. Written(calls, 4) = o.pwb \cup o.wb
  BY <1>4, <1>5 DEF Written
<1> QED BY <1>3, <1>6 DEF calls

\* So do those of an access of a first-level cache.
LEMMA AccessTraffic ==
  ASSUME NEW c, NEW o, NEW cmd, NEW b, Accessed1(c, o, cmd, b)
  PROVE  Traffic(o) \in Seq(Calls) /\ Written(Traffic(o), Len(Traffic(o))) = o.pwb \cup o.wb
<1>1. L1!Dirty(c) \subseteq Blocks
  BY DEF L1!Dirty, Blocks
<1> QED BY <1>1, TrafficOK DEF Accessed1

\* A fetch from dl2 only reads.
LEMMA ReadOK ==
  ASSUME NEW b \in Blocks
  PROVE  LET calls == <<Call("Read", {b})>>
         IN  calls \in Seq(Calls) /\ Written(calls, Len(calls)) = {}
<1> DEFINE calls == <<Call("Read", {b})>>
<1>1. Call("Read", {b}) \in Calls /\ Writes(Call("Read", {b})) = {}
  BY DEF Calls, Call, Writes, Cmds, L1!Cmds
<1>2. calls \in Seq(Calls) /\ Len(calls) = 1 /\ calls[1] = Call("Read", {b})
  BY <1>1
<1> HIDE DEF calls
<1>3. \A i \in 1 .. 1 : Writes(calls[i]) = {}
  BY <1>1, <1>2
<1>4. Written(calls, 1) = {}
  BY <1>3 DEF Written
<1> QED BY <1>2, <1>4 DEF calls

\* The loops of cache_flush come to every position of every set.
LEMMA Slots ==
  /\ \A k \in 1 .. NSets1 * Assoc1 : /\ (k - 1) \div Assoc1 \in L1!Sets
                                     /\ (k - 1) % Assoc1 \in L1!Ways
  /\ \A s \in L1!Sets, p \in L1!Ways :
       \E k \in 1 .. NSets1 * Assoc1 : (k - 1) \div Assoc1 = s /\ (k - 1) % Assoc1 = p
<1>1. NSets1 \in Nat \ {0} /\ Assoc1 \in Nat \ {0}
  BY Sizes
<1>2. ASSUME NEW k \in 1 .. NSets1 * Assoc1
      PROVE  (k - 1) \div Assoc1 \in L1!Sets /\ (k - 1) % Assoc1 \in L1!Ways
  BY <1>1 DEF L1!Sets, L1!Ways
<1>3. ASSUME NEW s \in L1!Sets, NEW p \in L1!Ways
      PROVE  \E k \in 1 .. NSets1 * Assoc1 :
               (k - 1) \div Assoc1 = s /\ (k - 1) % Assoc1 = p
  <2> DEFINE j == (s * Assoc1) + p
  <2>1. j \in 0 .. (NSets1 * Assoc1) - 1 /\ j \div Assoc1 = s /\ j % Assoc1 = p
    BY <1>1 DEF L1!Sets, L1!Ways
  <2> HIDE DEF j
  <2>2. j + 1 \in 1 .. NSets1 * Assoc1 /\ (j + 1) - 1 = j
    BY <1>1, <2>1
  <2> QED BY <2>1, <2>2
<1> QED BY <1>2, <1>3

\* Walking all sets along their way lists, cache_flush writes every dirty block.
LEMMA FlushTrafficOK ==
  ASSUME NEW c, Level1(c)
  PROVE  LET calls == FlushTraffic(c)
         IN  calls \in Seq(Calls) /\ Written(calls, Len(calls)) = L1!Dirty(c)
<1> DEFINE N == NSets1 * Assoc1
           slot(k) == (k - 1) \div Assoc1
           way(k) == CHOOSE w \in L1!Ways : c.sets[slot(k)].pos[w] = (k - 1) % Assoc1
           WB(k) == L1!WriteBack(c.sets[slot(k)], slot(k), way(k))
           calls == FlushTraffic(c)
<1>1. \A s \in L1!Sets : /\ P1!Perm(c.sets[s].pos)
                         /\ \A w \in L1!Ways : c.sets[s].blk[w].tag \in P1!Tags
  BY Same1 DEF Level1, P1!CacheOK, P1!SetOK, P1!CacheType, P1!Set, P1!Block
<1>2. N \in Nat
  BY Sizes
<1>3. calls = [k \in 1 .. N |-> Call("Write", WB(k))]
  BY DEF FlushTraffic
<1>4. ASSUME NEW k \in 1 .. N
      PROVE  /\ slot(k) \in L1!Sets /\ way(k) \in L1!Ways
             /\ c.sets[slot(k)].pos[way(k)] = (k - 1) % Assoc1
  <2>1. slot(k) \in L1!Sets /\ (k - 1) % Assoc1 \in L1!Ways
    BY Slots
  <2>2. \E w \in L1!Ways : c.sets[slot(k)].pos[w] = (k - 1) % Assoc1
    BY <1>1, <2>1, Same1 DEF P1!Perm
  <2> QED BY <2>1, <2>2
<1> HIDE DEF calls, N, slot, way
\* What the replacement of a way writes back is the dirty block that it holds.
<1>5. ASSUME NEW s \in L1!Sets, NEW w \in L1!Ways, NEW b
      PROVE  b \in L1!WriteBack(c.sets[s], s, w) <=>
               /\ b \in Blocks /\ P1!SetOf(b) = s
               /\ w \in P1!Matches(c.sets[s], P1!TagOf(b)) /\ c.sets[s].blk[w].dirty
  <2> DEFINE blk == c.sets[s].blk[w]
             x == P1!MkBaddr(blk.tag, s)
  <2>1. blk.tag \in P1!Tags /\ s \in P1!Sets /\ w \in P1!Ways
    BY <1>1, Same1
  <2>2. x \in Blocks /\ P1!SetOf(x) = s /\ P1!TagOf(x) = blk.tag
    BY <2>1, Sizes, Same1, P1!BlockAddr DEF Blocks
  <2>3. b \in Blocks => P1!MkBaddr(P1!TagOf(b), P1!SetOf(b)) = b
    BY Sizes, Same1, P1!BlockAddr DEF Blocks
  <2>4. b \in L1!WriteBack(c.sets[s], s, w) <=> blk.valid /\ blk.dirty /\ b = x
    BY Same1 DEF P1!WriteBack
  <2>5. w \in P1!Matches(c.sets[s], P1!TagOf(b)) <=> blk.tag = P1!TagOf(b) /\ blk.valid
    BY <2>1 DEF P1!Matches
  <2> HIDE DEF blk, x
  <2>6. b = x => b \in Blocks /\ P1!SetOf(b) = s /\ P1!TagOf(b) = blk.tag
    BY <2>2
  <2>7. b \in Blocks /\ P1!SetOf(b) = s /\ P1!TagOf(b) = blk.tag => b = x
    BY <2>3 DEF x
  <2> QED BY <2>4, <2>5, <2>6, <2>7 DEF blk
<1>6. ASSUME NEW k \in 1 .. N PROVE calls[k] \in Calls /\ Writes(calls[k]) = WB(k)
  <2>1. calls[k] = Call("Write", WB(k))
    BY <1>3
  <2>2. WB(k) \subseteq Blocks
    BY <1>4, <1>5
  <2>3. P1!AtMostOne(WB(k))
    BY Same1 DEF P1!AtMostOne, P1!WriteBack
  <2> HIDE DEF WB
  <2> QED BY <2>1, <2>2, <2>3 DEF Calls, Call, Writes, Cmds, L1!Cmds
<1>7. calls \in Seq(Calls) /\ Len(calls) = N
  <2> HIDE DEF WB
  <2>1. \A k \in 1 .. N : Call("Write", WB(k)) \in Calls
    BY <1>3, <1>6
  <2> QED BY <1>2, <1>3, <2>1
<1>8. ASSUME NEW b \in Blocks
      PROVE  b \in L1!Dirty(c) <=> \E k \in 1 .. N : b \in WB(k)
  <2> DEFINE s == P1!SetOf(b)
  <2>1. s \in L1!Sets
    BY Sizes, Same1, P1!BlockAddr DEF Blocks
  <2>2. b \in L1!Dirty(c) <=> \E w \in L1!Ways : /\ w \in P1!Matches(c.sets[s], P1!TagOf(b))
                                                 /\ c.sets[s].blk[w].dirty
    BY Same1 DEF P1!Dirty, P1!Matches, Blocks
  <2> HIDE DEF s
  <2>3. ASSUME NEW k \in 1 .. N, b \in WB(k)
        PROVE  b \in L1!Dirty(c)
    BY <1>4, <1>5, <2>2, <2>3 DEF s
  <2>4. ASSUME NEW w \in L1!Ways, w \in P1!Matches(c.sets[s], P1!TagOf(b)),
               c.sets[s].blk[w].dirty
        PROVE  \E k \in 1 .. N : b \in WB(k)
    <3>1. c.sets[s].pos[w] \in L1!Ways
      BY <1>1, <2>1, Same1 DEF P1!Perm
    <3>2. PICK k \in 1 .. N : slot(k) = s /\ (k - 1) % Assoc1 = c.sets[s].pos[w]
      BY <2>1, <3>1, Slots DEF N, slot
    <3>3. way(k) \in L1!Ways /\ c.sets[s].pos[way(k)] = c.sets[s].pos[w]
      BY <1>4, <3>2
    <3>4. way(k) = w
      BY <1>1, <2>1, <3>3, Same1 DEF P1!Perm
    <3>5. b \in WB(k)
      BY <1>5, <2>1, <2>4, <3>2, <3>4 DEF s
    <3> QED BY <3>2, <3>5
  <2> QED BY <2>2, <2>3, <2>4
<1>9. L1!Dirty(c) \subseteq Blocks
  BY DEF L1!Dirty, Blocks
<1> HIDE DEF WB
<1>10. Written(calls, N) = L1!Dirty(c)
  BY <1>6, <1>8, <1>9 DEF Written
<1> QED BY <1>7, <1>10 DEF calls

-----------------------------------------------------------------------------
(* The invariant of the hierarchy.  Its first part is what the calls below *)
(* need; that il1 has nothing dirty means that a fetch writes nothing.     *)

HInv ==
  /\ Level1(dl1) /\ Level1(il1) /\ L1!Dirty(il1) = {}
  /\ HOK(Now)
  /\ \A b \in Blocks : newest[b] = "dl1" <=> b \in L1!Dirty(dl1)
  /\ FlushReachesMemory

\* cache_create establishes it: nothing is dirty and everything in memory.
LEMMA InitHInv == SafeConfig /\ Init => HInv
<1> SUFFICES ASSUME SafeConfig, Init PROVE HInv
  OBVIOUS
<1>1. PICK pol1 \in Policies, pol2 \in Policies, pf \in Prefetchers :
        /\ dl1 = L1!Created(pol1, pf) /\ il1 = L1!Created(pol1, pf)
        /\ dl2 = L2!Created(pol2, pf)
        /\ newest = [b \in Blocks |-> "memory"]
  BY DEF Init
<1>2. /\ Level1(dl1) /\ Level1(il1) /\ L1!Dirty(dl1) = {} /\ L1!Dirty(il1) = {}
      /\ Level2(dl2)
  BY <1>1, Made
<1>3. Now.c = dl2 /\ Now.newest = newest
  BY DEF Now
<1>4. newest \in [Blocks -> Where] /\ \A b \in Blocks : newest[b] = "memory"
  BY <1>1 DEF Where
<1> QED BY <1>2, <1>3, <1>4 DEF HInv, HOK, FlushReachesMemory

\* HInv is about the caches and newest alone.
LEMMA SameInv == HInv /\ UNCHANGED <<dl1, il1, dl2, newest>> => HInv'
BY DEF HInv, HOK, Now, FlushReachesMemory

\* A NULL dereference ends the run and changes nothing.
LEMMA DieInv == HInv /\ Die => HInv'
BY SameInv DEF Die

\* Where the calls below an access of the first level lead to from here.
LEMMA BelowNow ==
  ASSUME HInv, NEW calls \in Seq(Calls), NEW h \in Below(Now, calls), ~h.segv
  PROVE  /\ HOK(h)
         /\ \A b \in Blocks :
              /\ h.newest[b] = "dl1" <=> newest[b] = "dl1" /\ b \notin Written(calls, Len(calls))
              /\ newest[b] = "memory" /\ b \notin Written(calls, Len(calls))
                   => h.newest[b] = "memory"
<1>1. Reached(Now, h, Written(calls, Len(calls)))
  BY BelowOK DEF HInv
<1>2. Now.newest = newest
  BY DEF Now
<1> QED BY <1>1, <1>2 DEF Reached, Moved

\* dcache_access_fn: the block that is accessed is in dl1 afterwards, dirty if it
\* was written, and what it pushed out is in dl2.
LEMMA DataInv ==
  ASSUME HInv, NEW cmd \in Cmds, NEW b \in Blocks, DataAccess(cmd, b)
  PROVE  HInv'
<1>1. PICK r \in L1!Draws(dl1.policy), q \in L1!Draws(dl1.policy) :
        LET o == L1!Access(dl1, cmd, b, r, q)
        IN  IF o.segv THEN Die
            ELSE \E h \in Below(Now, Traffic(o)) :
                   IF h.segv THEN Die
                   ELSE /\ dl1' = o.c
                        /\ dl2' = h.c
                        /\ newest' = IF cmd = "Write" THEN [h.newest EXCEPT ![b] = "dl1"]
                                     ELSE h.newest
                        /\ UNCHANGED <<il1Opt, il1, running>>
  BY DEF DataAccess
<1>2. CASE Die
  BY <1>2, DieInv
<1> DEFINE o == L1!Access(dl1, cmd, b, r, q)
<1>3. CASE ~Die
  <2>1. PICK h \in Below(Now, Traffic(o)) :
          /\ ~o.segv /\ ~h.segv
          /\ dl1' = o.c /\ dl2' = h.c /\ il1' = il1
          /\ newest' = IF cmd = "Write" THEN [h.newest EXCEPT ![b] = "dl1"] ELSE h.newest
    BY <1>1, <1>3
  <2>2. o = L1!Access(dl1, cmd, b, r, q) /\ Level1(dl1)
    BY DEF HInv
  <2> HIDE DEF o
  <2>3. Accessed1(dl1, o, cmd, b)
    BY <2>1, <2>2, Access1
  <2>4. /\ Level1(o.c) /\ b \in L1!Cached(o.c)
        /\ L1!Dirty(o.c) = (L1!Dirty(dl1) \ (o.pwb \cup o.wb))
                             \cup (IF cmd = "Write" THEN {b} ELSE {})
    BY <2>3 DEF Accessed1
  <2>5. Traffic(o) \in Seq(Calls) /\ Written(Traffic(o), Len(Traffic(o))) = o.pwb \cup o.wb
    BY <2>3, AccessTraffic
  <2>6. /\ HOK(h)
        /\ \A y \in Blocks : h.newest[y] = "dl1" <=>
                               newest[y] = "dl1" /\ y \notin o.pwb \cup o.wb
    BY <2>1, <2>5, BelowNow
  <2>7. /\ newest' \in [Blocks -> Where]
        /\ \A y \in Blocks :
             newest'[y] = IF cmd = "Write" /\ y = b THEN "dl1" ELSE h.newest[y]
    BY <2>1, <2>6 DEF HOK, Where
  <2>8. HOK(Now)'
    BY <2>1, <2>6, <2>7 DEF HOK, Now
  <2>9. \A y \in Blocks : newest'[y] = "dl1" <=> y \in L1!Dirty(dl1')
    BY <2>1, <2>4, <2>6, <2>7 DEF HInv
  <2>10. FlushReachesMemory'
    BY <2>1, <2>4 DEF FlushReachesMemory
  <2>11. /\ Level1(dl1)' /\ Level1(il1)' /\ (L1!Dirty(il1) = {})'
         /\ (\A y \in Blocks : newest[y] = "dl1" <=> y \in L1!Dirty(dl1))'
    BY <2>1, <2>4, <2>9 DEF HInv
  <2> QED BY <2>8, <2>10, <2>11 DEF HInv
<1> QED BY <1>2, <1>3

\* A step that reads below dl1 and leaves dl1 alone moves data from dl2 to memory
\* at most.
LEMMA ReadStep ==
  ASSUME HInv, NEW calls \in Seq(Calls), Written(calls, Len(calls)) = {},
         NEW h \in Below(Now, calls), ~h.segv,
         dl1' = dl1, dl2' = h.c, newest' = h.newest,
         Level1(il1'), L1!Dirty(il1') = {}
  PROVE  HInv'
<1>1. /\ HOK(h)
      /\ \A b \in Blocks : /\ h.newest[b] = "dl1" <=> newest[b] = "dl1"
                           /\ newest[b] = "memory" => h.newest[b] = "memory"
  BY BelowNow
<1>2. HOK(Now)'
  BY <1>1 DEF HOK, Now
<1>3. FlushReachesMemory'
  BY <1>1 DEF HInv, FlushReachesMemory
<1>4. (\A b \in Blocks : newest[b] = "dl1" <=> b \in L1!Dirty(dl1))'
  BY <1>1 DEF HInv
<1>5. Level1(dl1)' /\ Level1(il1)' /\ (L1!Dirty(il1) = {})'
  BY DEF HInv
<1> QED BY <1>2, <1>3, <1>4, <1>5 DEF HInv

\* A fetch through il1 reads below it and dirties nothing.
LEMMA FetchIl1Inv ==
  ASSUME HInv, NEW b \in Blocks, FetchIl1(b)
  PROVE  HInv'
<1>1. PICK r \in L1!Draws(il1.policy), q \in L1!Draws(il1.policy) :
        LET o == L1!Access(il1, "Read", b, r, q)
        IN  IF o.segv THEN Die
            ELSE \E h \in Below(Now, Traffic(o)) :
                   IF h.segv THEN Die
                   ELSE /\ il1' = o.c
                        /\ dl2' = h.c
                        /\ newest' = h.newest
                        /\ UNCHANGED <<il1Opt, dl1, running>>
  BY DEF FetchIl1
<1>2. CASE Die
  BY <1>2, DieInv
<1> DEFINE o == L1!Access(il1, "Read", b, r, q)
<1>3. CASE ~Die
  <2>1. PICK h \in Below(Now, Traffic(o)) :
          /\ ~o.segv /\ ~h.segv
          /\ il1' = o.c /\ dl2' = h.c /\ newest' = h.newest /\ dl1' = dl1
    BY <1>1, <1>3
  <2>2. o = L1!Access(il1, "Read", b, r, q) /\ Level1(il1) /\ "Read" \in Cmds
    BY DEF HInv, Cmds, L1!Cmds
  <2> HIDE DEF o
  <2>3. Accessed1(il1, o, "Read", b)
    BY <2>1, <2>2, Access1
  <2>4. Level1(o.c) /\ o.pwb \cup o.wb = {} /\ L1!Dirty(o.c) = {}
    BY <2>3 DEF Accessed1, HInv
  <2>5. Traffic(o) \in Seq(Calls) /\ Written(Traffic(o), Len(Traffic(o))) = {}
    BY <2>3, <2>4, AccessTraffic
  <2> QED BY <2>1, <2>4, <2>5, ReadStep
<1> QED BY <1>2, <1>3

\* So does a fetch from dl2.
LEMMA FetchDl2Inv ==
  ASSUME HInv, NEW b \in Blocks, FetchDl2(b)
  PROVE  HInv'
<1>1. CASE Die
  BY <1>1, DieInv
<1>2. CASE ~Die
  <2> DEFINE calls == <<Call("Read", {b})>>
  <2>1. PICK h \in Below(Now, calls) :
          /\ ~h.segv /\ il1' = il1 /\ dl1' = dl1 /\ dl2' = h.c /\ newest' = h.newest
    BY <1>2 DEF FetchDl2
  <2>2. calls \in Seq(Calls) /\ Written(calls, Len(calls)) = {}
    BY ReadOK
  <2> HIDE DEF calls
  <2>3. Level1(il1') /\ L1!Dirty(il1') = {}
    BY <2>1 DEF HInv
  <2> QED BY <2>1, <2>2, <2>3, ReadStep
<1> QED BY <1>1, <1>2

\* A flush before a system call: first all of dl1 moves to dl2, and then, with what
\* was there, to memory.
LEMMA SyscallInv == HInv /\ Syscall => HInv'
<1> SUFFICES ASSUME HInv, Syscall PROVE HInv'
  OBVIOUS
<1>1. CASE Die
  BY <1>1, DieInv
<1>2. CASE ~Die
  <2> DEFINE calls == FlushTraffic(dl1)
  <2>1. PICK h \in Below(Now, calls) :
          /\ ~h.segv /\ il1' = il1
          /\ dl1' = L1!Flush(dl1) /\ dl2' = L2!Flush(h.c)
          /\ newest' = Saved(h.newest, L2!Dirty(h.c))
    BY <1>2 DEF Syscall
  <2>2. Level1(dl1)
    BY DEF HInv
  <2>3. calls \in Seq(Calls) /\ Written(calls, Len(calls)) = L1!Dirty(dl1)
    BY <2>2, FlushTrafficOK
  <2> HIDE DEF calls
  <2>4. /\ HOK(h)
        /\ \A b \in Blocks : h.newest[b] = "dl1" <=> newest[b] = "dl1" /\ b \notin L1!Dirty(dl1)
    BY <2>1, <2>3, BelowNow
  <2>5. \A b \in Blocks : h.newest[b] # "dl1"
    BY <2>4 DEF HInv
  <2>6. newest' \in [Blocks -> Where] /\ \A b \in Blocks : newest'[b] = "memory"
    BY <2>1, <2>4, <2>5 DEF Saved, HOK, Where
  <2>7. Level1(dl1') /\ L1!Dirty(dl1') = {} /\ Level2(dl2')
    BY <2>1, <2>2, <2>4, Flushed DEF HOK
  <2>8. HOK(Now)'
    BY <2>6, <2>7 DEF HOK, Now
  <2>9. FlushReachesMemory'
    BY <2>6 DEF FlushReachesMemory
  <2>10. (\A b \in Blocks : newest[b] = "dl1" <=> b \in L1!Dirty(dl1))'
    BY <2>6, <2>7
  <2>11. Level1(dl1)' /\ Level1(il1)' /\ (L1!Dirty(il1) = {})'
    BY <2>1, <2>7 DEF HInv
  <2> QED BY <2>8, <2>9, <2>10, <2>11 DEF HInv
<1> QED BY <1>1, <1>2

\* The invariant holds in every state.
LEMMA HierarchyInvariance == SafeConfig => (Spec => []HInv)
<1> SUFFICES ASSUME SafeConfig PROVE Spec => []HInv
  OBVIOUS
<1>1. Init => HInv
  BY InitHInv
<1>2. HInv /\ [Next]_vars => HInv'
  <2> SUFFICES ASSUME HInv, [Next]_vars PROVE HInv'
    OBVIOUS
  <2>1. ASSUME NEW cmd \in Cmds, NEW b \in Blocks, DataAccess(cmd, b) PROVE HInv'
    BY <2>1, DataInv
  <2>2. ASSUME NEW b \in TextBlocks, FetchIl1(b) \/ FetchDl1(b) \/ FetchDl2(b) PROVE HInv'
    <3>1. b \in Blocks /\ "Read" \in Cmds
      BY HierarchyAssumption DEF Blocks, Cmds, L1!Cmds
    <3> QED BY <2>2, <3>1, FetchIl1Inv, FetchDl2Inv, DataInv DEF FetchDl1
  <2>3. CASE Syscall
    BY <2>3, SyscallInv
  <2>4. CASE UNCHANGED vars
    BY <2>4, SameInv DEF vars
  <2> QED BY <2>1, <2>2, <2>3, <2>4 DEF Next
<1> QED BY <1>1, <1>2, PTL DEF Spec

\* No write is lost between the levels, whatever the accesses, prefetches and
\* write-backs of one level replace in the next.
THEOREM NewestHeld == SafeConfig => (Spec => []NewestIsHeld)
<1> SUFFICES ASSUME SafeConfig PROVE Spec => []NewestIsHeld
  OBVIOUS
<1>1. HInv => NewestIsHeld
  BY DEF HInv, HOK, Now, NewestIsHeld
<1> QED BY <1>1, HierarchyInvariance, PTL

\* A system call that flushed dl1 and then dl2 finds every write in memory.
THEOREM FlushedToMemory == SafeConfig => (Spec => []FlushReachesMemory)
<1> SUFFICES ASSUME SafeConfig PROVE Spec => []FlushReachesMemory
  OBVIOUS
<1>1. HInv => FlushReachesMemory
  BY DEF HInv
<1> QED BY <1>1, HierarchyInvariance, PTL

=============================================================================
