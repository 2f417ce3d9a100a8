---------------------------- MODULE CacheProofs ----------------------------
(***************************************************************************)
(* The safety of one cache, for every geometry and configuration, and its  *)
(* implementation of WriteBackCache and of StackCache.                     *)
(***************************************************************************)
EXTENDS Cache, CacheOpsProofs, Sequences

\* The configurations in which a prefetch cannot evict the block being hit.
SafeConfig == \A f \in Prefetchers : SafePref(f)

\* The inductive invariant of every configuration: type correctness is not
\* inductive by itself, because a way list that is no permutation has no tail to
\* replace and a set with a duplicated block has no well-defined hit.
IInv ==
  /\ CacheOK(cache)
  /\ cache.policy \in Policies /\ cache.pref \in Prefetchers
  /\ unsaved \subseteq Blocks
  /\ running \in BOOLEAN

\* The part that needs SafeConfig: last_blk is what it claims to be, so that a
\* fast hit marks the right block dirty.
DataInv == LastOK(cache) /\ unsaved = Dirty(cache)

\* cache_create establishes the invariants and an empty cache.
LEMMA InitInv == Init => IInv /\ DataInv /\ Cached(cache) = {}
<1> SUFFICES ASSUME Init PROVE IInv /\ DataInv /\ Cached(cache) = {}
  OBVIOUS
<1>1. PICK pol \in Policies, f \in Prefetchers : cache = Created(pol, f)
  BY DEF Init
<1>2. pol \in AllPolicies /\ f \in AllPrefetchers
  BY ConfigAssumption
<1>3. /\ CacheOK(cache) /\ LastOK(cache) /\ cache.policy = pol /\ cache.pref = f
      /\ Cached(cache) = {} /\ Dirty(cache) = {}
  BY <1>1, <1>2, CreatedOK
<1> QED BY <1>3 DEF Init, IInv, DataInv

\* An access whose outcome has the effect AccessOK keeps the invariants and is a
\* step of the abstract write-back cache.
LEMMA CompleteInv ==
  ASSUME IInv, NEW o, NEW cmd \in Cmds, NEW b \in Blocks, Complete(o, cmd, b),
         CacheOK(o.c), SameConfig(cache, o.c)
  PROVE  IInv' /\ (DataInv /\ AccessOK(cache, o, cmd, b) =>
                     DataInv' /\ \E p \in Blocks : WB!Access(cmd, b, p))
<1>1. /\ cache' = o.c /\ running /\ running' = running
      /\ unsaved' = (unsaved \ (o.pwb \cup o.wb)) \cup Store(cmd, b)
  BY DEF Complete, Store
<1>2. IInv'
  BY <1>1 DEF IInv, SameConfig, Store
<1>3. ASSUME DataInv, AccessOK(cache, o, cmd, b)
      PROVE  DataInv' /\ \E p \in Blocks : WB!Access(cmd, b, p)
  <2>1. unsaved = Dirty(cache)
    BY <1>3 DEF DataInv
  <2>2. unsaved' = Dirty(o.c)
    BY <1>1, <1>3, <2>1 DEF AccessOK
  <2>3. DataInv'
    BY <1>1, <1>3, <2>2 DEF DataInv, AccessOK
  <2>4. PICK p \in Blocks :
          /\ Cached(o.c) \subseteq Cached(cache) \cup {b, p}
          /\ \A x \in Cached(cache) \ Cached(o.c) : SetOf(x) \in {SetOf(b), SetOf(p)}
    BY <1>3 DEF AccessOK
  <2>5. unsaved' = (unsaved \cap Cached(o.c)) \cup Store(cmd, b) /\ b \in Cached(o.c)
    BY <1>3, <2>1, <2>2 DEF AccessOK
  <2>6. Cached(cache)' = Cached(o.c)
    BY <1>1
  <2>7. WB!Access(cmd, b, p)
    BY <1>1, <2>4, <2>5, <2>6 DEF WB!Access, Store
  <2> QED BY <2>3, <2>7
<1> QED BY <1>2, <1>3

\* Every call of the cache's user keeps IInv; in a safe configuration it also
\* keeps DataInv and is a step of the abstract write-back cache.
LEMMA NextInv ==
  ASSUME IInv, Next
  PROVE  IInv' /\ (SafeConfig /\ DataInv => DataInv' /\ WB!Next)
<1>1. CacheOK(cache) /\ unsaved \subseteq Blocks /\ running \in BOOLEAN
  BY DEF IInv
<1>2. SafeConfig => SafePref(cache.pref)
  BY DEF IInv, SafeConfig
<1>3. DataInv => LastOK(cache) /\ unsaved = Dirty(cache)
  BY DEF DataInv
<1>4. \A cmd \in Cmds, b \in Blocks :
        (\E p \in Blocks : WB!Access(cmd, b, p)) => WB!Next
  BY DEF WB!Next, Cmds
<1>5. ASSUME NEW cmd \in Cmds, NEW b \in Blocks, AccessFastHit(cmd, b)
      PROVE  IInv' /\ (SafeConfig /\ DataInv => DataInv' /\ WB!Next)
  <2> DEFINE o == FastHit(cache, cmd, b)
  <2>1. b = cache.last /\ Complete(o, cmd, b) /\ ~o.segv
    BY <1>5 DEF AccessFastHit, Complete
  <2> HIDE DEF o
  <2>2. CacheOK(o.c) /\ SameConfig(cache, o.c) /\ (DataInv => AccessOK(cache, o, cmd, b))
    BY <1>1, <1>3, <2>1, FastHitOK DEF o
  <2> QED BY <1>4, <2>1, <2>2, CompleteInv
<1>6. ASSUME NEW cmd \in Cmds, NEW b \in Blocks, NEW r \in Draws(cache.policy),
             AccessSlowHit(cmd, b, r)
      PROVE  IInv' /\ (SafeConfig /\ DataInv => DataInv' /\ WB!Next)
  <2> DEFINE o == SlowHit(cache, cmd, b, r)
  <2>1. b # cache.last /\ Probe(cache, b) /\ Complete(o, cmd, b) /\ ~o.segv
    BY <1>6 DEF AccessSlowHit, Complete
  <2> HIDE DEF o
  <2>2. CacheOK(o.c) /\ SameConfig(cache, o.c) /\ (SafeConfig => AccessOK(cache, o, cmd, b))
    BY <1>1, <1>2, <2>1, SlowHitOK DEF o
  <2> QED BY <1>4, <2>1, <2>2, CompleteInv
<1>7. ASSUME NEW cmd \in Cmds, NEW b \in Blocks,
             NEW r \in Draws(cache.policy), NEW q \in Draws(cache.policy),
             AccessMiss(cmd, b, r, q)
      PROVE  IInv' /\ (SafeConfig /\ DataInv => DataInv' /\ WB!Next)
  <2> DEFINE o == Miss(cache, cmd, b, r, q)
  <2>1. b # cache.last /\ ~Probe(cache, b) /\ Complete(o, cmd, b) /\ ~o.segv
    BY <1>7 DEF AccessMiss, Complete
  <2> HIDE DEF o
  <2>2. CacheOK(o.c) /\ SameConfig(cache, o.c) /\ AccessOK(cache, o, cmd, b)
    BY <1>1, <2>1, MissOK DEF o
  <2> QED BY <1>4, <2>1, <2>2, CompleteInv
<1>8. ASSUME NEW cmd \in Cmds, NEW b \in Blocks,
             NEW r \in Draws(cache.policy), NEW q \in Draws(cache.policy),
             AccessSegv(cmd, b, r, q)
      PROVE  IInv' /\ (SafeConfig /\ DataInv => DataInv' /\ WB!Next)
  <2>1. running /\ running' = FALSE /\ cache' = cache /\ unsaved' = unsaved
    BY <1>8 DEF AccessSegv
  <2>2. Cached(cache)' = Cached(cache)
    BY <2>1
  <2>3. WB!Next
    BY <2>1, <2>2 DEF WB!Next, WB!Die
  <2> QED BY <2>1, <2>3 DEF IInv, DataInv
<1>9. CASE FlushAll
  <2>1. /\ running /\ running' = running /\ cache' = Flush(cache)
        /\ unsaved' = unsaved \ Dirty(cache)
    BY <1>9 DEF FlushAll
  <2>2. /\ CacheOK(cache') /\ SameConfig(cache, cache') /\ LastOK(cache')
        /\ Cached(cache') = {} /\ Dirty(cache') = {}
    BY <1>1, <2>1, FlushOK
  <2>3. IInv'
    BY <2>1, <2>2 DEF IInv, SameConfig
  <2>4. ASSUME DataInv PROVE DataInv' /\ WB!Next
    <3>1. unsaved' = {} /\ unsaved \subseteq Cached(cache)
      BY <1>3, <2>1, <2>4, DirtyIsCached
    <3>2. Cached(cache)' = {}
      BY <2>2
    <3>3. WB!Invalidate(Cached(cache))
      BY <2>1, <3>1, <3>2 DEF WB!Invalidate
    <3> QED BY <2>2, <3>1, <3>3 DEF DataInv, WB!Next
  <2> QED BY <2>3, <2>4
<1>10. ASSUME NEW b \in Blocks, FlushOne(b)
       PROVE  IInv' /\ (SafeConfig /\ DataInv => DataInv' /\ WB!Next)
  <2>1. /\ running /\ running' = running /\ cache' = FlushAddr(cache, b)
        /\ unsaved' = unsaved \ (Dirty(cache) \cap {b})
    BY <1>10 DEF FlushOne
  <2>2. /\ CacheOK(cache') /\ SameConfig(cache, cache') /\ (LastOK(cache) => LastOK(cache'))
        /\ Cached(cache') = Cached(cache) \ {b} /\ Dirty(cache') = Dirty(cache) \ {b}
    BY <1>1, <2>1, FlushAddrOK
  <2>3. IInv'
    BY <2>1, <2>2 DEF IInv, SameConfig
  <2>4. ASSUME DataInv PROVE DataInv' /\ WB!Next
    <3>1. unsaved' = unsaved \ {b} /\ unsaved' = Dirty(cache')
      BY <1>3, <2>1, <2>2, <2>4
    <3>2. Cached(cache)' = Cached(cache) \ {b}
      BY <2>2
    <3>3. WB!Invalidate({b})
      BY <2>1, <3>1, <3>2 DEF WB!Invalidate
    <3> QED BY <1>3, <2>2, <2>4, <3>1, <3>3 DEF DataInv, WB!Next
  <2> QED BY <2>3, <2>4
<1> QED BY <1>5, <1>6, <1>7, <1>8, <1>9, <1>10 DEF Next, AnyAccess

\* A step that changes nothing keeps the invariants.
LEMMA StutterInv == IInv /\ UNCHANGED vars => IInv' /\ (DataInv => DataInv')
BY DEF IInv, DataInv, vars

\* IInv is an invariant, with every policy and prefetcher.
LEMMA Inductive == Spec => []IInv
<1>1. Init => IInv
  BY InitInv
<1>2. IInv /\ [Next]_vars => IInv'
  BY NextInv, StutterInv
<1> QED BY <1>1, <1>2, PTL DEF Spec

\* In a safe configuration DataInv is an invariant too.
LEMMA DataInductive == SafeConfig => (Spec => [](IInv /\ DataInv))
<1> SUFFICES ASSUME SafeConfig PROVE Spec => [](IInv /\ DataInv)
  OBVIOUS
<1>1. Init => IInv /\ DataInv
  BY InitInv
<1>2. IInv /\ DataInv /\ [Next]_vars => (IInv /\ DataInv)'
  BY NextInv, StutterInv
<1> QED BY <1>1, <1>2, PTL DEF Spec

-----------------------------------------------------------------------------
\* Tags, frequencies, way positions, stride-table entries and last_tagset keep
\* their ranges over every sequence of cache_access, cache_flush and
\* cache_flush_addr.
THEOREM TypeCorrect == Spec => []TypeOK
<1>1. IInv => TypeOK
  BY DEF IInv, TypeOK, CacheOK
<1> QED BY <1>1, Inductive, PTL

\* The way lists that update_way_list maintains stay permutations of the ways, for
\* every geometry, policy and prefetcher.
THEOREM WayListsSound == Spec => []WayOrder
<1>1. IInv => WayOrder
  BY DEF IInv, WayOrder, CacheOK, SetOK, Perm
<1> QED BY <1>1, Inductive, PTL

\* No block is ever cached twice, for every geometry, policy and prefetcher: the
\* probe of cache_issue_prefetch and the search of cache_access suffice, though a
\* miss prefetches between its search and its refill.
THEOREM BlocksUnique == Spec => []NoDuplicateBlocks
<1>1. IInv => NoDuplicateBlocks
  BY DEF IInv, NoDuplicateBlocks, CacheOK, SetOK, Unique
<1> QED BY <1>1, Inductive, PTL

\* The fast-hit shortcut of cache_access is sound in every safe configuration:
\* last_blk holds the block last_tagset names.  The premise is needed: with the
\* stride prefetcher TLC finds a violation.
THEOREM LastBlkSound == SafeConfig => (Spec => []LastBlkCoherent)
<1> SUFFICES ASSUME SafeConfig PROVE Spec => []LastBlkCoherent
  OBVIOUS
<1>1. DataInv => LastBlkCoherent
  BY DEF DataInv, LastOK, LastBlkCoherent, Matches
<1>2. Spec => [](IInv /\ DataInv)
  BY DataInductive
<1> QED BY <1>1, <1>2, PTL

\* In every safe configuration the valid dirty blocks are exactly those written
\* since they were last handed to the next level, so cache_access,
\* cache_issue_prefetch and the flushes lose no write and repeat none.
THEOREM NoLostWrites == SafeConfig => (Spec => []DirtyIsUnsaved)
<1> SUFFICES ASSUME SafeConfig PROVE Spec => []DirtyIsUnsaved
  OBVIOUS
<1>1. DataInv => DirtyIsUnsaved
  BY DEF DataInv, DirtyIsUnsaved
<1>2. Spec => [](IInv /\ DataInv)
  BY DataInductive
<1> QED BY <1>1, <1>2, PTL

\* In every safe configuration the cache implements the abstract write-back
\* cache: each call maps to Access, Invalidate or Die, whatever way lists,
\* replacement policy and prefetch do.
THEOREM ImplementsWriteBack == SafeConfig => (Spec => WriteBackSpec)
<1> SUFFICES ASSUME SafeConfig PROVE Spec => WriteBackSpec
  OBVIOUS
<1>1. Init => WB!Init
  BY InitInv DEF Init, WB!Init
<1>2. IInv /\ DataInv /\ [Next]_vars => [WB!Next]_<<Cached(cache), unsaved, running>>
  <2>1. UNCHANGED vars => UNCHANGED <<Cached(cache), unsaved, running>>
    BY DEF vars
  <2> QED BY <2>1, NextInv
<1>3. Spec => [](IInv /\ DataInv)
  BY DataInductive
<1> QED BY <1>1, <1>2, <1>3, PTL DEF Spec, WriteBackSpec, WB!Spec

-----------------------------------------------------------------------------
(***************************************************************************)
(* What the order of the way lists means, for every geometry, policy and   *)
(* prefetcher: under LRU the block of a fast hit heads its list, and under *)
(* LRU and FIFO the invalid blocks are at the tail, so that no valid block *)
(* is replaced while an invalid one is left.                               *)
(*                                                                         *)
(* Both properties are inductive beside CacheOK: the prefetch that an      *)
(* access issues between its search and its reordering may move any block  *)
(* of the set, but it makes no block invalid (OrderOK), and the reordering *)
(* that follows starts from the list it left.                              *)
(***************************************************************************)

\* The invalid blocks of a set are behind its valid ones.
Ordered(S) ==
  \A v, w \in Ways : S.blk[v].valid /\ ~S.blk[w].valid => S.pos[v] < S.pos[w]

\* Going from cache c to cache n keeps every ordered set ordered and makes no
\* block invalid.
OrderOK(c, n) ==
  \A s \in Sets : /\ Ordered(c.sets[s]) => Ordered(n.sets[s])
                  /\ \A w \in Ways : c.sets[s].blk[w].valid => n.sets[s].blk[w].valid

\* Moving a way to the head of its list and making it valid, as refills and
\* LRU hits do, keeps the set ordered.
LEMMA RaiseOrdered ==
  ASSUME NEW S, Perm(S.pos), Ordered(S), NEW w \in Ways, NEW R,
         R.pos = ToHead(S.pos, w),
         \A v \in Ways : R.blk[v].valid <=> S.blk[v].valid \/ v = w
  PROVE  Ordered(R)
<1> SUFFICES ASSUME NEW v \in Ways, NEW u \in Ways, R.blk[v].valid, ~R.blk[u].valid
             PROVE  R.pos[v] < R.pos[u]
  BY DEF Ordered
<1>1. S.pos[u] \in Nat /\ S.pos[v] \in Nat /\ S.pos[w] \in Nat /\ u # w
  BY WaysNat DEF Perm
<1>2. S.pos[u] # S.pos[w]
  BY <1>1 DEF Perm
<1>3. /\ R.pos[v] = IF v = w THEN 0
                    ELSE IF S.pos[v] < S.pos[w] THEN S.pos[v] + 1 ELSE S.pos[v]
      /\ R.pos[u] = IF S.pos[u] < S.pos[w] THEN S.pos[u] + 1 ELSE S.pos[u]
  BY <1>1 DEF ToHead
<1>4. CASE v = w
  BY <1>1, <1>2, <1>3, <1>4
<1>5. CASE v # w
  <2>1. S.pos[v] < S.pos[u] /\ S.pos[v] # S.pos[w]
    BY <1>5 DEF Ordered, Perm
  <2> QED BY <1>1, <1>2, <1>3, <1>5, <2>1
<1> QED BY <1>4, <1>5

\* A refill under LRU or FIFO keeps every set ordered, whichever way it takes.
LEMMA ReplacedOrder ==
  ASSUME NEW c, CacheOK(c), c.policy \in {"LRU", "FIFO"}, NEW b \in Blocks,
         NEW w \in Ways, NEW d \in BOOLEAN
  PROVE  OrderOK(c, Replaced(c, b, w, d))
<1> DEFINE s == SetOf(b)
           S == c.sets[s]
           n == Replaced(c, b, w, d)
           R == Refill(c.policy, S, w, TagOf(b), d)
           B == [tag |-> TagOf(b), valid |-> TRUE, dirty |-> d, freq |-> 1 % FreqMod]
<1>1. s \in Sets /\ c.sets \in [Sets -> Set] /\ Perm(S.pos) /\ S.blk \in [Ways -> Block]
  BY BlockAddr DEF CacheOK, CacheType, SetOK, Set
<1>2. n.sets = [c.sets EXCEPT ![s] = R]
  BY DEF Replaced, CacheOK, CacheType
<1>3. R.pos = ToHead(S.pos, w) /\ R.blk = [S.blk EXCEPT ![w] = B]
  BY DEF Refill
<1>4. \A v \in Ways : R.blk[v].valid <=> S.blk[v].valid \/ v = w
  BY <1>1, <1>3
<1> HIDE DEF n, R, S
<1>5. Ordered(S) => Ordered(R)
  BY <1>1, <1>3, <1>4, RaiseOrdered
<1>6. \A u \in Sets : n.sets[u] = IF u = s THEN R ELSE c.sets[u]
  BY <1>1, <1>2
<1>7. OrderOK(c, n)
  BY <1>4, <1>5, <1>6 DEF OrderOK, S
<1> QED BY <1>7 DEF n

\* cache_issue_prefetch keeps every set ordered and makes no block invalid.
LEMMA IssuePrefetchOrder ==
  ASSUME NEW c, CacheOK(c), c.policy \in {"LRU", "FIFO"}, NEW p \in Blocks,
         NEW r \in Draws(c.policy), ~IssuePrefetch(c, p, r).segv
  PROVE  OrderOK(c, IssuePrefetch(c, p, r).c)
<1>1. CASE Probe(c, p)
  BY <1>1 DEF IssuePrefetch, NoPrefetch, OrderOK
<1>2. CASE ~Probe(c, p)
  <2> DEFINE S == c.sets[SetOf(p)]
             w == Victim(c.policy, S, r)
             n == Replaced(c, p, w, FALSE)
  <2>1. IssuePrefetch(c, p, r) = FetchAhead(c, p, r)
    BY <1>2 DEF IssuePrefetch
  <2>2. ~NoVictim(c.policy, S)
    BY <2>1 DEF FetchAhead, NoPrefetch
  <2>3. IssuePrefetch(c, p, r).c = n
    BY <2>1, <2>2 DEF FetchAhead, Replaced
  <2>4. SetOf(p) \in Sets /\ SetOK(S) /\ c.policy \in AllPolicies
    BY BlockAddr DEF CacheOK, CacheType
  <2>5. w \in Ways
    BY <2>4, VictimInWays DEF SetOK
  <2> HIDE DEF w
  <2> QED BY <2>3, <2>5, ReplacedOrder
<1> QED BY <1>1, <1>2

\* So does cache_prefetch_logic, with any prefetcher.
LEMMA PrefetchLogicOrder ==
  ASSUME NEW c, CacheOK(c), c.policy \in {"LRU", "FIFO"}, NEW b \in Blocks,
         NBlocks > 1, NEW r \in Draws(c.policy), ~PrefetchLogic(c, b, r).segv
  PROVE  OrderOK(c, PrefetchLogic(c, b, r).c)
<1> DEFINE pf == PrefetchLogic(c, b, r)
<1>1. CASE c.pref = "none"
  BY <1>1 DEF PrefetchLogic, NoPrefetch, OrderOK
<1>2. CASE c.pref = "next_line"
  <2> DEFINE p == (b + 1) % NBlocks
  <2>1. p \in Blocks
    BY NextLine
  <2>2. pf = IssuePrefetch(c, p, r) /\ ~pf.segv
    BY <1>2 DEF PrefetchLogic
  <2> HIDE DEF p, pf
  <2>3. OrderOK(c, pf.c)
    BY <2>1, <2>2, IssuePrefetchOrder
  <2> QED BY <2>3 DEF pf
<1>3. CASE c.pref = "stride"
  <2> DEFINE i == StrideIndex(b)
             e == c.table[i]
             m == Train(e, b)
             trained == [c EXCEPT !.table[i] = m]
             p == (b + m.stride) % NBlocks
  <2>1. i \in Entries /\ e \in StrideEntry
    BY StrideAssumption DEF CacheOK, CacheType
  <2>2. m \in StrideEntry
    BY <2>1, TrainOK
  <2>3. pf = IF StrideDetected(e, m) THEN IssuePrefetch(trained, p, r)
             ELSE NoPrefetch(trained)
    BY <1>3 DEF PrefetchLogic, StridePrefetch
  <2>4. ~pf.segv
    OBVIOUS
  <2> HIDE DEF i, m, pf
  <2>5. /\ trained.sets = c.sets /\ trained.policy = c.policy
        /\ trained \in CacheType
    BY <2>1, <2>2 DEF CacheOK, CacheType
  <2> HIDE DEF trained
  <2>6. CacheOK(trained)
    BY <2>5 DEF CacheOK
  <2>7. CASE StrideDetected(e, m)
    <3>1. m.stride \in Blocks /\ m.stride # 0
      BY <2>2, <2>7 DEF StrideEntry, StrideDetected
    <3>2. p \in Blocks
      BY <3>1, StrideTarget
    <3> HIDE DEF p
    <3>3. OrderOK(trained, pf.c)
      BY <2>3, <2>4, <2>5, <2>6, <2>7, <3>2, IssuePrefetchOrder
    <3> QED BY <2>5, <3>3 DEF OrderOK, pf
  <2>8. CASE ~StrideDetected(e, m)
    BY <2>3, <2>5, <2>8 DEF NoPrefetch, OrderOK, pf
  <2> QED BY <2>7, <2>8
<1>4. c.pref \in AllPrefetchers
  BY DEF CacheOK, CacheType
<1> QED BY <1>1, <1>2, <1>3, <1>4 DEF AllPrefetchers

\* Counting a use and marking a block dirty leave lists and valid bits alone.
LEMMA MarkOrder ==
  ASSUME NEW c, CacheOK(c), NEW s \in Sets, NEW w \in Ways, NEW cmd \in Cmds
  PROVE  /\ \A u \in Sets : /\ Count(c, s, w).sets[u].pos = c.sets[u].pos
                            /\ MarkDirty(c, s, w, cmd).sets[u].pos = c.sets[u].pos
         /\ OrderOK(c, Count(c, s, w)) /\ OrderOK(c, MarkDirty(c, s, w, cmd))
<1>1. /\ c \in CacheType /\ c.sets \in [Sets -> Set]
      /\ \A u \in Sets : c.sets[u] = [pos |-> c.sets[u].pos, blk |-> c.sets[u].blk]
  BY DEF CacheOK, CacheType, Set
<1>2. \A u \in Sets : /\ Count(c, s, w).sets[u].pos = c.sets[u].pos
                      /\ MarkDirty(c, s, w, cmd).sets[u].pos = c.sets[u].pos
  BY <1>1 DEF Count, MarkDirty, CacheType, Set
<1>3. SameBlocks(c, Count(c, s, w)) /\ SameBlocks(c, MarkDirty(c, s, w, cmd))
  BY CountOK, MarkDirtyOK
<1>4. ASSUME NEW n, SameBlocks(c, n), \A u \in Sets : n.sets[u].pos = c.sets[u].pos
      PROVE  OrderOK(c, n)
  BY <1>4 DEF SameBlocks, OrderOK, Ordered
<1> QED BY <1>2, <1>3, <1>4

\* The reordering of a hit puts the way at the head under LRU, and keeps an
\* ordered set ordered if the way is valid.
LEMMA PromoteOrder ==
  ASSUME NEW c, CacheOK(c), NEW s \in Sets, NEW w \in Ways
  PROVE  /\ c.policy = "LRU" => Promote(c, s, w).sets[s].pos[w] = 0
         /\ c.sets[s].blk[w].valid => OrderOK(c, Promote(c, s, w))
<1>1. CASE c.policy = "LRU"
  <2> DEFINE S == c.sets[s]
             R == [S EXCEPT !.pos = ToHead(@, w)]
             n == Promote(c, s, w)
  <2>1. c.sets \in [Sets -> Set] /\ Perm(S.pos) /\ S \in Set
    BY DEF CacheOK, CacheType, SetOK
  <2>2. n.sets = [c.sets EXCEPT ![s] = R]
    BY <1>1 DEF Promote, CacheOK, CacheType
  <2>3. R.pos = ToHead(S.pos, w) /\ R.blk = S.blk
    BY <2>1 DEF Set
  <2>4. ToHead(S.pos, w)[w] = 0
    BY DEF ToHead
  <2> HIDE DEF n, R, S
  <2>5. \A u \in Sets : n.sets[u] = IF u = s THEN R ELSE c.sets[u]
    BY <2>1, <2>2
  <2>6. S.blk[w].valid /\ Ordered(S) => Ordered(R)
    <3> SUFFICES ASSUME S.blk[w].valid, Ordered(S) PROVE Ordered(R)
      OBVIOUS
    <3>1. \A v \in Ways : R.blk[v].valid <=> S.blk[v].valid \/ v = w
      BY <2>3
    <3> QED BY <2>1, <2>3, <3>1, RaiseOrdered
  <2>7. S.blk[w].valid => OrderOK(c, n)
    BY <2>3, <2>5, <2>6 DEF OrderOK, S
  <2>8. n.sets[s].pos[w] = 0
    BY <2>3, <2>4, <2>5
  <2> QED BY <2>7, <2>8 DEF n, S
<1>2. CASE c.policy # "LRU"
  BY <1>2 DEF Promote, OrderOK
<1> QED BY <1>1, <1>2

-----------------------------------------------------------------------------
(* cache_access and the flushes *)

\* FastHitIsMRU, of a cache.
HitAtHead(c) ==
  c.policy = "LRU" /\ c.lastBlk # NoBlk => c.sets[SetOf(c.last)].pos[c.lastBlk] = 0

\* InvalidAtTail, of a cache.
AllOrdered(c) ==
  c.policy \in {"LRU", "FIFO"} => \A s \in Sets : Ordered(c.sets[s])

OrderInv(c) == HitAtHead(c) /\ AllOrdered(c)

\* A fast hit moves nothing.
LEMMA FastHitOrder ==
  ASSUME NEW c, CacheOK(c), OrderInv(c), NEW b \in Blocks, b = c.last, NEW cmd \in Cmds,
         NEW o, o = FastHit(c, cmd, b), ~o.segv
  PROVE  OrderInv(o.c)
<1> DEFINE s == SetOf(b)
           w == c.lastBlk
           c1 == Count(c, s, w)
           c2 == MarkDirty(c1, s, w, cmd)
<1>1. w # NoBlk
  BY DEF FastHit, Segv
<1>2. s \in Sets /\ w \in Ways
  BY <1>1, BlockAddr DEF CacheOK, CacheType
<1>3. o.c = c2
  BY <1>1 DEF FastHit, Outcome, NoPrefetch
<1> HIDE DEF s, w, c1, c2
<1>4. /\ CacheOK(c1) /\ SameBlocks(c, c1) /\ OrderOK(c, c1)
      /\ \A u \in Sets : c1.sets[u].pos = c.sets[u].pos
  BY <1>2, CountOK, MarkOrder DEF c1
<1>5. /\ SameBlocks(c1, c2) /\ OrderOK(c1, c2)
      /\ \A u \in Sets : c2.sets[u].pos = c1.sets[u].pos
  BY <1>2, <1>4, MarkDirtyOK, MarkOrder DEF c2
<1>6. HitAtHead(c2)
  BY <1>2, <1>4, <1>5 DEF HitAtHead, OrderInv, SameBlocks, s
<1>7. AllOrdered(c2)
  BY <1>4, <1>5 DEF AllOrdered, OrderInv, OrderOK, SameBlocks
<1> QED BY <1>3, <1>6, <1>7 DEF OrderInv

\* A slow hit ends at the head of its list under LRU, though its prefetch came
\* before; the way it found is still valid then, even when the prefetch
\* refilled it.
LEMMA SlowHitOrder ==
  ASSUME NEW c, CacheOK(c), OrderInv(c), NEW b \in Blocks, b # c.last, Probe(c, b),
         NEW cmd \in Cmds, NEW r \in Draws(c.policy), NEW o, o = SlowHit(c, cmd, b, r),
         ~o.segv
  PROVE  OrderInv(o.c)
<1> DEFINE s  == SetOf(b)
           t  == TagOf(b)
           w  == Found(c.sets[s], t)
           c1 == Count(c, s, w)
           pf == PrefetchLogic(c1, b, r)
           c2 == MarkDirty(pf.c, s, w, cmd)
           c3 == Promote(c2, s, w)
           c4 == Remember(c3, b, w)
<1>1. s \in Sets /\ w \in Ways /\ c.sets[s].blk[w].valid
  BY BlockAddr, FoundMatches DEF Matches
<1>2. NBlocks > 1
  BY GeometryAssumption DEF CacheOK, CacheType, Blocks, NBlocks
<1>3. o = IF pf.segv THEN Segv(c) ELSE Outcome(c4, pf, {}, {})
  BY DEF SlowHit
<1>4. ~pf.segv
  BY <1>3 DEF Segv
<1>5. o.c = c4
  BY <1>3, <1>4 DEF Outcome
<1> HIDE DEF s, t, w, c1, pf, c2, c3, c4
<1>6. CacheOK(c1) /\ SameBlocks(c, c1) /\ OrderOK(c, c1)
  BY <1>1, CountOK, MarkOrder DEF c1
<1>7. r \in Draws(c1.policy) /\ c1.policy = c.policy
  BY <1>6 DEF SameBlocks
<1>8. PICK p \in Blocks : Ahead(c1, pf, p)
  BY <1>2, <1>4, <1>6, <1>7, PrefetchLogicOK DEF pf, PrefetchOK
<1>9. CacheOK(pf.c) /\ pf.c.policy = c.policy
  BY <1>7, <1>8 DEF Ahead
<1>10. CacheOK(c2) /\ SameBlocks(pf.c, c2) /\ OrderOK(pf.c, c2)
  BY <1>1, <1>9, MarkDirtyOK, MarkOrder DEF c2
<1>11. CacheOK(c3) /\ SameBlocks(c2, c3)
  BY <1>1, <1>10, PromoteOK DEF c3
<1>12. c4.sets = c3.sets /\ c4.last = b /\ c4.lastBlk = w /\ c4.policy = c.policy
       /\ c2.policy = c.policy
  BY <1>1, <1>9, <1>10, <1>11, RememberOK DEF c4, SameConfig, SameBlocks
<1>13. HitAtHead(c4)
  BY <1>1, <1>10, <1>12, PromoteOrder DEF HitAtHead, c3, s
<1>14. AllOrdered(c4)
  <2> SUFFICES ASSUME c.policy \in {"LRU", "FIFO"}, NEW u \in Sets
               PROVE  Ordered(c4.sets[u])
    BY <1>12 DEF AllOrdered
  <2>1. OrderOK(c1, pf.c)
    BY <1>2, <1>4, <1>6, <1>7, PrefetchLogicOrder DEF pf
  <2>2. c2.sets[s].blk[w].valid
    BY <1>1, <1>6, <1>10, <2>1 DEF OrderOK
  <2>3. OrderOK(c2, c3)
    BY <1>1, <1>10, <2>2, PromoteOrder DEF c3
  <2>4. Ordered(c.sets[u])
    BY DEF OrderInv, AllOrdered
  <2> QED BY <1>6, <1>10, <1>12, <2>1, <2>3, <2>4 DEF OrderOK
<1> QED BY <1>5, <1>13, <1>14 DEF OrderInv

\* A miss forgets the last block to hit and refills at the head.
LEMMA MissOrder ==
  ASSUME NEW c, CacheOK(c), OrderInv(c), NEW b \in Blocks, b # c.last, ~Probe(c, b),
         NEW cmd \in Cmds, NEW r \in Draws(c.policy), NEW q \in Draws(c.policy),
         NEW o, o = Miss(c, cmd, b, r, q), ~o.segv
  PROVE  OrderInv(o.c)
<1> DEFINE s  == SetOf(b)
           pf == PrefetchLogic(c, b, r)
           S  == pf.c.sets[s]
           w  == Victim(c.policy, S, q)
           d  == (cmd = "Write")
           f  == Forget(pf.c)
           n  == Replaced(f, b, w, d)
<1>1. NBlocks > 1
  BY GeometryAssumption DEF CacheOK, CacheType, Blocks, NBlocks
<1>2. o = IF pf.segv \/ NoVictim(c.policy, S) THEN Segv(c)
          ELSE Outcome([f EXCEPT !.sets[s] = Refill(c.policy, S, w, TagOf(b), d)],
                       pf, WriteBack(S, s, w), {b})
  BY DEF Miss
<1>3. ~pf.segv /\ ~NoVictim(c.policy, S)
  BY <1>2 DEF Segv
<1>4. o.c = [f EXCEPT !.sets[s] = Refill(c.policy, S, w, TagOf(b), d)]
  BY <1>2, <1>3 DEF Outcome
<1> HIDE DEF pf
<1>5. PICK p \in Blocks : Ahead(c, pf, p)
  BY <1>1, <1>3, PrefetchLogicOK DEF pf, PrefetchOK
<1>6. CacheOK(pf.c) /\ pf.c.policy = c.policy
  BY <1>5 DEF Ahead
<1>7. CacheOK(f) /\ f.policy = c.policy /\ f.sets = pf.c.sets /\ f.lastBlk = NoBlk
  BY <1>6, ForgetOK DEF SameConfig
<1> HIDE DEF f
<1>8. o.c = n
  BY <1>4, <1>7 DEF Replaced
<1>9. w \in Ways /\ d \in BOOLEAN
  <2>1. s \in Sets /\ c.policy \in AllPolicies
    BY BlockAddr DEF CacheOK, CacheType
  <2>2. SetOK(S)
    BY <1>6, <2>1 DEF CacheOK
  <2> QED BY <2>1, <2>2, VictimInWays DEF SetOK
<1>10. n.lastBlk = NoBlk /\ n.policy = c.policy
  BY <1>7 DEF Replaced, CacheOK, CacheType
<1> HIDE DEF w, S, d, n
<1>11. HitAtHead(n)
  BY <1>10 DEF HitAtHead
<1>12. AllOrdered(n)
  <2> SUFFICES ASSUME c.policy \in {"LRU", "FIFO"}, NEW u \in Sets
               PROVE  Ordered(n.sets[u])
    BY <1>10 DEF AllOrdered
  <2>1. OrderOK(c, pf.c)
    BY <1>1, <1>3, PrefetchLogicOrder DEF pf
  <2>2. OrderOK(f, n)
    BY <1>7, <1>9, ReplacedOrder DEF n
  <2>3. Ordered(c.sets[u])
    BY DEF OrderInv, AllOrdered
  <2> QED BY <1>7, <2>1, <2>2, <2>3 DEF OrderOK
<1> QED BY <1>8, <1>11, <1>12 DEF OrderInv

\* cache_flush leaves no valid block.
LEMMA FlushOrder ==
  ASSUME NEW c, CacheOK(c)
  PROVE  OrderInv(Flush(c))
<1> DEFINE n == Flush(c)
           R(s) == [c.sets[s] EXCEPT !.blk = [w \in Ways |->
                      [c.sets[s].blk[w] EXCEPT !.valid = FALSE]]]
<1>1. n = [Forget(c) EXCEPT !.sets = [s \in Sets |-> R(s)]]
  BY DEF Flush
<1>2. \A s \in Sets : \A w \in Ways : ~R(s).blk[w].valid
  BY DEF CacheOK, SetOK, Set, Block
<1> HIDE DEF R
<1>3. CacheOK(Forget(c)) /\ Forget(c).lastBlk = NoBlk
  BY ForgetOK
<1>4. n.sets = [s \in Sets |-> R(s)] /\ n.lastBlk = NoBlk
  <2> HIDE DEF Forget
  <2> QED BY <1>1, <1>3 DEF CacheOK, CacheType
<1> HIDE DEF n
<1>5. OrderInv(n)
  BY <1>2, <1>4 DEF OrderInv, HitAtHead, AllOrdered, Ordered
<1> QED BY <1>5 DEF n

\* cache_flush_addr moves the block it invalidates behind all others.
LEMMA FlushAddrOrder ==
  ASSUME NEW c, CacheOK(c), OrderInv(c), NEW b \in Blocks
  PROVE  OrderInv(FlushAddr(c, b))
<1>1. CASE ~Probe(c, b)
  BY <1>1 DEF FlushAddr
<1>2. CASE Probe(c, b)
  <2> DEFINE s == SetOf(b)
             S == c.sets[s]
             w == Found(S, TagOf(b))
             f == Forget(c)
             R == [pos |-> ToTail(S.pos, w), blk |-> [S.blk EXCEPT ![w].valid = FALSE]]
             n == FlushAddr(c, b)
  <2>1. s \in Sets /\ w \in Ways
    BY <1>2, BlockAddr, FoundMatches DEF Matches
  <2>2. Perm(S.pos) /\ S.blk \in [Ways -> Block] /\ c.sets \in [Sets -> Set]
    BY <2>1 DEF CacheOK, CacheType, SetOK, Set
  <2>3. n = [f EXCEPT !.sets[s] = R]
    BY <1>2 DEF FlushAddr
  <2> HIDE DEF w
  <2>4. \A v \in Ways : R.blk[v].valid <=> S.blk[v].valid /\ v # w
    BY <2>1, <2>2 DEF Block
  <2>5. R.pos = ToTail(S.pos, w) /\ Perm(R.pos)
    BY <2>1, <2>2, ToTailPerm
  <2> HIDE DEF R, f, n
  <2>6. CacheOK(f) /\ f.policy = c.policy /\ f.sets = c.sets /\ f.lastBlk = NoBlk
    BY ForgetOK DEF f, SameConfig
  <2>7. n.sets = [c.sets EXCEPT ![s] = R] /\ n.lastBlk = NoBlk /\ n.policy = c.policy
    BY <2>3, <2>6 DEF CacheOK, CacheType
  <2>8. Ordered(S) => Ordered(R)
    <3> SUFFICES ASSUME Ordered(S), NEW v \in Ways, NEW u \in Ways,
                        R.blk[v].valid, ~R.blk[u].valid
                 PROVE  R.pos[v] < R.pos[u]
      BY DEF Ordered
    <3>1. /\ S.pos[u] \in Nat /\ S.pos[v] \in Nat /\ S.pos[w] \in Nat
          /\ S.pos[v] < Assoc /\ v # w /\ S.blk[v].valid /\ S.pos[v] # S.pos[w]
      BY <2>1, <2>2, <2>4, WaysNat DEF Perm
    <3>2. \A x \in Ways : R.pos[x] = IF x = w THEN Assoc - 1
                                     ELSE IF S.pos[x] > S.pos[w] THEN S.pos[x] - 1
                                     ELSE S.pos[x]
      BY <2>5 DEF ToTail
    <3>3. CASE u = w
      <4>1. R.pos[v] # R.pos[u] /\ R.pos[v] \in Nat /\ R.pos[v] < Assoc
        BY <2>5, <3>1, <3>3, WaysNat DEF Perm
      <4> QED BY <3>2, <3>3, <4>1, GeometryAssumption
    <3>4. CASE u # w
      <4>1. S.pos[v] < S.pos[u] /\ S.pos[u] # S.pos[w]
        BY <2>1, <2>2, <2>4, <3>1, <3>4 DEF Ordered, Perm
      <4> QED BY <3>1, <3>2, <3>4, <4>1
    <3> QED BY <3>3, <3>4
  <2>9. \A u \in Sets : n.sets[u] = IF u = s THEN R ELSE c.sets[u]
    BY <2>1, <2>2, <2>7
  <2>10. OrderInv(n)
    BY <2>7, <2>8, <2>9 DEF OrderInv, HitAtHead, AllOrdered, S
  <2> QED BY <2>10 DEF n
<1> QED BY <1>1, <1>2

-----------------------------------------------------------------------------
\* The order of the way lists is kept by every call of the cache's user.
LEMMA OrderInvariance == Spec => []OrderInv(cache)
<1>1. Init => OrderInv(cache)
  BY DEF Init, Created, OrderInv, HitAtHead, AllOrdered, Ordered
<1>2. IInv /\ OrderInv(cache) /\ [Next]_vars => OrderInv(cache)'
  <2> SUFFICES ASSUME IInv, OrderInv(cache), [Next]_vars PROVE OrderInv(cache')
    OBVIOUS
  <2>0. CacheOK(cache)
    BY DEF IInv
  <2>1. ASSUME NEW cmd \in Cmds, NEW b \in Blocks, AccessFastHit(cmd, b)
        PROVE  OrderInv(cache')
    BY <2>0, <2>1, FastHitOrder DEF AccessFastHit, Complete
  <2>2. ASSUME NEW cmd \in Cmds, NEW b \in Blocks, NEW r \in Draws(cache.policy),
               AccessSlowHit(cmd, b, r)
        PROVE  OrderInv(cache')
    BY <2>0, <2>2, SlowHitOrder DEF AccessSlowHit, Complete
  <2>3. ASSUME NEW cmd \in Cmds, NEW b \in Blocks,
               NEW r \in Draws(cache.policy), NEW q \in Draws(cache.policy),
               AccessMiss(cmd, b, r, q)
        PROVE  OrderInv(cache')
    BY <2>0, <2>3, MissOrder DEF AccessMiss, Complete
  <2>4. ASSUME NEW cmd \in Cmds, NEW b \in Blocks,
               NEW r \in Draws(cache.policy), NEW q \in Draws(cache.policy),
               AccessSegv(cmd, b, r, q)
        PROVE  OrderInv(cache')
    BY <2>4 DEF AccessSegv
  <2>5. CASE FlushAll
    BY <2>0, <2>5, FlushOrder DEF FlushAll
  <2>6. ASSUME NEW b \in Blocks, FlushOne(b) PROVE OrderInv(cache')
    BY <2>0, <2>6, FlushAddrOrder DEF FlushOne
  <2>7. CASE UNCHANGED vars
    BY <2>7 DEF vars
  <2> QED BY <2>1, <2>2, <2>3, <2>4, <2>5, <2>6, <2>7 DEF Next, AnyAccess
<1> QED BY <1>1, <1>2, Inductive, PTL DEF Spec

\* cache_fast_hit may leave the way list alone, as its comment says: under LRU
\* the block that hit last heads its list, for every geometry and prefetcher.
THEOREM FastHitsAreMRU == Spec => []FastHitIsMRU
<1>1. OrderInv(cache) => FastHitIsMRU
  BY DEF OrderInv, HitAtHead, FastHitIsMRU
<1> QED BY <1>1, OrderInvariance, PTL

\* Under LRU and FIFO a miss or a prefetch replaces no valid block while its
\* set has an invalid one, after any sequence of accesses and flushes, for
\* every geometry and prefetcher.
THEOREM InvalidBlocksFirst == Spec => []InvalidAtTail
<1>1. OrderInv(cache) => InvalidAtTail
  BY DEF OrderInv, AllOrdered, Ordered, InvalidAtTail
<1> QED BY <1>1, OrderInvariance, PTL

-----------------------------------------------------------------------------
(***************************************************************************)
(* The refinement of StackCache.  Shows relates a set to its sequence of   *)
(* tags; it is shown first for the operations on sets, then for caches.    *)
(***************************************************************************)

\* Sequence st is what the way list of S shows up to its first invalid block.
Shows(S, st) ==
  /\ st \in Seq(Tags) /\ Len(st) <= Assoc
  /\ \A w \in Ways : /\ S.blk[w].valid <=> S.pos[w] < Len(st)
                     /\ S.blk[w].valid => st[S.pos[w] + 1] = S.blk[w].tag

\* Each place of a way list is taken by one way.
LEMMA Places ==
  ASSUME NEW S, SetOK(S)
  PROVE  /\ Assoc \in Nat /\ \A w \in Ways : S.pos[w] \in Nat /\ S.pos[w] < Assoc
         /\ \A i \in Nat : i < Assoc => \E w \in Ways : S.pos[w] = i
         /\ \A v, w \in Ways : S.pos[v] = S.pos[w] => v = w
BY WaysNat, GeometryAssumption DEF SetOK, Perm

\* An ordered set shows its stack.
LEMMA StackShown ==
  ASSUME NEW S, SetOK(S), Ordered(S)
  PROVE  Shows(S, Stack(S))
<1> DEFINE valid(w) == S.blk[w].valid
           Len0(k) == \A w \in Ways : valid(w) <=> S.pos[w] < k
           n == CHOOSE k \in 0 .. Assoc : Len0(k)
           At(i) == CHOOSE w \in Ways : S.pos[w] = i - 1
           st == [i \in 1 .. n |-> S.blk[At(i)].tag]
<1>1. /\ Perm(S.pos) /\ S.blk \in [Ways -> Block] /\ Assoc \in Nat
      /\ \A w \in Ways : S.pos[w] \in Nat /\ S.pos[w] < Assoc
  BY WaysNat, GeometryAssumption DEF SetOK, Set, Perm
<1>2. Stack(S) = st
  BY DEF Stack
<1>3. \E k \in 0 .. Assoc : Len0(k)
  <2> DEFINE Invalid == {S.pos[w] : w \in {v \in Ways : ~valid(v)}}
  <2>1. CASE Invalid = {}
    <3>1. \A w \in Ways : valid(w)
      BY <2>1
    <3> QED BY <1>1, <3>1
  <2>2. CASE Invalid # {}
    <3>1. Invalid \in SUBSET Nat
      BY <1>1
    <3>2. PICK k \in Invalid : \A j \in Invalid : k <= j
      BY <2>2, <3>1, LeastNat
    <3>3. PICK u \in Ways : ~valid(u) /\ S.pos[u] = k
      BY <3>2
    <3>4. ASSUME NEW w \in Ways PROVE valid(w) <=> S.pos[w] < k
      <4>1. ASSUME valid(w) PROVE S.pos[w] < k
        BY <3>3, <4>1 DEF Ordered
      <4>2. ASSUME ~valid(w) PROVE k <= S.pos[w]
        BY <3>2, <4>2
      <4> QED BY <1>1, <3>3, <4>1, <4>2
    <3>5. k \in 0 .. Assoc
      BY <1>1, <3>3
    <3> QED BY <3>4, <3>5
  <2> QED BY <2>1, <2>2
<1>4. n \in 0 .. Assoc /\ Len0(n)
  BY <1>3
<1> HIDE DEF n
<1>5. \A i \in 1 .. n : At(i) \in Ways /\ S.pos[At(i)] = i - 1
  <2> SUFFICES ASSUME NEW i \in 1 .. n PROVE \E w \in Ways : S.pos[w] = i - 1
    OBVIOUS
  <2>1. i - 1 \in Ways
    BY <1>1, <1>4, WaysNat
  <2> QED BY <1>1, <2>1 DEF Perm
<1>6. ASSUME NEW w \in Ways, valid(w) PROVE S.pos[w] + 1 \in 1 .. n /\ At(S.pos[w] + 1) = w
  <2>1. S.pos[w] + 1 \in 1 .. n
    BY <1>1, <1>4, <1>6
  <2>2. At(S.pos[w] + 1) \in Ways /\ S.pos[At(S.pos[w] + 1)] = (S.pos[w] + 1) - 1
    BY <1>5, <2>1
  <2>3. (S.pos[w] + 1) - 1 = S.pos[w]
    BY <1>1
  <2> HIDE DEF At
  <2> QED BY <1>1, <2>1, <2>2, <2>3 DEF Perm
<1>7. \A i \in 1 .. n : S.blk[At(i)].tag \in Tags
  BY <1>1, <1>5 DEF Block
<1> HIDE DEF At
<1>8. st \in Seq(Tags) /\ Len(st) = n
  BY <1>4, <1>7
<1>9. \A w \in Ways : valid(w) => st[S.pos[w] + 1] = S.blk[w].tag
  BY <1>6
<1> HIDE DEF st
<1> QED BY <1>2, <1>4, <1>8, <1>9 DEF Shows

\* A set shows one sequence only.
LEMMA ShownOnce ==
  ASSUME NEW S, SetOK(S), NEW st, NEW su, Shows(S, st), Shows(S, su)
  PROVE  st = su
<1>1. /\ Perm(S.pos) /\ Assoc \in Nat
      /\ \A i \in Nat : i < Assoc => \E w \in Ways : S.pos[w] = i
      /\ \A w \in Ways : S.pos[w] \in Nat
  BY WaysNat, GeometryAssumption DEF SetOK, Perm
<1>2. /\ st \in Seq(Tags) /\ su \in Seq(Tags) /\ Len(st) \in Nat /\ Len(su) \in Nat
      /\ Len(st) <= Assoc /\ Len(su) <= Assoc
  BY DEF Shows
<1>3. Len(st) = Len(su)
  <2>1. CASE Len(st) < Len(su)
    <3>1. PICK w \in Ways : S.pos[w] = Len(st)
      BY <1>1, <1>2, <2>1
    <3> QED BY <1>2, <2>1, <3>1 DEF Shows
  <2>2. CASE Len(su) < Len(st)
    <3>1. PICK w \in Ways : S.pos[w] = Len(su)
      BY <1>1, <1>2, <2>2
    <3> QED BY <1>2, <2>2, <3>1 DEF Shows
  <2> QED BY <1>2, <2>1, <2>2
<1>4. ASSUME NEW i \in 1 .. Len(st) PROVE st[i] = su[i]
  <2>1. PICK w \in Ways : S.pos[w] = i - 1
    BY <1>1, <1>2
  <2>2. S.blk[w].valid
    BY <1>2, <2>1 DEF Shows
  <2> QED BY <1>2, <2>1, <2>2 DEF Shows
<1> QED BY <1>2, <1>3, <1>4

\* The stack holds the tags that a search of the set finds.
LEMMA ShownTags ==
  ASSUME NEW S, SetOK(S), NEW st, Shows(S, st), NEW t
  PROVE  SC!Contains(st, t) <=> Matches(S, t) # {}
<1>1. /\ \A i \in Nat : i < Assoc => \E w \in Ways : S.pos[w] = i
      /\ \A w \in Ways : S.pos[w] \in Nat
      /\ st \in Seq(Tags) /\ Len(st) \in Nat /\ Len(st) <= Assoc /\ Assoc \in Nat
  <2>1. st \in Seq(Tags) /\ Len(st) <= Assoc
    BY DEF Shows
  <2>2. Len(st) \in Nat
    BY <2>1
  <2> QED BY <2>1, <2>2, Places
<1>2. ASSUME NEW i \in 1 .. Len(st), st[i] = t PROVE Matches(S, t) # {}
  <2>1. PICK w \in Ways : S.pos[w] = i - 1
    BY <1>1
  <2>2. S.blk[w].valid /\ st[i] = S.blk[w].tag
    BY <1>1, <2>1 DEF Shows
  <2> QED BY <1>2, <2>2 DEF Matches
<1>3. ASSUME NEW w \in Matches(S, t) PROVE \E i \in 1 .. Len(st) : st[i] = t
  <2>1. w \in Ways /\ S.blk[w].valid /\ S.blk[w].tag = t
    BY DEF Matches
  <2>2. S.pos[w] + 1 \in 1 .. Len(st) /\ st[S.pos[w] + 1] = t
    BY <1>1, <2>1 DEF Shows
  <2> QED BY <2>2
<1> QED BY <1>2, <1>3 DEF SC!Contains

\* Removing a tag closes the gap at the position of its way.
LEMMA ShownWithout ==
  ASSUME NEW S, SetOK(S), NEW st, Shows(S, st), NEW t, NEW w \in Matches(S, t),
         NEW su, su = SC!Without(st, t)
  PROVE  /\ su \in Seq(Tags) /\ Len(su) = Len(st) - 1
         /\ \A i \in 1 .. Len(su) : su[i] = IF i <= S.pos[w] THEN st[i] ELSE st[i + 1]
<1> DEFINE n == Len(st)
           k == S.pos[w] + 1
<1>1. w \in Ways /\ S.blk[w].valid /\ S.blk[w].tag = t
  BY DEF Matches
<1>2. /\ S.pos[w] \in Nat /\ st \in Seq(Tags) /\ n \in Nat /\ n <= Assoc /\ Assoc \in Nat
      /\ k \in 1 .. n /\ st[k] = t
  <2>1. S.pos[w] \in Nat /\ Assoc \in Nat
    BY <1>1, Places
  <2>2. st \in Seq(Tags) /\ n <= Assoc
    BY DEF Shows
  <2>3. n \in Nat
    BY <2>2
  <2>4. S.pos[w] < n /\ st[k] = t
    BY <1>1 DEF Shows
  <2>5. k \in 1 .. n
    BY <2>1, <2>3, <2>4
  <2> QED BY <2>1, <2>2, <2>3, <2>4, <2>5
<1>3. ASSUME NEW i \in 1 .. n, st[i] = t PROVE i = k
  <2>1. PICK v \in Ways : S.pos[v] = i - 1
    <3>1. i - 1 \in Nat /\ i - 1 < Assoc
      BY <1>2
    <3> QED BY <3>1, Places
  <2>2. S.blk[v].valid /\ S.blk[v].tag = t
    BY <1>2, <1>3, <2>1 DEF Shows
  <2>3. v = w
    BY <1>1, <2>2 DEF SetOK, Unique
  <2> QED BY <1>2, <2>1, <2>3
<1> HIDE DEF k
<1>4. (CHOOSE i \in 1 .. n : st[i] = t) = k
  BY <1>2, <1>3
<1>5. SC!Contains(st, t)
  BY <1>2 DEF SC!Contains
<1>6. su = SubSeq(st, 1, k - 1) \o SubSeq(st, k + 1, n)
  BY <1>4, <1>5 DEF SC!Without, SC!RemoveAt
<1> DEFINE a == SubSeq(st, 1, k - 1)
           z == SubSeq(st, k + 1, n)
<1>7. a \in Seq(Tags) /\ Len(a) = k - 1 /\ \A i \in 1 .. k - 1 : a[i] = st[i]
  BY <1>2
<1>8. z \in Seq(Tags) /\ Len(z) = n - k /\ \A i \in 1 .. n - k : z[i] = st[k + i]
  BY <1>2
<1> HIDE DEF a, z
<1>9. su = a \o z
  BY <1>6 DEF a, z
<1>10. su \in Seq(Tags) /\ Len(su) = n - 1
  BY <1>2, <1>7, <1>8, <1>9
<1>11. ASSUME NEW i \in 1 .. n - 1 PROVE su[i] = IF i < k THEN st[i] ELSE st[i + 1]
  <2>1. CASE i < k
    <3>1. i \in 1 .. k - 1 /\ su[i] = a[i]
      BY <1>2, <1>7, <1>8, <1>9, <2>1
    <3> QED BY <1>7, <2>1, <3>1
  <2>2. CASE ~(i < k)
    <3>1. i - (k - 1) \in 1 .. n - k /\ su[i] = z[i - (k - 1)]
      BY <1>2, <1>7, <1>8, <1>9, <2>2
    <3>2. k + (i - (k - 1)) = i + 1
      BY <1>2
    <3> QED BY <1>8, <2>2, <3>1, <3>2
  <2> QED BY <2>1, <2>2
<1>12. \A i \in 1 .. n - 1 : i < k <=> i <= S.pos[w]
  BY <1>2 DEF k
<1> QED BY <1>10, <1>11, <1>12

\* A block in front of a sequence.
LEMMA Fronted ==
  ASSUME NEW st \in Seq(Tags), NEW t \in Tags, NEW all, all = <<t>> \o st
  PROVE  /\ all \in Seq(Tags) /\ Len(all) = Len(st) + 1 /\ all[1] = t
         /\ \A i \in 1 .. Len(st) : all[i + 1] = st[i]
<1>1. <<t>> \in Seq(Tags) /\ Len(<<t>>) = 1 /\ <<t>>[1] = t
  OBVIOUS
<1> QED BY <1>1

\* What is the same to a search and to the replacement shows the same.
LEMMA SameShown ==
  ASSUME NEW S, NEW st, Shows(S, st), NEW R, R.pos = S.pos,
         \A w \in Ways : R.blk[w].tag = S.blk[w].tag /\ R.blk[w].valid = S.blk[w].valid
  PROVE  Shows(R, st)
BY DEF Shows

\* Moving the way of tag t to the head of the list makes t the newest.
LEMMA PromotedShown ==
  ASSUME NEW S, SetOK(S), NEW st, Shows(S, st), NEW t, NEW w \in Matches(S, t),
         NEW R, R.pos = ToHead(S.pos, w),
         \A v \in Ways : R.blk[v].tag = S.blk[v].tag /\ R.blk[v].valid = S.blk[v].valid
  PROVE  Shows(R, SC!Newest(st, t))
<1> DEFINE n == Len(st)
           su == SC!Without(st, t)
           all == <<t>> \o su
<1>1. w \in Ways /\ S.blk[w].valid /\ S.blk[w].tag = t
  BY DEF Matches
<1>2. /\ n \in Nat /\ n <= Assoc /\ Assoc \in Nat /\ S.pos[w] \in Nat
      /\ \A v \in Ways : S.pos[v] \in Nat /\ (S.pos[v] = S.pos[w] => v = w)
      /\ S.pos[w] < n
  <2>1. st \in Seq(Tags) /\ n <= Assoc /\ S.pos[w] < n
    BY <1>1 DEF Shows
  <2> QED BY <1>1, <2>1, Places
<1>3. t \in Tags
  <2>1. st \in Seq(Tags) /\ st[S.pos[w] + 1] = t
    BY <1>1 DEF Shows
  <2> QED BY <1>2, <2>1
<1>4. /\ su \in Seq(Tags) /\ Len(su) = n - 1
      /\ \A i \in 1 .. Len(su) : su[i] = IF i <= S.pos[w] THEN st[i] ELSE st[i + 1]
  BY ShownWithout
<1> HIDE DEF su, n
<1>5. all \in Seq(Tags) /\ Len(all) = n /\ all[1] = t /\ \A i \in 1 .. n - 1 : all[i + 1] = su[i]
  BY <1>2, <1>3, <1>4, Fronted
<1> HIDE DEF all
<1>6. SC!Newest(st, t) = all
  BY <1>2, <1>5 DEF SC!Newest, all, su
<1>7. \A v \in Ways : R.pos[v] = IF v = w THEN 0
                                 ELSE IF S.pos[v] < S.pos[w] THEN S.pos[v] + 1 ELSE S.pos[v]
  BY DEF ToHead
<1>8. ASSUME NEW v \in Ways
      PROVE  /\ R.blk[v].valid <=> R.pos[v] < n
             /\ R.blk[v].valid => all[R.pos[v] + 1] = R.blk[v].tag
  <2>1. CASE v = w
    BY <1>1, <1>2, <1>5, <1>7, <2>1
  <2>2. CASE v # w /\ S.pos[v] < S.pos[w]
    <3>1. R.pos[v] = S.pos[v] + 1 /\ S.pos[v] < n /\ R.pos[v] < n
      BY <1>2, <1>7, <2>2
    <3>2. S.blk[v].valid /\ st[S.pos[v] + 1] = S.blk[v].tag
      BY <3>1 DEF Shows, n
    <3>3. all[(S.pos[v] + 1) + 1] = su[S.pos[v] + 1] /\ su[S.pos[v] + 1] = st[S.pos[v] + 1]
      BY <1>2, <1>4, <1>5, <2>2, <3>1
    <3> QED BY <3>1, <3>2, <3>3
  <2>3. CASE v # w /\ S.pos[v] > S.pos[w]
    <3>1. R.pos[v] = S.pos[v]
      BY <1>2, <1>7, <2>3
    <3>2. R.blk[v].valid <=> S.pos[v] < n
      BY DEF Shows, n
    <3>3. ASSUME S.pos[v] < n PROVE all[S.pos[v] + 1] = R.blk[v].tag
      <4>1. S.pos[v] \in 1 .. n - 1
        BY <1>2, <2>3, <3>3
      <4>2. all[S.pos[v] + 1] = su[S.pos[v]] /\ su[S.pos[v]] = st[S.pos[v] + 1]
        BY <1>2, <1>4, <1>5, <2>3, <4>1
      <4>3. st[S.pos[v] + 1] = S.blk[v].tag
        BY <3>3 DEF Shows, n
      <4> QED BY <4>2, <4>3
    <3> QED BY <3>1, <3>2, <3>3
  <2> QED BY <1>2, <2>1, <2>2, <2>3
<1> QED BY <1>2, <1>5, <1>6, <1>8 DEF Shows

\* Refilling the way at the tail brings in a tag; the oldest one leaves a full set.
LEMMA RefilledShown ==
  ASSUME NEW S, SetOK(S), NEW st, Shows(S, st), NEW t \in Tags, Matches(S, t) = {},
         NEW w \in Ways, S.pos[w] = Assoc - 1, NEW R, R.pos = ToHead(S.pos, w),
         \A v \in Ways : /\ R.blk[v].tag = IF v = w THEN t ELSE S.blk[v].tag
                         /\ R.blk[v].valid <=> S.blk[v].valid \/ v = w
  PROVE  Shows(R, SC!Newest(st, t))
<1> DEFINE n == Len(st)
           all == <<t>> \o st
           new == SC!Newest(st, t)
<1>1. /\ st \in Seq(Tags) /\ n \in Nat /\ n <= Assoc /\ Assoc \in Nat /\ 1 <= Assoc
      /\ \A v \in Ways : /\ S.pos[v] \in Nat /\ S.pos[v] < Assoc
                         /\ S.pos[v] = S.pos[w] => v = w
  BY Places, GeometryAssumption DEF Shows
<1>2. SC!Without(st, t) = st
  BY ShownTags DEF SC!Without
<1>3. all \in Seq(Tags) /\ Len(all) = n + 1 /\ all[1] = t /\ \A i \in 1 .. n : all[i + 1] = st[i]
  BY <1>1, Fronted
<1> HIDE DEF all
<1>4. new = IF n + 1 > Assoc THEN SubSeq(all, 1, n) ELSE all
  BY <1>1, <1>2, <1>3 DEF SC!Newest, SC!Front, all
<1> HIDE DEF new
<1>5. /\ new \in Seq(Tags) /\ Len(new) = IF n + 1 > Assoc THEN n ELSE n + 1
      /\ \A i \in 1 .. Len(new) : new[i] = all[i]
  <2>1. CASE n + 1 > Assoc
    <3>1. n \in 0 .. Len(all) /\ new = SubSeq(all, 1, n)
      BY <1>1, <1>3, <1>4, <2>1
    <3>2. new \in Seq(Tags) /\ Len(new) = n /\ \A i \in 1 .. n : new[i] = all[i]
      BY <1>1, <1>3, <3>1
    <3> QED BY <2>1, <3>2
  <2>2. CASE ~(n + 1 > Assoc)
    BY <1>1, <1>3, <1>4, <2>2
  <2> QED BY <2>1, <2>2
<1>6. ASSUME NEW v \in Ways
      PROVE  /\ R.blk[v].valid <=> R.pos[v] < Len(new)
             /\ R.blk[v].valid => new[R.pos[v] + 1] = R.blk[v].tag
  <2>1. CASE v = w
    <3>1. R.pos[v] = 0 /\ R.blk[v].valid /\ R.blk[v].tag = t
      BY <2>1 DEF ToHead
    <3>2. Len(new) \in Nat /\ 0 < Len(new) /\ new[1] = t
      BY <1>1, <1>3, <1>5
    <3> QED BY <3>1, <3>2
  <2>2. CASE v # w
    <3>1. S.pos[v] < Assoc - 1 /\ R.pos[v] = S.pos[v] + 1
      BY <1>1, <2>2 DEF ToHead
    <3>2. R.blk[v].valid <=> S.pos[v] < n
      BY <2>2 DEF Shows
    <3>3. R.pos[v] < Len(new) <=> S.pos[v] < n
      BY <1>1, <1>5, <3>1
    <3>4. ASSUME S.pos[v] < n PROVE new[R.pos[v] + 1] = R.blk[v].tag
      <4>1. S.pos[v] + 1 \in 1 .. n /\ (S.pos[v] + 1) + 1 \in 1 .. Len(new)
        BY <1>1, <1>5, <3>1, <3>3, <3>4
      <4>2. new[(S.pos[v] + 1) + 1] = st[S.pos[v] + 1]
        BY <1>3, <1>5, <4>1
      <4>3. st[S.pos[v] + 1] = S.blk[v].tag
        BY <3>4 DEF Shows
      <4> QED BY <2>2, <3>1, <4>2, <4>3
    <3> QED BY <3>2, <3>3, <3>4
  <2> QED BY <2>1, <2>2
<1>7. Len(new) <= Assoc
  BY <1>1, <1>5
<1> QED BY <1>5, <1>6, <1>7 DEF Shows, new

\* Moving the way of tag t to the tail and making it invalid removes t.
LEMMA RemovedShown ==
  ASSUME NEW S, SetOK(S), NEW st, Shows(S, st), NEW t, NEW w \in Matches(S, t),
         NEW R, R.pos = ToTail(S.pos, w),
         \A v \in Ways : /\ R.blk[v].tag = S.blk[v].tag
                         /\ R.blk[v].valid <=> S.blk[v].valid /\ v # w
  PROVE  Shows(R, SC!Without(st, t))
<1> DEFINE n == Len(st)
           su == SC!Without(st, t)
<1>1. w \in Ways /\ S.blk[w].valid /\ S.blk[w].tag = t
  BY DEF Matches
<1>2. /\ n \in Nat /\ n <= Assoc /\ Assoc \in Nat /\ S.pos[w] \in Nat
      /\ \A v \in Ways : S.pos[v] \in Nat /\ (S.pos[v] = S.pos[w] => v = w)
      /\ S.pos[w] < n
  <2>1. st \in Seq(Tags) /\ n <= Assoc /\ S.pos[w] < n
    BY <1>1 DEF Shows
  <2> QED BY <1>1, <2>1, Places
<1>3. /\ su \in Seq(Tags) /\ Len(su) = n - 1
      /\ \A i \in 1 .. Len(su) : su[i] = IF i <= S.pos[w] THEN st[i] ELSE st[i + 1]
  BY ShownWithout
<1> HIDE DEF su, n
<1>4. \A v \in Ways : R.pos[v] = IF v = w THEN Assoc - 1
                                 ELSE IF S.pos[v] > S.pos[w] THEN S.pos[v] - 1 ELSE S.pos[v]
  BY DEF ToTail
<1>5. ASSUME NEW v \in Ways
      PROVE  /\ R.blk[v].valid <=> R.pos[v] < n - 1
             /\ R.blk[v].valid => su[R.pos[v] + 1] = R.blk[v].tag
  <2>1. CASE v = w
    BY <1>2, <1>4, <2>1
  <2>2. CASE v # w /\ S.pos[v] < S.pos[w]
    <3>1. R.pos[v] = S.pos[v] /\ S.pos[v] < n /\ R.pos[v] < n - 1
      BY <1>2, <1>4, <2>2
    <3>2. S.blk[v].valid /\ st[S.pos[v] + 1] = S.blk[v].tag
      BY <3>1 DEF Shows, n
    <3>3. su[S.pos[v] + 1] = st[S.pos[v] + 1]
      BY <1>2, <1>3, <2>2, <3>1
    <3> QED BY <2>2, <3>1, <3>2, <3>3
  <2>3. CASE v # w /\ S.pos[v] > S.pos[w]
    <3>1. R.pos[v] = S.pos[v] - 1
      BY <1>2, <1>4, <2>3
    <3>2. R.blk[v].valid <=> S.pos[v] < n
      BY <2>3 DEF Shows, n
    <3>3. ASSUME S.pos[v] < n PROVE su[R.pos[v] + 1] = R.blk[v].tag
      <4>1. S.pos[v] \in 1 .. n - 1 /\ R.pos[v] + 1 = S.pos[v]
        BY <1>2, <2>3, <3>1, <3>3
      <4>2. su[S.pos[v]] = st[S.pos[v] + 1]
        BY <1>2, <1>3, <2>3, <4>1
      <4>3. st[S.pos[v] + 1] = S.blk[v].tag
        BY <3>3 DEF Shows, n
      <4> QED BY <4>1, <4>2, <4>3
    <3> QED BY <1>2, <2>3, <3>1, <3>2, <3>3
  <2> QED BY <1>2, <2>1, <2>2, <2>3
<1>6. Len(su) <= Assoc
  BY <1>2, <1>3
<1> QED BY <1>3, <1>5, <1>6 DEF Shows, su

\* Every set of cache c shows its sequence of stk.
AllShown(c, stk) ==
  /\ stk = [s \in Sets |-> stk[s]]
  /\ \A s \in Sets : Shows(c.sets[s], stk[s])

\* Stacks(c) is what an ordered cache shows, and nothing else is.
LEMMA StacksShown ==
  ASSUME NEW c, CacheOK(c), \A s \in Sets : Ordered(c.sets[s])
  PROVE  AllShown(c, Stacks(c))
<1>1. \A s \in Sets : Shows(c.sets[s], Stack(c.sets[s]))
  BY StackShown DEF CacheOK
<1>2. Stacks(c) = [s \in Sets |-> Stack(c.sets[s])]
  BY DEF Stacks
<1> HIDE DEF Stacks, Stack
<1>3. \A s \in Sets : Stacks(c)[s] = Stack(c.sets[s])
  BY <1>2
<1> QED BY <1>1, <1>2, <1>3 DEF AllShown

LEMMA ShownStacks ==
  ASSUME NEW c, CacheOK(c), NEW stk, AllShown(c, stk)
  PROVE  Stacks(c) = stk
<1>1. ASSUME NEW s \in Sets PROVE Stack(c.sets[s]) = stk[s]
  <2>1. SetOK(c.sets[s]) /\ Shows(c.sets[s], stk[s])
    BY DEF CacheOK, AllShown
  <2>2. Ordered(c.sets[s])
    <3> DEFINE S == c.sets[s]
    <3>1. \A w \in Ways : S.pos[w] \in Nat
      BY <2>1, Places
    <3>2. Len(stk[s]) \in Nat
      BY <2>1 DEF Shows
    <3> QED BY <2>1, <3>1, <3>2 DEF Ordered, Shows
  <2> QED BY <2>1, <2>2, StackShown, ShownOnce
<1> QED BY <1>1 DEF Stacks, AllShown

\* The textbook cache finds the blocks that cache_probe finds.
LEMMA HeldIsProbed ==
  ASSUME NEW c, CacheOK(c), NEW stk, AllShown(c, stk)
  PROVE  /\ \A b \in Blocks : SC!Holds(stk, b) <=> Probe(c, b)
         /\ SC!Resident(stk) = Cached(c)
<1>1. ASSUME NEW b \in Blocks PROVE SC!Holds(stk, b) <=> Probe(c, b)
  <2>1. SetOf(b) \in Sets /\ SC!SetOf(b) = SetOf(b) /\ SC!TagOf(b) = TagOf(b)
    BY BlockAddr DEF SetOf, TagOf, SC!SetOf, SC!TagOf
  <2>2. SetOK(c.sets[SetOf(b)]) /\ Shows(c.sets[SetOf(b)], stk[SetOf(b)])
    BY <2>1 DEF CacheOK, AllShown
  <2> QED BY <2>1, <2>2, ShownTags DEF SC!Holds, Probe
<1>2. SC!Blocks = Blocks
  BY DEF SC!Blocks, Blocks, NBlocks
<1> QED BY <1>1, <1>2 DEF SC!Resident, Cached

\* A change of one set of the cache changes one sequence.
LEMMA OneShown ==
  ASSUME NEW c, NEW stk, AllShown(c, stk), NEW n, NEW s \in Sets, NEW st,
         Shows(n.sets[s], st), \A u \in Sets \ {s} : n.sets[u] = c.sets[u]
  PROVE  AllShown(n, [stk EXCEPT ![s] = st])
<1> DEFINE new == [stk EXCEPT ![s] = st]
<1>1. new = [u \in Sets |-> IF u = s THEN st ELSE stk[u]]
  BY DEF AllShown
<1> HIDE DEF new
<1>2. \A u \in Sets : new[u] = IF u = s THEN st ELSE stk[u]
  BY <1>1
<1>3. new = [u \in Sets |-> new[u]]
  BY <1>1
<1>4. AllShown(n, new)
  BY <1>2, <1>3 DEF AllShown
<1> QED BY <1>4 DEF new

LEMMA BringSet ==
  ASSUME NEW stk, NEW b \in Blocks
  PROVE  SC!Bring(stk, b) = [stk EXCEPT ![SetOf(b)] = SC!Newest(stk[SetOf(b)], TagOf(b))]
BY DEF SC!Bring, SC!SetOf, SC!TagOf, SetOf, TagOf

\* What a hit counts and marks shows nowhere.
LEMMA MarkShown ==
  ASSUME NEW c, NEW stk, AllShown(c, stk), NEW n, SameBlocks(c, n),
         \A u \in Sets : n.sets[u].pos = c.sets[u].pos
  PROVE  AllShown(n, stk)
BY SameShown DEF AllShown, SameBlocks

\* A refill of the victim brings the block into the textbook cache.
LEMMA ReplacedShown ==
  ASSUME NEW c, CacheOK(c), c.policy \in {"LRU", "FIFO"}, NEW stk, AllShown(c, stk),
         NEW b \in Blocks, ~Probe(c, b), NEW r \in Draws(c.policy), NEW d \in BOOLEAN,
         NEW w, w = Victim(c.policy, c.sets[SetOf(b)], r)
  PROVE  AllShown(Replaced(c, b, w, d), SC!Bring(stk, b))
<1> DEFINE s == SetOf(b)
           S == c.sets[s]
           n == Replaced(c, b, w, d)
           R == Refill(c.policy, S, w, TagOf(b), d)
           B == [tag |-> TagOf(b), valid |-> TRUE, dirty |-> d, freq |-> 1 % FreqMod]
<1>1. /\ s \in Sets /\ TagOf(b) \in Tags /\ c.sets \in [Sets -> Set] /\ SetOK(S)
      /\ S.blk \in [Ways -> Block] /\ Shows(S, stk[s]) /\ Matches(S, TagOf(b)) = {}
  BY BlockAddr DEF CacheOK, CacheType, SetOK, Set, AllShown, Probe
<1>2. w \in Ways /\ S.pos[w] = Assoc - 1
  <2>1. Assoc - 1 \in Ways
    BY GeometryAssumption DEF Ways
  <2>2. \E v \in Ways : S.pos[v] = Assoc - 1
    BY <1>1, <2>1 DEF SetOK, Perm
  <2> QED BY <2>2 DEF Victim
<1>3. n.sets = [c.sets EXCEPT ![s] = R]
  BY DEF Replaced, CacheOK, CacheType
<1>4. R.pos = ToHead(S.pos, w) /\ R.blk = [S.blk EXCEPT ![w] = B]
  BY DEF Refill
<1> HIDE DEF n, R, S
<1>5. \A v \in Ways : /\ R.blk[v].tag = IF v = w THEN TagOf(b) ELSE S.blk[v].tag
                      /\ R.blk[v].valid <=> S.blk[v].valid \/ v = w
  BY <1>1, <1>4
<1>6. Shows(R, SC!Newest(stk[s], TagOf(b)))
  BY <1>1, <1>2, <1>4, <1>5, RefilledShown
<1>7. n.sets[s] = R /\ \A u \in Sets \ {s} : n.sets[u] = c.sets[u]
  BY <1>1, <1>3
<1>8. AllShown(n, [stk EXCEPT ![s] = SC!Newest(stk[s], TagOf(b))])
  BY <1>1, <1>6, <1>7, OneShown
<1> QED BY <1>8, BringSet DEF n

\* SC!Prefetched, for any prefetcher: what prefetcher f makes of an access to b.
Fetched(f, stk, b) ==
  IF f = "none" \/ SC!Holds(stk, (b + 1) % NBlocks) THEN stk
  ELSE SC!Bring(stk, (b + 1) % NBlocks)

\* The next line is cached after the prefetch, and its set alone has changed.
LEMMA PrefetchShown ==
  ASSUME NEW c, CacheOK(c), c.policy \in {"LRU", "FIFO"}, SafePref(c.pref),
         NEW stk, AllShown(c, stk), NEW b \in Blocks, NBlocks > 1,
         NEW r \in Draws(c.policy), NEW pf, pf = PrefetchLogic(c, b, r), ~pf.segv
  PROVE  /\ AllShown(pf.c, Fetched(c.pref, stk, b))
         /\ c.pref = "next_line" => Probe(pf.c, (b + 1) % NBlocks)
<1> DEFINE p == (b + 1) % NBlocks
<1>1. CASE c.pref = "none"
  BY <1>1 DEF PrefetchLogic, NoPrefetch, Fetched
<1>2. CASE c.pref = "next_line"
  <2>1. p \in Blocks
    BY NextLine
  <2>2. pf = IssuePrefetch(c, p, r)
    BY <1>2 DEF PrefetchLogic
  <2>3. Fetched(c.pref, stk, b) = IF Probe(c, p) THEN stk ELSE SC!Bring(stk, p)
    BY <1>2, <2>1, HeldIsProbed DEF Fetched
  <2> HIDE DEF p
  <2>4. CASE Probe(c, p)
    BY <2>2, <2>3, <2>4 DEF IssuePrefetch, NoPrefetch, p
  <2>5. CASE ~Probe(c, p)
    <3> DEFINE S == c.sets[SetOf(p)]
               w == Victim(c.policy, S, r)
               n == Replaced(c, p, w, FALSE)
    <3>1. pf = FetchAhead(c, p, r)
      BY <2>2, <2>5 DEF IssuePrefetch
    <3>2. ~NoVictim(c.policy, S)
      BY <3>1 DEF FetchAhead, NoPrefetch
    <3>3. pf.c = n
      BY <3>1, <3>2 DEF FetchAhead, Replaced
    <3>4. w \in Ways
      <4>1. SetOf(p) \in Sets /\ SetOK(S) /\ c.policy \in AllPolicies
        BY <2>1, BlockAddr DEF CacheOK, CacheType
      <4> QED BY <4>1, VictimInWays DEF SetOK
    <3> HIDE DEF w, S
    <3>5. AllShown(n, SC!Bring(stk, p))
      <4>1. w = Victim(c.policy, c.sets[SetOf(p)], r)
        BY DEF w, S
      <4> QED BY <2>1, <2>5, <4>1, ReplacedShown
    <3>6. p \in Cached(n)
      <4>1. ReplacementOK(c, p, w, FALSE)
        BY <2>1, <2>5, <3>4, ReplaceEffect
      <4> QED BY <4>1 DEF ReplacementOK
    <3> QED BY <2>3, <2>5, <3>3, <3>5, <3>6 DEF Cached, p
  <2> QED BY <2>4, <2>5
<1> QED BY <1>1, <1>2 DEF SafePref

\* Under LRU a hit makes the block the newest; under FIFO it moves nothing.
LEMMA PromoteShown ==
  ASSUME NEW c, CacheOK(c), NEW stk, AllShown(c, stk), NEW b \in Blocks,
         NEW w \in Matches(c.sets[SetOf(b)], TagOf(b))
  PROVE  /\ c.policy = "LRU" => AllShown(Promote(c, SetOf(b), w), SC!Bring(stk, b))
         /\ c.policy = "FIFO" => AllShown(Promote(c, SetOf(b), w), stk)
<1>1. CASE c.policy = "LRU"
  <2> DEFINE s == SetOf(b)
             S == c.sets[s]
             R == [S EXCEPT !.pos = ToHead(@, w)]
             n == Promote(c, s, w)
  <2>1. s \in Sets /\ c.sets \in [Sets -> Set] /\ SetOK(S) /\ S \in Set /\ Shows(S, stk[s])
    BY BlockAddr DEF CacheOK, CacheType, SetOK, AllShown
  <2>2. n.sets = [c.sets EXCEPT ![s] = R]
    BY <1>1 DEF Promote, CacheOK, CacheType
  <2>3. R.pos = ToHead(S.pos, w) /\ R.blk = S.blk
    BY <2>1 DEF Set
  <2> HIDE DEF n, R
  <2>4. Shows(R, SC!Newest(stk[s], TagOf(b)))
    BY <2>1, <2>3, PromotedShown
  <2>5. n.sets[s] = R /\ \A u \in Sets \ {s} : n.sets[u] = c.sets[u]
    BY <2>1, <2>2
  <2>6. AllShown(n, [stk EXCEPT ![s] = SC!Newest(stk[s], TagOf(b))])
    BY <2>1, <2>4, <2>5, OneShown
  <2> QED BY <1>1, <2>6, BringSet DEF n
<1>2. CASE c.policy # "LRU"
  BY <1>2 DEF Promote
<1> QED BY <1>1, <1>2

-----------------------------------------------------------------------------
\* What the textbook cache, of policy pol and prefetcher f, makes of an access.
Accessed(pol, f, stk, b) ==
  IF pol = "FIFO" /\ SC!Holds(stk, b) THEN Fetched(f, stk, b)
  ELSE SC!Bring(Fetched(f, stk, b), b)

\* A fast hit issues no prefetch: the slow hit that recorded last_blk issued it,
\* and its block is still there.
NextHeld(c) ==
  c.pref = "next_line" /\ c.lastBlk # NoBlk => Probe(c, (c.last + 1) % NBlocks)

\* A fast hit is an access of the textbook cache, although it neither prefetches
\* nor reorders.
LEMMA FastHitShown ==
  ASSUME NEW c, CacheOK(c), c.policy \in {"LRU", "FIFO"}, SafePref(c.pref),
         HitAtHead(c), LastOK(c), NextHeld(c), NEW stk, AllShown(c, stk),
         NEW b \in Blocks, b = c.last, NEW cmd \in Cmds,
         NEW o, o = FastHit(c, cmd, b), ~o.segv
  PROVE  AllShown(o.c, Accessed(c.policy, c.pref, stk, b)) /\ NextHeld(o.c)
<1> DEFINE s == SetOf(b)
           w == c.lastBlk
           c1 == Count(c, s, w)
           c2 == MarkDirty(c1, s, w, cmd)
<1>1. w # NoBlk
  BY DEF FastHit, Segv
<1>2. s \in Sets /\ w \in Ways /\ w \in Matches(c.sets[s], TagOf(b))
  BY <1>1, BlockAddr DEF CacheOK, CacheType, LastOK
<1>3. o.c = c2
  BY <1>1 DEF FastHit, Outcome, NoPrefetch
<1>4. NBlocks > 1 => (b + 1) % NBlocks \in Blocks
  BY NextLine
<1>5. SafePref(c.pref) => c.pref = "none" \/ NBlocks > 1
  BY GeometryAssumption DEF SafePref, NBlocks, CacheOK, CacheType, Blocks
<1> HIDE DEF s, w, c1, c2
<1>6. /\ CacheOK(c1) /\ SameBlocks(c, c1)
      /\ \A u \in Sets : c1.sets[u].pos = c.sets[u].pos
  BY <1>2, CountOK, MarkOrder DEF c1
<1>7. /\ SameBlocks(c1, c2)
      /\ \A u \in Sets : c2.sets[u].pos = c1.sets[u].pos
  BY <1>2, <1>6, MarkDirtyOK, MarkOrder DEF c2
<1>8. SameBlocks(c, c2)
  BY <1>6, <1>7 DEF SameBlocks
<1>9. AllShown(c2, stk)
  BY <1>6, <1>7, <1>8, MarkShown
<1>10. Cached(c2) = Cached(c)
  BY <1>8, SameBlocksCached
<1>11. NextHeld(c2)
  BY <1>1, <1>4, <1>5, <1>8, <1>10 DEF NextHeld, SameBlocks, Cached, w
<1>12. Fetched(c.pref, stk, b) = stk
  <2>1. CASE c.pref = "none"
    BY <2>1 DEF Fetched
  <2>2. CASE c.pref # "none"
    <3>1. (b + 1) % NBlocks \in Blocks /\ Probe(c, (b + 1) % NBlocks)
      BY <1>1, <1>4, <1>5, <2>2 DEF NextHeld, SafePref, w
    <3> QED BY <3>1, HeldIsProbed DEF Fetched
  <2> QED BY <2>1, <2>2
<1>13. SC!Holds(stk, b)
  <2>1. Probe(c, b)
    BY <1>2 DEF Probe, s
  <2> QED BY <2>1, HeldIsProbed
<1>14. c.policy = "LRU" => SC!Bring(stk, b) = stk
  <2> SUFFICES ASSUME c.policy = "LRU" PROVE SC!Bring(stk, b) = stk
    OBVIOUS
  <2> DEFINE S == c.sets[s]
             st == SC!Newest(stk[s], TagOf(b))
  <2>1. SetOK(S) /\ Shows(S, stk[s]) /\ S.pos[w] = 0
    BY <1>1, <1>2 DEF CacheOK, AllShown, HitAtHead, s, w
  <2>2. S.pos = ToHead(S.pos, w)
    <3>1. S.pos \in [Ways -> Ways] /\ \A v \in Ways : S.pos[v] \in Nat
      BY <2>1, Places DEF SetOK, Perm
    <3>2. \A v \in Ways : S.pos[v] = IF v = w THEN 0 ELSE IF S.pos[v] < S.pos[w]
                                     THEN S.pos[v] + 1 ELSE S.pos[v]
      BY <2>1, <3>1
    <3> QED BY <3>1, <3>2 DEF ToHead
  <2>3. Shows(S, st)
    BY <1>2, <2>1, <2>2, PromotedShown
  <2>4. st = stk[s]
    BY <2>1, <2>3, ShownOnce
  <2>5. SC!Bring(stk, b) = [stk EXCEPT ![s] = st]
    BY BringSet DEF s
  <2> QED BY <2>4, <2>5 DEF AllShown
<1>15. Accessed(c.policy, c.pref, stk, b) = stk
  BY <1>12, <1>13, <1>14 DEF Accessed
<1> QED BY <1>3, <1>9, <1>11, <1>15

\* A slow hit prefetches before it reorders; the next line lies in another set.
LEMMA SlowHitShown ==
  ASSUME NEW c, CacheOK(c), c.policy \in {"LRU", "FIFO"}, SafePref(c.pref),
         NEW stk, AllShown(c, stk), NEW b \in Blocks, b # c.last, Probe(c, b),
         NEW cmd \in Cmds, NEW r \in Draws(c.policy),
         NEW o, o = SlowHit(c, cmd, b, r), ~o.segv
  PROVE  AllShown(o.c, Accessed(c.policy, c.pref, stk, b)) /\ NextHeld(o.c)
<1> DEFINE s  == SetOf(b)
           t  == TagOf(b)
           w  == Found(c.sets[s], t)
           c1 == Count(c, s, w)
           pf == PrefetchLogic(c1, b, r)
           c2 == MarkDirty(pf.c, s, w, cmd)
           c3 == Promote(c2, s, w)
           c4 == Remember(c3, b, w)
           mid == Fetched(c.pref, stk, b)
<1>1. s \in Sets /\ w \in Matches(c.sets[s], t) /\ w \in Ways
  BY BlockAddr, FoundMatches DEF Matches
<1>2. NBlocks > 1
  BY GeometryAssumption DEF CacheOK, CacheType, Blocks, NBlocks
<1>3. o = IF pf.segv THEN Segv(c) ELSE Outcome(c4, pf, {}, {})
  BY DEF SlowHit
<1>4. ~pf.segv
  BY <1>3 DEF Segv
<1>5. o.c = c4
  BY <1>3, <1>4 DEF Outcome
<1>6. SC!Holds(stk, b)
  BY HeldIsProbed
<1> HIDE DEF s, t, w, c1, pf, c2, c3, c4, mid
<1>7. /\ CacheOK(c1) /\ SameBlocks(c, c1)
      /\ \A u \in Sets : c1.sets[u].pos = c.sets[u].pos
  BY <1>1, CountOK, MarkOrder DEF c1
<1>8. /\ r \in Draws(c1.policy) /\ c1.policy = c.policy /\ c1.pref = c.pref
      /\ c1.policy \in {"LRU", "FIFO"} /\ SafePref(c1.pref)
  BY <1>7 DEF SameBlocks
<1>9. AllShown(c1, stk)
  BY <1>7, MarkShown
<1>10. /\ AllShown(pf.c, mid)
       /\ c.pref = "next_line" => Probe(pf.c, (b + 1) % NBlocks)
  BY <1>2, <1>4, <1>7, <1>8, <1>9, PrefetchShown DEF pf, mid
<1>11. PrefetchOK(c1, b, pf)
  BY <1>2, <1>4, <1>7, <1>8, PrefetchLogicOK DEF pf
<1>12. CacheOK(pf.c) /\ pf.c.policy = c.policy /\ pf.c.pref = c.pref
  BY <1>8, <1>11 DEF PrefetchOK, Ahead
<1>13. pf.c.sets[s] = c1.sets[s]
  BY <1>8, <1>11 DEF PrefetchOK, s
<1>14. /\ CacheOK(c2) /\ SameBlocks(pf.c, c2)
       /\ \A u \in Sets : c2.sets[u].pos = pf.c.sets[u].pos
  BY <1>1, <1>12, MarkDirtyOK, MarkOrder DEF c2
<1>15. AllShown(c2, mid) /\ c2.policy = c.policy
  BY <1>10, <1>12, <1>14, MarkShown DEF SameBlocks
<1>16. w \in Matches(c2.sets[s], t)
  BY <1>1, <1>7, <1>13, <1>14, SameBlocksMatches
<1>17. AllShown(c3, Accessed(c.policy, c.pref, stk, b))
  <2>1. /\ c2.policy = "LRU" => AllShown(c3, SC!Bring(mid, b))
        /\ c2.policy = "FIFO" => AllShown(c3, mid)
    BY <1>14, <1>15, <1>16, PromoteShown DEF c3, s, t
  <2> QED BY <1>6, <1>15, <2>1 DEF Accessed, mid
<1>18. CacheOK(c3) /\ SameBlocks(c2, c3)
  BY <1>1, <1>14, PromoteOK DEF c3
<1>19. /\ c4.sets = c3.sets /\ c4.last = b /\ SameConfig(c3, c4)
       /\ Cached(c4) = Cached(c3)
  BY <1>1, <1>18, RememberOK DEF c4
<1>20. AllShown(c4, Accessed(c.policy, c.pref, stk, b))
  BY <1>17, <1>19 DEF AllShown
<1>21. NextHeld(c4)
  <2>1. Cached(c4) = Cached(pf.c)
    BY <1>14, <1>18, <1>19, SameBlocksCached
  <2>2. c4.pref = c.pref
    BY <1>12, <1>14, <1>18, <1>19 DEF SameBlocks, SameConfig
  <2>3. (b + 1) % NBlocks \in Blocks
    BY <1>2, NextLine
  <2> QED BY <1>10, <1>19, <2>1, <2>2, <2>3 DEF NextHeld, Cached
<1> QED BY <1>5, <1>20, <1>21

\* A miss prefetches and then brings its block in.
LEMMA MissShown ==
  ASSUME NEW c, CacheOK(c), c.policy \in {"LRU", "FIFO"}, SafePref(c.pref),
         NEW stk, AllShown(c, stk), NEW b \in Blocks, b # c.last, ~Probe(c, b),
         NEW cmd \in Cmds, NEW r \in Draws(c.policy), NEW q \in Draws(c.policy),
         NEW o, o = Miss(c, cmd, b, r, q), ~o.segv
  PROVE  AllShown(o.c, Accessed(c.policy, c.pref, stk, b)) /\ NextHeld(o.c)
<1> DEFINE s  == SetOf(b)
           pf == PrefetchLogic(c, b, r)
           S  == pf.c.sets[s]
           w  == Victim(c.policy, S, q)
           d  == (cmd = "Write")
           f  == Forget(pf.c)
           n  == Replaced(f, b, w, d)
           mid == Fetched(c.pref, stk, b)
<1>1. NBlocks > 1
  BY GeometryAssumption DEF CacheOK, CacheType, Blocks, NBlocks
<1>2. o = IF pf.segv \/ NoVictim(c.policy, S) THEN Segv(c)
          ELSE Outcome([f EXCEPT !.sets[s] = Refill(c.policy, S, w, TagOf(b), d)],
                       pf, WriteBack(S, s, w), {b})
  BY DEF Miss
<1>3. ~pf.segv /\ ~NoVictim(c.policy, S)
  BY <1>2 DEF Segv
<1>4. o.c = [f EXCEPT !.sets[s] = Refill(c.policy, S, w, TagOf(b), d)]
  BY <1>2, <1>3 DEF Outcome
<1> HIDE DEF pf, mid
<1>5. AllShown(pf.c, mid)
  BY <1>1, <1>3, PrefetchShown DEF pf, mid
<1>6. PrefetchOK(c, b, pf)
  BY <1>1, <1>3, PrefetchLogicOK DEF pf
<1>7. CacheOK(pf.c) /\ pf.c.policy = c.policy /\ pf.c.pref = c.pref
  BY <1>6 DEF PrefetchOK, Ahead
<1>8. /\ CacheOK(f) /\ SameConfig(pf.c, f) /\ f.sets = pf.c.sets /\ f.lastBlk = NoBlk
  BY <1>7, ForgetOK
<1> HIDE DEF f
<1>9. o.c = n
  BY <1>4, <1>7, <1>8 DEF Replaced, SameConfig
<1>10. pf.c.sets[s] = c.sets[s]
  BY <1>6 DEF PrefetchOK
<1>11. ~Probe(f, b) /\ AllShown(f, mid) /\ f.policy = c.policy
  BY <1>5, <1>7, <1>8, <1>10 DEF Probe, AllShown, SameConfig
<1>12. w = Victim(f.policy, f.sets[SetOf(b)], q) /\ q \in Draws(f.policy) /\ d \in BOOLEAN
  BY <1>8, <1>11
<1>13. n.lastBlk = NoBlk
  BY <1>8 DEF Replaced, CacheOK, CacheType
<1> HIDE DEF w, S, d
<1>14. AllShown(n, SC!Bring(mid, b))
  BY <1>8, <1>11, <1>12, ReplacedShown
<1>15. ~SC!Holds(stk, b)
  BY HeldIsProbed
<1>16. Accessed(c.policy, c.pref, stk, b) = SC!Bring(mid, b)
  BY <1>15 DEF Accessed, mid
<1> HIDE DEF n
<1> QED BY <1>9, <1>13, <1>14, <1>16 DEF NextHeld

\* cache_flush empties every stack.
LEMMA FlushShown ==
  ASSUME NEW c, CacheOK(c)
  PROVE  AllShown(Flush(c), [s \in Sets |-> <<>>]) /\ NextHeld(Flush(c))
<1> DEFINE n == Flush(c)
           R(s) == [c.sets[s] EXCEPT !.blk = [w \in Ways |->
                      [c.sets[s].blk[w] EXCEPT !.valid = FALSE]]]
<1>1. n = [Forget(c) EXCEPT !.sets = [s \in Sets |-> R(s)]]
  BY DEF Flush
<1>2. ASSUME NEW s \in Sets PROVE Shows(R(s), <<>>)
  <2>1. \A w \in Ways : ~R(s).blk[w].valid
    BY DEF CacheOK, SetOK, Set, Block
  <2>2. R(s).pos = c.sets[s].pos
    BY DEF CacheOK, SetOK, Set
  <2>3. \A w \in Ways : R(s).pos[w] \in Nat
    BY <2>2, Places DEF CacheOK
  <2> HIDE DEF R
  <2>4. <<>> \in Seq(Tags) /\ Len(<<>>) = 0 /\ 0 <= Assoc
    BY GeometryAssumption
  <2> QED BY <2>1, <2>3, <2>4 DEF Shows
<1> HIDE DEF R
<1>3. CacheOK(Forget(c)) /\ Forget(c).lastBlk = NoBlk
  BY ForgetOK
<1>4. n.sets = [s \in Sets |-> R(s)] /\ n.lastBlk = NoBlk
  <2> HIDE DEF Forget
  <2> QED BY <1>1, <1>3 DEF CacheOK, CacheType
<1> HIDE DEF n
<1>5. AllShown(n, [s \in Sets |-> <<>>]) /\ NextHeld(n)
  BY <1>2, <1>4 DEF AllShown, NextHeld
<1> QED BY <1>5 DEF n

\* cache_flush_addr takes its block out of its stack.
LEMMA FlushAddrShown ==
  ASSUME NEW c, CacheOK(c), NEW stk, AllShown(c, stk), NextHeld(c), NEW b \in Blocks
  PROVE  /\ AllShown(FlushAddr(c, b),
                     [stk EXCEPT ![SetOf(b)] = SC!Without(stk[SetOf(b)], TagOf(b))])
         /\ NextHeld(FlushAddr(c, b))
<1> DEFINE s == SetOf(b)
           S == c.sets[s]
           t == TagOf(b)
           new == [stk EXCEPT ![s] = SC!Without(stk[s], t)]
<1>1. /\ s \in Sets /\ SetOK(S) /\ Shows(S, stk[s]) /\ stk = [u \in Sets |-> stk[u]]
      /\ c.sets \in [Sets -> Set] /\ S.blk \in [Ways -> Block]
  BY BlockAddr DEF CacheOK, CacheType, SetOK, Set, AllShown
<1>2. CASE ~Probe(c, b)
  <2>1. SC!Without(stk[s], t) = stk[s]
    BY <1>1, <1>2, ShownTags DEF Probe, SC!Without
  <2>2. new = stk
    BY <1>1, <2>1
  <2> QED BY <1>2, <2>2 DEF FlushAddr
<1>3. CASE Probe(c, b)
  <2> DEFINE w == Found(S, t)
             f == Forget(c)
             R == [pos |-> ToTail(S.pos, w), blk |-> [S.blk EXCEPT ![w].valid = FALSE]]
             n == FlushAddr(c, b)
  <2>1. w \in Matches(S, t) /\ w \in Ways
    BY <1>3, FoundMatches DEF Matches
  <2>2. n = [f EXCEPT !.sets[s] = R]
    BY <1>3 DEF FlushAddr
  <2> HIDE DEF w
  <2>3. \A v \in Ways : /\ R.blk[v].tag = S.blk[v].tag
                        /\ R.blk[v].valid <=> S.blk[v].valid /\ v # w
    BY <1>1, <2>1 DEF Block
  <2>4. R.pos = ToTail(S.pos, w)
    OBVIOUS
  <2> HIDE DEF R, f, n
  <2>5. CacheOK(f) /\ f.sets = c.sets /\ f.lastBlk = NoBlk
    BY ForgetOK DEF f
  <2>6. n.sets = [c.sets EXCEPT ![s] = R] /\ n.lastBlk = NoBlk
    BY <2>2, <2>5 DEF CacheOK, CacheType
  <2>7. Shows(R, SC!Without(stk[s], t))
    BY <1>1, <2>1, <2>3, <2>4, RemovedShown
  <2>8. n.sets[s] = R /\ \A u \in Sets \ {s} : n.sets[u] = c.sets[u]
    BY <1>1, <2>6
  <2>9. AllShown(n, new)
    BY <1>1, <2>7, <2>8, OneShown
  <2> QED BY <2>6, <2>9 DEF NextHeld, n
<1> QED BY <1>2, <1>3

-----------------------------------------------------------------------------
\* The textbook cache is defined for two replacement policies.
StackConfig == Policies \subseteq {"LRU", "FIFO"}

\* The invariant that maps every call to a step of the textbook cache.
StackInv == IInv /\ DataInv /\ OrderInv(cache) /\ NextHeld(cache)

\* The stacks of an invariant cache are what it shows.
LEMMA StackInvShown ==
  ASSUME StackConfig, StackInv
  PROVE  /\ CacheOK(cache) /\ cache.policy \in {"LRU", "FIFO"}
         /\ AllShown(cache, Stacks(cache))
<1>1. CacheOK(cache) /\ cache.policy \in {"LRU", "FIFO"}
  BY DEF StackInv, IInv, StackConfig
<1>2. \A s \in Sets : Ordered(cache.sets[s])
  BY <1>1 DEF StackInv, OrderInv, AllOrdered
<1> QED BY <1>1, <1>2, StacksShown

\* A new cache has empty stacks.
LEMMA InitStack ==
  ASSUME SafeConfig, StackConfig, Init
  PROVE  SC!Init /\ NextHeld(cache)
<1>1. CacheOK(cache) /\ Cached(cache) = {} /\ unsaved = {} /\ running = TRUE
  BY InitInv DEF IInv, Init
<1>2. /\ cache.policy \in {"LRU", "FIFO"} /\ cache.pref \in {"none", "next_line"}
      /\ cache.lastBlk = NoBlk
      /\ \A s \in Sets : \A w \in Ways : ~cache.sets[s].blk[w].valid
  BY DEF Init, Created, StackConfig, SafeConfig, SafePref
<1> DEFINE stk == [s \in Sets |-> <<>>]
<1>3. ASSUME NEW s \in Sets PROVE Shows(cache.sets[s], <<>>)
  <2>1. SetOK(cache.sets[s])
    BY <1>1 DEF CacheOK
  <2>2. \A w \in Ways : cache.sets[s].pos[w] \in Nat
    BY <2>1, Places
  <2>3. <<>> \in Seq(Tags) /\ Len(<<>>) = 0 /\ 0 <= Assoc
    BY GeometryAssumption
  <2> QED BY <1>2, <2>2, <2>3 DEF Shows
<1>4. AllShown(cache, stk)
  BY <1>3 DEF AllShown
<1>5. Stacks(cache) = stk
  BY <1>1, <1>4, ShownStacks
<1> QED BY <1>1, <1>2, <1>5 DEF SC!Init, NextHeld, Sets

\* An access whose outcome shows what the textbook cache makes of it is a step of
\* the textbook cache.
LEMMA CompleteStack ==
  ASSUME StackConfig, StackInv, NEW o, NEW cmd \in Cmds, NEW b \in Blocks,
         Complete(o, cmd, b), CacheOK(o.c), SameConfig(cache, o.c),
         AccessOK(cache, o, cmd, b),
         AllShown(o.c, Accessed(cache.policy, cache.pref, Stacks(cache), b)), NextHeld(o.c)
  PROVE  NextHeld(cache') /\ SC!Next
<1> DEFINE acc == Accessed(cache.policy, cache.pref, Stacks(cache), b)
<1>1. /\ cache' = o.c /\ running /\ running' = running
      /\ unsaved' = (unsaved \ (o.pwb \cup o.wb)) \cup Store(cmd, b)
  BY DEF Complete, Store
<1>2. unsaved' = (unsaved \cap Cached(o.c)) \cup Store(cmd, b)
  BY <1>1 DEF StackInv, DataInv, AccessOK
<1>3. Stacks(o.c) = acc /\ SC!Resident(acc) = Cached(o.c)
  BY ShownStacks, HeldIsProbed
<1>4. Fetched(cache.pref, Stacks(cache), b) = SC!Prefetched(Stacks(cache), b)
  BY DEF Fetched, SC!Prefetched, NBlocks
<1>5. acc = IF cache.policy = "FIFO" /\ SC!Holds(Stacks(cache), b)
            THEN SC!Prefetched(Stacks(cache), b)
            ELSE SC!Bring(SC!Prefetched(Stacks(cache), b), b)
  BY <1>4 DEF Accessed
<1> HIDE DEF acc
<1>6. Stacks(cache)' = acc
  BY <1>1, <1>3
<1>7. cache.policy' = cache.policy /\ cache.pref' = cache.pref
  BY <1>1 DEF SameConfig
<1>8. SC!Access(cmd, b)
  BY <1>1, <1>2, <1>3, <1>5, <1>6, <1>7 DEF SC!Access, Store
<1>9. SC!Blocks = Blocks /\ Cmds = {"Read", "Write"}
  BY DEF SC!Blocks, Blocks, NBlocks, Cmds
<1> QED BY <1>1, <1>8, <1>9 DEF SC!Next

\* Every call of the cache's user is a step of the textbook cache.
LEMMA NextStack ==
  ASSUME SafeConfig, StackConfig, StackInv, Next
  PROVE  NextHeld(cache') /\ SC!Next
<1>1. /\ CacheOK(cache) /\ cache.policy \in {"LRU", "FIFO"}
      /\ AllShown(cache, Stacks(cache))
  BY StackInvShown
<1>2. /\ SafePref(cache.pref) /\ LastOK(cache) /\ unsaved = Dirty(cache)
      /\ HitAtHead(cache) /\ NextHeld(cache)
  BY DEF StackInv, IInv, DataInv, OrderInv, SafeConfig
<1>3. SC!Blocks = Blocks
  BY DEF SC!Blocks, Blocks, NBlocks
<1>4. ASSUME NEW cmd \in Cmds, NEW b \in Blocks, AccessFastHit(cmd, b)
      PROVE  NextHeld(cache') /\ SC!Next
  <2> DEFINE o == FastHit(cache, cmd, b)
  <2>1. b = cache.last /\ Complete(o, cmd, b) /\ ~o.segv
    BY <1>4 DEF AccessFastHit, Complete
  <2> HIDE DEF o
  <2>2. CacheOK(o.c) /\ SameConfig(cache, o.c) /\ AccessOK(cache, o, cmd, b)
    BY <1>1, <1>2, <2>1, FastHitOK DEF o
  <2>3. /\ AllShown(o.c, Accessed(cache.policy, cache.pref, Stacks(cache), b))
        /\ NextHeld(o.c)
    BY <1>1, <1>2, <2>1, FastHitShown DEF o
  <2> QED BY <2>1, <2>2, <2>3, CompleteStack
<1>5. ASSUME NEW cmd \in Cmds, NEW b \in Blocks, NEW r \in Draws(cache.policy),
             AccessSlowHit(cmd, b, r)
      PROVE  NextHeld(cache') /\ SC!Next
  <2> DEFINE o == SlowHit(cache, cmd, b, r)
  <2>1. b # cache.last /\ Probe(cache, b) /\ Complete(o, cmd, b) /\ ~o.segv
    BY <1>5 DEF AccessSlowHit, Complete
  <2> HIDE DEF o
  <2>2. CacheOK(o.c) /\ SameConfig(cache, o.c) /\ AccessOK(cache, o, cmd, b)
    BY <1>1, <1>2, <2>1, SlowHitOK DEF o
  <2>3. /\ AllShown(o.c, Accessed(cache.policy, cache.pref, Stacks(cache), b))
        /\ NextHeld(o.c)
    BY <1>1, <1>2, <2>1, SlowHitShown DEF o
  <2> QED BY <2>1, <2>2, <2>3, CompleteStack
<1>6. ASSUME NEW cmd \in Cmds, NEW b \in Blocks,
             NEW r \in Draws(cache.policy), NEW q \in Draws(cache.policy),
             AccessMiss(cmd, b, r, q)
      PROVE  NextHeld(cache') /\ SC!Next
  <2> DEFINE o == Miss(cache, cmd, b, r, q)
  <2>1. b # cache.last /\ ~Probe(cache, b) /\ Complete(o, cmd, b) /\ ~o.segv
    BY <1>6 DEF AccessMiss, Complete
  <2> HIDE DEF o
  <2>2. CacheOK(o.c) /\ SameConfig(cache, o.c) /\ AccessOK(cache, o, cmd, b)
    BY <1>1, <2>1, MissOK DEF o
  <2>3. /\ AllShown(o.c, Accessed(cache.policy, cache.pref, Stacks(cache), b))
        /\ NextHeld(o.c)
    BY <1>1, <1>2, <2>1, MissShown DEF o
  <2> QED BY <2>1, <2>2, <2>3, CompleteStack
<1>7. ASSUME NEW cmd \in Cmds, NEW b \in Blocks,
             NEW r \in Draws(cache.policy), NEW q \in Draws(cache.policy),
             AccessSegv(cmd, b, r, q)
      PROVE  NextHeld(cache') /\ SC!Next
  <2>1. running /\ running' = FALSE /\ cache' = cache /\ unsaved' = unsaved
    BY <1>7 DEF AccessSegv
  <2>2. Stacks(cache)' = Stacks(cache)
    BY <2>1
  <2> QED BY <1>2, <2>1, <2>2 DEF SC!Next, SC!Die
<1>8. CASE FlushAll
  <2> DEFINE n == Flush(cache)
  <2>1. /\ running /\ running' = running /\ cache' = n
        /\ unsaved' = unsaved \ Dirty(cache)
    BY <1>8 DEF FlushAll
  <2>2. CacheOK(n) /\ SameConfig(cache, n)
    BY <1>1, FlushOK
  <2>3. AllShown(n, [s \in Sets |-> <<>>]) /\ NextHeld(n)
    BY <1>1, FlushShown
  <2> HIDE DEF n
  <2>4. Stacks(n) = [s \in 0 .. NSets - 1 |-> <<>>]
    BY <2>2, <2>3, ShownStacks DEF Sets
  <2>5. Stacks(cache)' = [s \in 0 .. NSets - 1 |-> <<>>]
    BY <2>1, <2>4
  <2>6. cache.policy' = cache.policy /\ cache.pref' = cache.pref /\ unsaved' = {}
    BY <1>2, <2>1, <2>2 DEF SameConfig
  <2>7. SC!FlushAll
    BY <2>1, <2>5, <2>6 DEF SC!FlushAll
  <2> QED BY <2>1, <2>3, <2>7 DEF SC!Next
<1>9. ASSUME NEW b \in Blocks, FlushOne(b)
      PROVE  NextHeld(cache') /\ SC!Next
  <2> DEFINE n == FlushAddr(cache, b)
             new == [Stacks(cache) EXCEPT ![SetOf(b)] =
                        SC!Without(Stacks(cache)[SetOf(b)], TagOf(b))]
  <2>1. /\ running /\ running' = running /\ cache' = n
        /\ unsaved' = unsaved \ (Dirty(cache) \cap {b})
    BY <1>9 DEF FlushOne
  <2>2. CacheOK(n) /\ SameConfig(cache, n)
    BY <1>1, FlushAddrOK
  <2>3. AllShown(n, new) /\ NextHeld(n)
    BY <1>1, <1>2, FlushAddrShown
  <2>4. new = [Stacks(cache) EXCEPT ![SC!SetOf(b)] =
                 SC!Without(Stacks(cache)[SC!SetOf(b)], SC!TagOf(b))]
    BY DEF SC!SetOf, SC!TagOf, SetOf, TagOf
  <2> HIDE DEF n, new
  <2>5. Stacks(cache)' = new
    <3>1. Stacks(n) = new
      BY <2>2, <2>3, ShownStacks
    <3> QED BY <2>1, <3>1
  <2>6. cache.policy' = cache.policy /\ cache.pref' = cache.pref /\ unsaved' = unsaved \ {b}
    BY <1>2, <2>1, <2>2 DEF SameConfig
  <2>7. SC!FlushOne(b)
    BY <2>1, <2>4, <2>5, <2>6 DEF SC!FlushOne
  <2> QED BY <1>3, <2>1, <2>3, <2>7 DEF SC!Next
<1> QED BY <1>4, <1>5, <1>6, <1>7, <1>8, <1>9 DEF Next, AnyAccess

\* Under LRU and FIFO the cache of cache.c implements the textbook cache, for every
\* geometry, without a prefetcher and with the next-line one: each call maps to one
\* step of StackCache.  SafeConfig is needed: with one set only, a prefetch may
\* evict the block being hit.
THEOREM ImplementsStackCache == SafeConfig /\ StackConfig => (Spec => StackSpec)
<1> SUFFICES ASSUME SafeConfig, StackConfig PROVE Spec => StackSpec
  OBVIOUS
<1> DEFINE abs == <<cache.policy, cache.pref, Stacks(cache), unsaved, running>>
<1>1. Init => SC!Init /\ NextHeld(cache)
  BY InitStack
<1>2. /\ IInv /\ DataInv /\ OrderInv(cache) /\ NextHeld(cache) /\ [Next]_vars
      => NextHeld(cache)' /\ [SC!Next]_abs
  <2>1. NextHeld(cache) /\ UNCHANGED vars => NextHeld(cache)' /\ UNCHANGED abs
    BY DEF vars
  <2> QED BY <2>1, NextStack DEF StackInv
<1>3. Spec => [](IInv /\ DataInv)
  BY DataInductive
<1> QED BY <1>1, <1>2, <1>3, OrderInvariance, PTL DEF Spec, StackSpec, SC!Spec

=============================================================================
