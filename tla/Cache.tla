------------------------------- MODULE Cache -------------------------------
(***************************************************************************)
(* One cache of cache.c and its user: a simulator that calls cache_access, *)
(* cache_flush and cache_flush_addr in any order, on a cache made by       *)
(* cache_create with one of the given policies and prefetchers.  Below the *)
(* cache is blk_access_fn, which takes every block written to it.          *)
(***************************************************************************)
EXTENDS CacheOps

CONSTANTS
  Policies,    \* the replacement policies the cache may be created with
  Prefetchers  \* and the prefetchers

ASSUME ConfigAssumption ==
  Policies \subseteq AllPolicies /\ Prefetchers \subseteq AllPrefetchers

VARIABLES
  cache,    \* the cache
  unsaved,  \* blocks written since they were last handed to blk_access_fn
  running   \* FALSE once the process died of a NULL dereference

vars == <<cache, unsaved, running>>

Init ==
  /\ cache \in {Created(pol, pf) : pol \in Policies, pf \in Prefetchers}
  /\ unsaved = {}
  /\ running = TRUE

\* An access of block b ended with outcome o.
Complete(o, cmd, b) ==
  /\ running /\ ~o.segv
  /\ cache' = o.c
  /\ unsaved' = (unsaved \ (o.pwb \cup o.wb)) \cup (IF cmd = "Write" THEN {b} ELSE {})
  /\ UNCHANGED running

\* cache_access, one action per path.  r and q are the random draws of the
\* prefetch and of the replacement.
AccessFastHit(cmd, b) ==
  /\ b = cache.last
  /\ Complete(FastHit(cache, cmd, b), cmd, b)

AccessSlowHit(cmd, b, r) ==
  /\ b # cache.last /\ Probe(cache, b)
  /\ Complete(SlowHit(cache, cmd, b, r), cmd, b)

AccessMiss(cmd, b, r, q) ==
  /\ b # cache.last /\ ~Probe(cache, b)
  /\ Complete(Miss(cache, cmd, b, r, q), cmd, b)

\* cache_access dereferenced NULL: last_blk on a fast hit, or min_blk.
AccessSegv(cmd, b, r, q) ==
  /\ running /\ Access(cache, cmd, b, r, q).segv
  /\ running' = FALSE
  /\ UNCHANGED <<cache, unsaved>>

\* cache_flush
FlushAll ==
  /\ running
  /\ cache' = Flush(cache)
  /\ unsaved' = unsaved \ Dirty(cache)
  /\ UNCHANGED running

\* cache_flush_addr
FlushOne(b) ==
  /\ running
  /\ cache' = FlushAddr(cache, b)
  /\ unsaved' = unsaved \ (Dirty(cache) \cap {b})
  /\ UNCHANGED running

AnyAccess ==
  \E cmd \in Cmds, b \in Blocks, r, q \in Draws(cache.policy) :
     \/ AccessFastHit(cmd, b)
     \/ AccessSlowHit(cmd, b, r)
     \/ AccessMiss(cmd, b, r, q)
     \/ AccessSegv(cmd, b, r, q)

Next == AnyAccess \/ FlushAll \/ \E b \in Blocks : FlushOne(b)

Spec == Init /\ [][Next]_vars

-----------------------------------------------------------------------------
\* The cache, the history variable and the process flag have their types.
TypeOK ==
  /\ cache \in CacheType
  /\ unsaved \subseteq Blocks
  /\ running \in BOOLEAN

\* Every way list is a permutation of its set's ways: update_way_list never
\* loses, duplicates or misplaces a block, whatever mix of hits, prefetches,
\* replacements and flushes reorders it.
WayOrder ==
  \A s \in Sets :
    LET pos == cache.sets[s].pos
    IN  /\ \A v, w \in Ways : pos[v] = pos[w] => v = w
        /\ \A i \in Ways : \E w \in Ways : pos[w] = i

\* A block is never cached twice: neither the miss path nor a prefetch
\* (cache_issue_prefetch) refills a way with a tag its set already holds.
\* With two copies, a write to one would be lost to reads of the other.
NoDuplicateBlocks ==
  \A s \in Sets : \A v, w \in Ways :
     LET S == cache.sets[s]
     IN  S.blk[v].valid /\ S.blk[w].valid /\ S.blk[v].tag = S.blk[w].tag => v = w

\* last_blk, which a fast hit uses without looking at it, holds the block
\* last_tagset names: a block that was replaced, prefetched over or flushed
\* is never taken for the last one to hit.
LastBlkCoherent ==
  cache.lastBlk # NoBlk =>
    LET blk == cache.sets[SetOf(cache.last)].blk[cache.lastBlk]
    IN  blk.valid /\ blk.tag = TagOf(cache.last)

\* No write is lost or written back twice: the valid dirty blocks are exactly
\* those written since they were last handed to the next level, across
\* evictions by demand misses, evictions by prefetches, and flushes.
DirtyIsUnsaved == unsaved = Dirty(cache)

\* cache_fast_hit's "this block hit last, no change in the way list" is right
\* under LRU: the block it hits is already at the head, even though the hit
\* that recorded it also issued a prefetch into some way list.
FastHitIsMRU ==
  cache.policy = "LRU" /\ cache.lastBlk # NoBlk =>
    cache.sets[SetOf(cache.last)].pos[cache.lastBlk] = 0

\* Under LRU and FIFO no valid block is replaced while its set has an invalid
\* one, after any flush and flush_addr: the invalid blocks are at the tail.
InvalidAtTail ==
  cache.policy \in {"LRU", "FIFO"} =>
    \A s \in Sets : \A v, w \in Ways :
      LET S == cache.sets[s]
      IN  S.blk[v].valid /\ ~S.blk[w].valid => S.pos[v] < S.pos[w]

-----------------------------------------------------------------------------
(* The cache is a write-back cache: an access leaves its block cached,     *)
(* brings in at most one other block (the prefetch), disturbs no set but   *)
(* those of the two, and never drops data that was not written back.       *)

WB == INSTANCE WriteBackCache WITH cached <- Cached(cache)

WriteBackSpec == WB!Spec

-----------------------------------------------------------------------------
(* Under LRU and FIFO the cache is the textbook cache.                     *)

\* The tags of set S along its way list, up to the invalid blocks at its tail.
Stack(S) ==
  LET n == CHOOSE n \in 0 .. Assoc : \A w \in Ways : S.blk[w].valid <=> S.pos[w] < n
      At(i) == CHOOSE w \in Ways : S.pos[w] = i - 1
  IN  [i \in 1 .. n |-> S.blk[At(i)].tag]

Stacks(c) == [s \in Sets |-> Stack(c.sets[s])]

SC == INSTANCE StackCache WITH
        policy <- cache.policy, pref <- cache.pref, stack <- Stacks(cache)

\* Under LRU and FIFO, without a prefetcher or with the next-line one, the
\* cache of cache.c is the textbook cache: way lists, invalid ways, stale
\* tags, the fast-hit shortcut and the order in which an access prefetches,
\* replaces and reorders make no difference to what is cached and replaced.
StackSpec == SC!Spec

=============================================================================
