------------------------------ MODULE CacheLFU ------------------------------
(***************************************************************************)
(* Cache with a history variable that counts the accesses to every cached  *)
(* block since it was brought in, against which LFU's freq_count is        *)
(* measured.  MaxUses bounds the count; below FreqMod it stands for runs   *)
(* in which no block is accessed 2^32 - 1 times.                           *)
(***************************************************************************)
EXTENDS Cache

CONSTANT MaxUses

ASSUME MaxUsesAssumption == MaxUses \in Nat

VARIABLE uses

lfuVars == <<cache, unsaved, running, uses>>

LFUInit == Init /\ uses = [b \in Blocks |-> 0]

\* Block b was accessed; blocks that left the cache start from 0 again.
Used(b) ==
  uses' = [x \in Blocks |-> IF x \notin Cached(cache') THEN 0
                            ELSE IF x = b THEN uses[x] + 1 ELSE uses[x]]

LFUAccess(cmd, b, r, q) ==
  /\ uses[b] < MaxUses
  /\ \/ AccessFastHit(cmd, b)
     \/ AccessSlowHit(cmd, b, r)
     \/ AccessMiss(cmd, b, r, q)
  /\ Used(b)

LFUSegv(cmd, b, r, q) == AccessSegv(cmd, b, r, q) /\ UNCHANGED uses

LFUFlush ==
  /\ FlushAll \/ \E b \in Blocks : FlushOne(b)
  /\ uses' = [x \in Blocks |-> IF x \in Cached(cache') THEN uses[x] ELSE 0]

LFUNext ==
  \/ \E cmd \in Cmds, b \in Blocks, r, q \in Draws(cache.policy) :
       LFUAccess(cmd, b, r, q) \/ LFUSegv(cmd, b, r, q)
  \/ LFUFlush

LFUSpec == LFUInit /\ [][LFUNext]_lfuVars

-----------------------------------------------------------------------------
\* freq_count is the number of accesses to the block while it is cached (fast
\* hits, slow hits and the miss that brought it in), as long as no prefetch
\* brought it in and the counter has not wrapped.
FreqIsUses ==
  \A s \in Sets : \A w \in Ways :
    LET blk == cache.sets[s].blk[w]
    IN  blk.valid => blk.freq = uses[MkBaddr(blk.tag, s)]

\* A block that LFU replaces was accessed no more often than any block that
\* stays in its set.
EvictsLeastUsed ==
  [][cache.policy = "LFU" =>
       \A x, y \in Cached(cache) :
          /\ SetOf(x) = SetOf(y)
          /\ x \notin Cached(cache') /\ y \in Cached(cache')
          /\ Cached(cache') \ Cached(cache) # {}
          => uses[x] <= uses[y]]_lfuVars

=============================================================================
