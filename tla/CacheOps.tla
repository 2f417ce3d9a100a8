------------------------------ MODULE CacheOps ------------------------------
(***************************************************************************)
(* The operations of SimpleScalar's cache (cache.c, cache.h), extended by  *)
(* this repository with LFU replacement and with the next-line and stride  *)
(* prefetchers, as functions from a cache to the result of an operation.   *)
(* The module has no variables: Cache drives one cache over a memory.      *)
(*                                                                         *)
(* Addresses are block numbers.  No simulator allocates block data (balloc *)
(* is FALSE in every cache_create call), so the bytes of a block are not   *)
(* modelled and an access is a command and a block.  Time (ready, bus_free *)
(* and the latency returned) is not modelled: it never decides which       *)
(* blocks are cached.                                                      *)
(*                                                                         *)
(* A set is a record of                                                    *)
(*   pos : the position of every way in the way list, 0 being way_head;    *)
(*   blk : the tag, status and freq_count of every way.                    *)
(* A cache is a record of                                                  *)
(*   policy, pref  : cp->policy and cp->prefetcher;                        *)
(*   sets          : the sets;                                             *)
(*   last, lastBlk : last_tagset and the way last_blk points to, NoBlk for *)
(*                   NULL.  last_blk always lies in the set of last_tagset *)
(*                   because the two are only assigned together;           *)
(*   table         : the stride table.                                     *)
(***************************************************************************)
EXTENDS Integers

CONSTANTS
  NSets,           \* cp->nsets
  Assoc,           \* cp->assoc
  NTags,           \* number of tags: 2^32 / (nsets * bsize)
  FreqMod,         \* number of values of the unsigned freq_count (2^32; 1 where
                   \* no policy looks at it)
  StrideTableSize, \* cp->stride_table_size
  StrideIndex(_)   \* the hash that picks a block's stride-table entry

ASSUME GeometryAssumption ==
  NSets \in Nat \ {0} /\ Assoc \in Nat \ {0} /\ NTags \in Nat \ {0}

ASSUME FreqAssumption == FreqMod \in Nat \ {0}

AllPolicies    == {"LRU", "Random", "FIFO", "LFU"}
AllPrefetchers == {"none", "next_line", "stride"}

NBlocks == NSets * NTags
Sets    == 0 .. NSets - 1
Ways    == 0 .. Assoc - 1
Tags    == 0 .. NTags - 1
Blocks  == 0 .. NBlocks - 1
Freqs   == 0 .. FreqMod - 1
Entries == 0 .. StrideTableSize - 1
NoBlk   == -1

ASSUME StrideAssumption ==
  /\ StrideTableSize \in Nat \ {0}
  /\ \A b \in Blocks : StrideIndex(b) \in Entries

Cmds == {"Read", "Write"}

Block       == [tag : Tags, valid : BOOLEAN, dirty : BOOLEAN, freq : Freqs]
Set         == [pos : [Ways -> Ways], blk : [Ways -> Block]]
StrideEntry == [last : Blocks, stride : Blocks, conf : 0 .. 3]
CacheType   == [policy : AllPolicies, pref : AllPrefetchers, sets : [Sets -> Set],
                last : Blocks, lastBlk : Ways \cup {NoBlk},
                table : [Entries -> StrideEntry]]

-----------------------------------------------------------------------------
(* Address macros, on block numbers.                                       *)

SetOf(b)      == b % NSets
TagOf(b)      == b \div NSets
MkBaddr(t, s) == (t * NSets) + s

-----------------------------------------------------------------------------
(* Way lists.                                                              *)

ToHead_SkipsShift(p, w) == [p EXCEPT ![w] = 0]

\* update_way_list(set, w, Head)
ToHead(p, w) ==
  [v \in Ways |-> IF v = w THEN 0
                  ELSE IF p[v] < p[w] THEN p[v] + 1 ELSE p[v]]

ToTail_ToHead(p, w) == ToHead(p, w)

\* update_way_list(set, w, Tail)
ToTail(p, w) ==
  [v \in Ways |-> IF v = w THEN Assoc - 1
                  ELSE IF p[v] > p[w] THEN p[v] - 1 ELSE p[v]]

-----------------------------------------------------------------------------
(* Lookup.                                                                 *)

Matches(S, t) == {w \in Ways : S.blk[w].tag = t /\ S.blk[w].valid}

\* The block a search of the way list stops at.
Found(S, t) ==
  CHOOSE w \in Matches(S, t) : \A v \in Matches(S, t) : S.pos[w] <= S.pos[v]

\* cache_probe
Probe(c, b) == Matches(c.sets[SetOf(b)], TagOf(b)) # {}

-----------------------------------------------------------------------------
(* Replacement.                                                            *)

\* Does the LFU scan leave min_blk NULL?  It only considers frequencies
\* strictly below the largest unsigned value.
NoVictim(pol, S) == pol = "LFU" /\ \A w \in Ways : S.blk[w].freq = FreqMod - 1

LeastFrequent_Oldest(S) == CHOOSE w \in Ways : S.pos[w] = Assoc - 1

\* The LFU scan: the lowest frequency, the first in the way list on a tie.
LeastFrequent(S) ==
  CHOOSE w \in Ways :
    \A v \in Ways : \/ S.blk[w].freq < S.blk[v].freq
                    \/ S.blk[w].freq = S.blk[v].freq /\ S.pos[w] <= S.pos[v]

\* The values myrand() & (assoc - 1) can take; other policies never draw.
Draws(pol) == IF pol = "Random" THEN Ways ELSE {0}

\* The block the replacement switch selects; r is the random draw.
Victim(pol, S, r) ==
  CASE pol \in {"LRU", "FIFO"} -> CHOOSE w \in Ways : S.pos[w] = Assoc - 1
    [] pol = "Random"          -> r
    [] pol = "LFU"             -> LeastFrequent(S)

WriteBack_IgnoresDirty(S, s, w) == {}

\* The block that replacing way w of set s writes to the next level, if any.
WriteBack(S, s, w) ==
  IF S.blk[w].valid /\ S.blk[w].dirty THEN {MkBaddr(S.blk[w].tag, s)} ELSE {}

Refill_AtTail(pol, S, w, t, dirty) ==
  [pos |-> S.pos,
   blk |-> [S.blk EXCEPT ![w] = [tag |-> t, valid |-> TRUE, dirty |-> dirty, freq |-> 1 % FreqMod]]]

\* Set S after its way w was chosen for replacement and refilled with tag t.
Refill(pol, S, w, t, dirty) ==
  [pos |-> IF pol = "Random" THEN S.pos ELSE ToHead(S.pos, w),
   blk |-> [S.blk EXCEPT ![w] = [tag |-> t, valid |-> TRUE, dirty |-> dirty, freq |-> 1 % FreqMod]]]

-----------------------------------------------------------------------------
(* Prefetching.  The result of a prefetch: the cache, the blocks written   *)
(* to and read from the next level (at most one of each, in that order),   *)
(* and whether the process dereferenced NULL.                              *)

NoPrefetch(c) == [c |-> c, wb |-> {}, rd |-> {}, segv |-> FALSE]

\* Steps 2 to 9 of cache_issue_prefetch: the block is not present.
FetchAhead(c, p, r) ==
  LET s == SetOf(p)
      S == c.sets[s]
      w == Victim(c.policy, S, r)
  IN  IF NoVictim(c.policy, S) THEN [NoPrefetch(c) EXCEPT !.segv = TRUE]
      ELSE [c    |-> [c EXCEPT !.sets[s] = Refill(c.policy, S, w, TagOf(p), FALSE)],
            wb   |-> WriteBack(S, s, w),
            rd   |-> {p},
            segv |-> FALSE]

IssuePrefetch_NoProbe(c, p, r) == FetchAhead(c, p, r)

IssuePrefetch_DropsDirty(c, p, r) ==
  IF Probe(c, p) THEN NoPrefetch(c) ELSE [FetchAhead(c, p, r) EXCEPT !.wb = {}]

\* cache_issue_prefetch
IssuePrefetch(c, p, r) == IF Probe(c, p) THEN NoPrefetch(c) ELSE FetchAhead(c, p, r)

Train_Unsaturated(e, b) ==
  LET str == (b - e.last) % NBlocks
  IN  IF e.last = 0 THEN [e EXCEPT !.last = b]
      ELSE [last |-> b, stride |-> str, conf |-> IF str # e.stride THEN 1 ELSE e.conf + 1]

\* The stride-table update.  Block differences wrap as 32-bit addresses do,
\* and last_addr = 0 marks an entry that was never trained.
Train(e, b) ==
  LET str == (b - e.last) % NBlocks
  IN  IF e.last = 0 THEN [e EXCEPT !.last = b]
      ELSE [last   |-> b,
            stride |-> str,
            conf   |-> IF str # e.stride THEN 1
                       ELSE IF e.conf < 3 THEN e.conf + 1 ELSE e.conf]

\* stride_detected, from the entry before and after the update.
StrideDetected(e, n) == e.last # 0 /\ n.conf >= 1 /\ n.stride # 0

\* The stride case of cache_prefetch_logic.
StridePrefetch(c, b, r) ==
  LET i == StrideIndex(b)
      n == Train(c.table[i], b)
      trained == [c EXCEPT !.table[i] = n]
  IN  IF StrideDetected(c.table[i], n)
      THEN IssuePrefetch(trained, (b + n.stride) % NBlocks, r)
      ELSE NoPrefetch(trained)

PrefetchLogic_SameLine(c, b, r) == IssuePrefetch(c, b, r)

\* cache_prefetch_logic, and the callers' test of cp->prefetcher
PrefetchLogic(c, b, r) ==
  CASE c.pref = "none"      -> NoPrefetch(c)
    [] c.pref = "next_line" -> IssuePrefetch(c, (b + 1) % NBlocks, r)
    [] c.pref = "stride"    -> StridePrefetch(c, b, r)

-----------------------------------------------------------------------------
(* cache_access.  The result: the cache, what the prefetch wrote and read  *)
(* (pwb, prd), then what the demand access wrote and read (wb, rd), and    *)
(* segv as above.                                                          *)

Outcome(c, pf, wb, rd) ==
  [c |-> c, pwb |-> pf.wb, prd |-> pf.rd, wb |-> wb, rd |-> rd, segv |-> FALSE]

Segv(c) == [c |-> c, pwb |-> {}, prd |-> {}, wb |-> {}, rd |-> {}, segv |-> TRUE]

\* freq_count++ on way w of set s; the counter is unsigned and wraps.
Count(c, s, w) == [c EXCEPT !.sets[s].blk[w].freq = (@ + 1) % FreqMod]

\* "update dirty status" on way w of set s.
MarkDirty(c, s, w, cmd) == [c EXCEPT !.sets[s].blk[w].dirty = @ \/ cmd = "Write"]

FastHit_NotCounted(c, cmd, b) ==
  IF c.lastBlk = NoBlk THEN Segv(c)
  ELSE Outcome(MarkDirty(c, SetOf(b), c.lastBlk, cmd), NoPrefetch(c), {}, {})

\* cache_fast_hit: last_tagset matched, and last_blk is used unseen.
FastHit(c, cmd, b) ==
  IF c.lastBlk = NoBlk THEN Segv(c)
  ELSE Outcome(MarkDirty(Count(c, SetOf(b), c.lastBlk), SetOf(b), c.lastBlk, cmd),
               NoPrefetch(c), {}, {})

Promote_Never(c, s, w) == c

Promote_AnyPolicy(c, s, w) == [c EXCEPT !.sets[s].pos = ToHead(@, w)]

\* "move this block to head of the way (MRU) list", under LRU only
Promote(c, s, w) ==
  IF c.policy = "LRU" THEN [c EXCEPT !.sets[s].pos = ToHead(@, w)] ELSE c

\* "record the last block to hit"
Remember(c, b, w) == [c EXCEPT !.last = b, !.lastBlk = w]

\* cache_hit: count, prefetch, mark dirty, reorder, remember.
SlowHit(c, cmd, b, r) ==
  LET s  == SetOf(b)
      w  == Found(c.sets[s], TagOf(b))
      pf == PrefetchLogic(Count(c, s, w), b, r)
  IN  IF pf.segv THEN Segv(c)
      ELSE Outcome(Remember(Promote(MarkDirty(pf.c, s, w, cmd), s, w), b, w), pf, {}, {})

Forget_Keeps(c) == c

\* "blow away the last block to hit"
Forget(c) == [c EXCEPT !.last = 0, !.lastBlk = NoBlk]

\* The miss path: prefetch, choose and write back a victim, refill it.
Miss(c, cmd, b, r, q) ==
  LET s  == SetOf(b)
      pf == PrefetchLogic(c, b, r)
      S  == pf.c.sets[s]
      w  == Victim(c.policy, S, q)
  IN  IF pf.segv \/ NoVictim(c.policy, S) THEN Segv(c)
      ELSE Outcome([Forget(pf.c) EXCEPT
                      !.sets[s] = Refill(c.policy, S, w, TagOf(b), cmd = "Write")],
                   pf, WriteBack(S, s, w), {b})

\* cache_access; r and q are the random draws of the prefetch and the miss.
Access(c, cmd, b, r, q) ==
  IF b = c.last THEN FastHit(c, cmd, b)
  ELSE IF Probe(c, b) THEN SlowHit(c, cmd, b, r)
  ELSE Miss(c, cmd, b, r, q)

-----------------------------------------------------------------------------
(* Flushing.  The dirty bit and the freq_count of an invalidated block     *)
(* stay as they are.                                                       *)

\* The blocks a cache holds, and those it holds dirty.
Cached(c) == {b \in Blocks : Probe(c, b)}
Dirty(c)  == {b \in Blocks : \E w \in Matches(c.sets[SetOf(b)], TagOf(b)) :
                                c.sets[SetOf(b)].blk[w].dirty}

\* cache_flush: writes Dirty(c) back and invalidates every block.
Flush(c) ==
  [Forget(c) EXCEPT !.sets =
     [s \in Sets |-> [c.sets[s] EXCEPT !.blk =
        [w \in Ways |-> [c.sets[s].blk[w] EXCEPT !.valid = FALSE]]]]]

\* cache_flush_addr: the same for one block, which moves to the list's tail.
FlushAddr(c, b) ==
  LET s == SetOf(b)
      w == Found(c.sets[s], TagOf(b))
  IN  IF ~Probe(c, b) THEN c
      ELSE [Forget(c) EXCEPT
              !.sets[s] = [pos |-> ToTail(c.sets[s].pos, w),
                           blk |-> [c.sets[s].blk EXCEPT ![w].valid = FALSE]]]

-----------------------------------------------------------------------------
(* cache_create: no block valid, the last way first in every way list.     *)

Created(pol, pf) ==
  [policy  |-> pol,
   pref    |-> pf,
   sets    |-> [s \in Sets |->
                 [pos |-> [w \in Ways |-> Assoc - 1 - w],
                  blk |-> [w \in Ways |->
                            [tag |-> 0, valid |-> FALSE, dirty |-> FALSE, freq |-> 0]]]],
   last    |-> 0,
   lastBlk |-> NoBlk,
   table   |-> [i \in Entries |-> [last |-> 0, stride |-> 0, conf |-> 0]]]

=============================================================================
