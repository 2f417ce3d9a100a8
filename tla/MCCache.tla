------------------------------ MODULE MCCache ------------------------------
(* Instance of Cache for TLC. *)
EXTENDS Cache, Bitwise

\* The index of cache_prefetch_logic, (b ^ (b >> 4)) % 128, scaled to a table
\* of a few entries and a shift by 1.
MCStrideIndex(b) == (b ^^ (b \div 2)) % StrideTableSize

\* What the code can still read: the tag and the dirty bit of an invalid
\* block are overwritten before they are used, and only LFU reads freq_count.
LiveBlk(blk) ==
  [blk EXCEPT !.tag   = IF blk.valid THEN @ ELSE 0,
              !.dirty = blk.valid /\ @,
              !.freq  = IF cache.policy = "LFU" THEN @ ELSE 0]

LiveState ==
  <<[cache EXCEPT !.sets = [s \in Sets |->
       [cache.sets[s] EXCEPT !.blk = [w \in Ways |-> LiveBlk(cache.sets[s].blk[w])]]]],
    unsaved, running>>

=============================================================================
