----------------------------- MODULE MCCacheLFU -----------------------------
(* Instance of CacheLFU for TLC. *)
EXTENDS CacheLFU

MCStrideIndex(b) == b % StrideTableSize

\* The state without what no action reads: the tag and dirty bit of an
\* invalid block.
LiveState ==
  <<[cache EXCEPT !.sets = [s \in Sets |->
       [cache.sets[s] EXCEPT !.blk = [w \in Ways |->
          LET blk == cache.sets[s].blk[w]
          IN  IF blk.valid THEN blk ELSE [blk EXCEPT !.tag = 0, !.dirty = FALSE]]]]],
    unsaved, running, uses>>
=============================================================================
