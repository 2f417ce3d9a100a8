---------------------------- MODULE MCSimCache ----------------------------
(* Instance of SimCache for TLC. *)
EXTENDS SimCache

MCStrideIndex(b) == b % StrideTableSize

\* A cache without what no operation reads: the tag and dirty bit of its
\* invalid blocks.
Live(c) ==
  [c EXCEPT !.sets = [s \in DOMAIN c.sets |->
     [c.sets[s] EXCEPT !.blk = [w \in DOMAIN c.sets[s].blk |->
        LET blk == c.sets[s].blk[w]
        IN  IF blk.valid THEN blk ELSE [blk EXCEPT !.tag = 0, !.dirty = FALSE]]]]]

LiveState == <<il1Opt, Live(dl1), Live(il1), Live(dl2), newest, running>>
=============================================================================
