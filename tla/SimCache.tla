------------------------------ MODULE SimCache ------------------------------
(***************************************************************************)
(* The cache hierarchy of sim-cache.c: a data cache dl1 over a second      *)
(* level dl2, and instruction fetches that go to a cache il1 of their own  *)
(* over dl2, or to dl1, or to dl2 (-cache:il1 and -cache:il2).  The caches *)
(* are those of CacheOps; what one level reads and writes below itself     *)
(* are accesses of the next.  All are made with the same prefetcher.       *)
(*                                                                         *)
(* Blocks are numbered in units of dl1's block size; a block of dl2 holds  *)
(* Ratio of them (a smaller block in dl2 is a fatal error of its first     *)
(* access).  The TLBs have nothing below them and share nothing with the   *)
(* caches: each is a Cache of its own.  Without dl2, dl1 is a Cache too.   *)
(***************************************************************************)
EXTENDS Integers, Sequences

CONSTANTS
  NSets1, Assoc1, NTags1,   \* geometry of dl1 and il1
  NSets2, Assoc2, NTags2,   \* geometry of dl2
  Ratio,                    \* dl1 blocks per dl2 block
  FreqMod, StrideTableSize, StrideIndex(_),
  Policies,                 \* replacement policies the caches may have
  Prefetchers,              \* values of -prefetcher
  Il1Opts,                  \* subset of {"il1", "dl1", "dl2"}
  TextBlocks                \* blocks the program is fetched from

L1 == INSTANCE CacheOps WITH NSets <- NSets1, Assoc <- Assoc1, NTags <- NTags1
L2 == INSTANCE CacheOps WITH NSets <- NSets2, Assoc <- Assoc2, NTags <- NTags2

ASSUME SizeAssumption ==
  /\ {NSets1, Assoc1, NTags1, NSets2, Assoc2, NTags2} \subseteq Nat \ {0}
  /\ {FreqMod, StrideTableSize, Ratio} \subseteq Nat \ {0}
  /\ L1!NBlocks = Ratio * L2!NBlocks

ASSUME HierarchyAssumption ==
  /\ \A b \in L1!Blocks : StrideIndex(b) \in L1!Entries
  /\ Policies \subseteq L1!AllPolicies /\ Prefetchers \subseteq L1!AllPrefetchers
  /\ TextBlocks \subseteq L1!Blocks

Blocks == L1!Blocks
Cmds   == L1!Cmds

\* CACHE_BADDR of dl2
L2Block(b) == b \div Ratio

VARIABLES
  il1Opt,  \* where instruction fetches go
  dl1, il1, dl2,
  newest,  \* for every block, which of dl1, dl2 and memory got its last data
  running  \* FALSE once the process died of a NULL dereference

vars == <<il1Opt, dl1, il1, dl2, newest, running>>

Init ==
  \E pol1, pol2 \in Policies, pf \in Prefetchers :
    /\ il1Opt \in Il1Opts
    /\ dl1 = L1!Created(pol1, pf)
    /\ il1 = L1!Created(pol1, pf)
    /\ dl2 = L2!Created(pol2, pf)
    /\ newest = [b \in Blocks |-> "memory"]
    /\ running = TRUE

-----------------------------------------------------------------------------
(* Traffic from the first level to dl2.  A hierarchy is a record of dl2    *)
(* (c), newest, and whether dl2 dereferenced NULL (segv).  The random      *)
(* draws of dl2 make the result of an access a set of hierarchies.         *)

\* Memory got the data of the dl2 blocks in saved.
Saved(new, saved) ==
  [b \in Blocks |-> IF new[b] = "dl2" /\ L2Block(b) \in saved THEN "memory" ELSE new[b]]

AccessDl2_AllReads(h, cmd, b) ==
  {LET o == L2!Access(h.c, "Read", L2Block(b), r, q)
       n == Saved(h.newest, o.pwb \cup o.wb)
   IN  IF h.segv \/ o.segv THEN [c |-> h.c, newest |-> h.newest, segv |-> TRUE]
       ELSE [c |-> o.c, newest |-> n, segv |-> FALSE]
   : r, q \in L2!Draws(h.c.policy)}

\* dl1_access_fn and il1_access_fn: an access of dl2, whose own write-backs
\* (dl2_access_fn) go to memory.  The data of a Write moves from dl1 to dl2.
AccessDl2(h, cmd, b) ==
  {LET o == L2!Access(h.c, cmd, L2Block(b), r, q)
       n == Saved(h.newest, o.pwb \cup o.wb)
   IN  IF h.segv \/ o.segv THEN [c |-> h.c, newest |-> h.newest, segv |-> TRUE]
       ELSE [c      |-> o.c,
             newest |-> IF cmd = "Write" THEN [n EXCEPT ![b] = "dl2"] ELSE n,
             segv   |-> FALSE]
   : r, q \in L2!Draws(h.c.policy)}

\* Traffic is a sequence of calls of blk_access_fn: a command, and the set of
\* the block it is called with, which is empty where the call is not made.
Call(cmd, bs) == [cmd |-> cmd, bs |-> bs]

\* The hierarchies that call a leads to from those in H.
Do(H, a) ==
  IF a.bs = {} THEN H ELSE UNION {AccessDl2(h, a.cmd, b) : h \in H, b \in a.bs}

\* The hierarchies after the sequence of calls.
Below(h, calls) ==
  LET after[n \in 0 .. Len(calls)] == IF n = 0 THEN {h} ELSE Do(after[n - 1], calls[n])
  IN  after[Len(calls)]

Now == [c |-> dl2, newest |-> newest, segv |-> FALSE]

\* What a first-level access with outcome o does below, in this order: the
\* prefetch writes a victim and reads, then the miss does.
Traffic(o) == <<Call("Write", o.pwb), Call("Read", o.prd),
                Call("Write", o.wb),  Call("Read", o.rd)>>

\* cache_flush of cache c: every set in turn, each along its way list.
FlushTraffic(c) ==
  [k \in 1 .. NSets1 * Assoc1 |->
     LET s == (k - 1) \div Assoc1
         w == CHOOSE w \in L1!Ways : c.sets[s].pos[w] = (k - 1) % Assoc1
     IN  Call("Write", L1!WriteBack(c.sets[s], s, w))]

Die == running' = FALSE /\ UNCHANGED <<il1Opt, dl1, il1, dl2, newest>>

-----------------------------------------------------------------------------
\* __READ_CACHE, __WRITE_CACHE and dcache_access_fn
DataAccess(cmd, b) ==
  /\ running
  /\ \E r, q \in L1!Draws(dl1.policy) :
       LET o == L1!Access(dl1, cmd, b, r, q)
       IN  IF o.segv THEN Die
           ELSE \E h \in Below(Now, Traffic(o)) :
                  IF h.segv THEN Die
                  ELSE /\ dl1' = o.c
                       /\ dl2' = h.c
                       /\ newest' = IF cmd = "Write" THEN [h.newest EXCEPT ![b] = "dl1"]
                                    ELSE h.newest
                       /\ UNCHANGED <<il1Opt, il1, running>>

\* The fetch of sim_main, from a separate il1
FetchIl1(b) ==
  /\ running /\ il1Opt = "il1"
  /\ \E r, q \in L1!Draws(il1.policy) :
       LET o == L1!Access(il1, "Read", b, r, q)
       IN  IF o.segv THEN Die
           ELSE \E h \in Below(Now, Traffic(o)) :
                  IF h.segv THEN Die
                  ELSE /\ il1' = o.c
                       /\ dl2' = h.c
                       /\ newest' = h.newest
                       /\ UNCHANGED <<il1Opt, dl1, running>>

\* The fetch of sim_main, when il1 is dl2
FetchDl2(b) ==
  /\ running /\ il1Opt = "dl2"
  /\ \E h \in Below(Now, <<Call("Read", {b})>>) :
       IF h.segv THEN Die
       ELSE /\ dl2' = h.c
            /\ newest' = h.newest
            /\ UNCHANGED <<il1Opt, dl1, il1, running>>

\* The fetch of sim_main, when il1 is dl1
FetchDl1(b) == il1Opt = "dl1" /\ DataAccess("Read", b)

Syscall_Dl2First ==
  /\ running
  /\ dl1' = L1!Flush(dl1)
  /\ LET n == Saved(newest, L2!Dirty(dl2))
     IN  \E h \in Below([c |-> L2!Flush(dl2), newest |-> n, segv |-> FALSE],
                        FlushTraffic(dl1)) :
           dl2' = h.c /\ newest' = h.newest
  /\ UNCHANGED <<il1Opt, il1, running>>

\* SYSCALL with -flush: flush dl1 into dl2, then dl2 into memory, which the
\* system call then uses directly.  Without it, a system call's accesses are
\* those of dcache_access_fn.
Syscall ==
  /\ running
  /\ \E h \in Below(Now, FlushTraffic(dl1)) :
       IF h.segv THEN Die
       ELSE /\ dl1' = L1!Flush(dl1)
            /\ dl2' = L2!Flush(h.c)
            /\ newest' = Saved(h.newest, L2!Dirty(h.c))
            /\ UNCHANGED <<il1Opt, il1, running>>

Next ==
  \/ \E cmd \in Cmds, b \in Blocks : DataAccess(cmd, b)
  \/ \E b \in TextBlocks : FetchIl1(b) \/ FetchDl1(b) \/ FetchDl2(b)
  \/ Syscall

Spec == Init /\ [][Next]_vars

-----------------------------------------------------------------------------
\* No write is lost between the levels: data that reached dl1 or dl2 and went
\* no further is in a valid dirty block there.  dl1's dirty blocks hold
\* nothing else, while the prefetches and write-backs of one level cause
\* replacements in the next.
NewestIsHeld ==
  \A b \in Blocks :
    /\ newest[b] = "dl1" <=> b \in L1!Dirty(dl1)
    /\ newest[b] = "dl2" => L2Block(b) \in L2!Dirty(dl2)

\* Memory is up to date whenever dl1 is empty, as a system call after a flush
\* needs it: the dirty blocks of dl1, although they were first written to dl2,
\* are nowhere but in memory.
FlushReachesMemory ==
  L1!Cached(dl1) = {} => \A b \in Blocks : newest[b] = "memory"
=============================================================================
