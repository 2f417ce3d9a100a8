# A TLA+ verification of the extended SimpleScalar simulators

The repository extends SimpleScalar 3.0 (`simplescalar/simplesim-3.0`) with LFU
replacement and with a next-line and a stride prefetcher, and compares them on a
set of benchmarks. The results are hit and miss counts and cycles, so they are
only as good as the simulator's idea of what is cached and of what its pipeline
does. This directory models the cache and its hierarchy (`cache.c`,
`sim-cache.c`), the out-of-order core and the front end of `sim-outorder.c` with
the return-address stack and the branch target buffer of `bpred.c`; checks them
with TLC on small instances; and proves the central parts with TLAPS for every
size.

Paths below are relative to `simplescalar/simplesim-3.0/` unless they name the
repository's root.

## 1. Inventory

| component | state | operations | interaction |
|---|---|---|---|
| cache (`cache.c`, `cache.h`) | per set: way list (replacement order), blocks (tag, valid, dirty, `freq_count`, `ready`), hash chains when assoc > 4; per cache: `last_tagset`/`last_blk`, stride table, `bus_free`, counters | `cache_create`, `cache_access` (fast hit, slow hit, miss), `cache_probe`, `cache_flush`, `cache_flush_addr`; internal: `update_way_list`, `cache_prefetch_logic`, `cache_issue_prefetch` | calls `blk_access_fn` of its creator for every block it reads or writes below |
| `sim-cache.c` | dl1, dl2, il1, il2, dtlb, itlb | one instruction fetch and at most a few data accesses per instruction; flush on system calls (`-flush`) | `dl1_access_fn` is `cache_access(dl2)` etc.; il1/il2 may alias dl1/dl2 |
| `sim-outorder.c`, core | RUU, LSQ, ready queue, event queue, create vectors, functional units | commit, unit release, writeback, recover, LSQ refresh, issue, dispatch, once per cycle | data cache and TLB latencies, resource pools; recovery redirects the front end |
| `sim-outorder.c`, front end | fetch queue, `fetch_pred_PC`, fetch delay, `spec_mode`, `recover_PC` | fetch, dispatch of the path (misfetch, misprediction, perfect prediction), recovery | branch predictor, instruction cache and TLB |
| `bpred.c` | direction tables, BTB with LRU lists, return-address stack | lookup, update, recover | driven at fetch/dispatch and commit |
| `eventq.c` | pending and free lists | queue, execute, remove, service | callbacks may queue events |
| `resource.c` | instance busy counters | create, get | the pipeline sets and decrements `busy` |
| `memory.c` | hashed page table | translate (move to front), new page, access | every simulator |
| scripts (repository root) | running jobs, result files | `run_benchmarks.sh` keeps at most 24 simulations running | start `sim-cache` |
| loaders, options, stats, eval, dlite, eio, ptrace, instruction tables | | text and file I/O, generated code | not modelled |
| gcc, binutils, `simplesim-3v0d`, spec95 | | | vendored, not modelled |

One simulator is one thread. What is hard in the cache is order and staleness
inside a single access, and state that misbehaves only many accesses later:

* a hit or a miss issues its prefetch in the middle of its own work, and the
  prefetch runs the whole replacement machinery, possibly in the same set;
* `last_blk` is a cached pointer that later accesses use without a check;
* flushes leave tags, dirty bits, frequencies and list order behind;
* dirty data may leave through four paths (miss, prefetch, flush, flush of one
  block), and a lost write is invisible until much later;
* counters wrap, 0 is used as "none", and a block difference wraps at 2^32.

In the pipeline the simulated machine is concurrent: instructions wait for each
other through links that are never removed, only outdated by a tag, and complete,
are squashed and give up their stations in any order:

* event, ready and dependence links outlive the instruction they were made for,
  and its station is used again;
* a squash walks two circular queues in step and forgets the speculative renames,
  while instructions of both paths are still to complete;
* loads wait for older stores whose addresses and data arrive in any order;
* units, ports and bandwidth run out, and what is put back must come round again;
* fetch runs ahead on predictions, and is redirected by dispatch (misfetch) and by
  writeback (misprediction) while it is blocked by a miss or a penalty;
* the return-address stack is moved at fetch, on wrong paths too, and repaired
  from one saved index.

The core is correct when the correct path retires in program order, each
instruction once and all of them, which rests on exact wake-ups, renames, queues,
RUU/LSQ pairing and memory order. The front end is correct when what it dispatches
outside `spec_mode` is the program, and when it never stops.

A cache is correct when its way lists are permutations of the ways, a block is
never cached twice, the fast-hit shortcut is unobservable, dirty data is written
back exactly once, and the victim is the one the policy names. `PROJECT.json`
lists the hazards by line with the properties that catch them.

## 2. Modules

| module | what it is |
|---|---|
| `CacheOps` | the operations of `cache.c` as operators on a cache record; no variables |
| `Cache` | one cache and its user: any sequence of accesses and flushes; the safety properties; the mappings to `WriteBackCache` and `StackCache` |
| `CacheLFU` | `Cache` with a history of how often each cached block was accessed |
| `SimCache` | the hierarchy of `sim-cache.c`: dl1 and il1 over dl2, two instances of `CacheOps` of different geometry |
| `WriteBackCache` | abstract: what any write-back cache with at most one prefetch per access promises |
| `StackCache` | abstract: the textbook LRU and FIFO caches, a sequence of tags per set |
| `CacheOpsProofs`, `CacheProofs` | lemmas about the operators; the theorems |
| `CacheLFUProofs` | theorems about LFU |
| `SimCacheProofs` | theorems about the hierarchy |
| `Ruu` | the out-of-order core: RUU, LSQ, create vectors, ready and event queues, functional units, and every stage from commit to dispatch |
| `InOrder` | abstract: what the core promises, in-order retirement of all the correct path |
| `FrontEnd` | fetch, the fetch queue, what dispatch and recovery do to the path, the return-address stack and the BTB |
| `FrontEndProofs` | theorems about `FrontEnd` |
| `RuuOpsProofs` | lemmas about the helpers of `Ruu` that walk a list: broadcast, `lsq_refresh`, the ready queue |
| `RuuChainProofs` | what links instructions, and what each operation does to it |
| `RuuProofs` | the stages of the core, the theorems about `Ruu`, and its refinement of `InOrder` |
| `MCCache`, `MCCacheLFU`, `MCSimCache` | instances for TLC |
| `MCRuu`, `MCFrontEnd` | instances of the pipeline for TLC |

### State and actions

A set is `[pos, blk]`: `pos[w]` is the place of way `w` in the doubly linked way
list (0 is `way_head`), `blk[w]` its tag, valid and dirty bits and `freq_count`.
A cache adds its policy and prefetcher, `last`/`lastBlk` (`last_tagset`,
`last_blk`, with `NoBlk` for NULL) and the stride table. Addresses are block
numbers: no simulator allocates block data (`balloc` is FALSE in every call of
`cache_create`), so an access is a command and a block.

| model | code |
|---|---|
| `ToHead`, `ToTail` | `update_way_list` |
| `Victim`, `LeastFrequent`, `NoVictim` | the replacement switch, in `cache_access` and `cache_issue_prefetch` |
| `WriteBack`, `Refill` | write-back and refill of the victim |
| `IssuePrefetch`, `Train`, `StridePrefetch`, `PrefetchLogic` | the prefetchers |
| `FastHit`, `SlowHit`, `Miss`, `Access` | the three paths of `cache_access`, each with its prefetch where the code issues it |
| `Flush`, `FlushAddr`, `Created` | `cache_flush`, `cache_flush_addr`, `cache_create` |

`Cache` has an action per path of `cache_access`, one for each flush, and
`AccessSegv` for the two places where the code dereferences NULL: a fast hit on
block 0 while `last_blk` is NULL (0 is both an address and the "no last block"
mark), and an LFU scan of a set whose counters are all `UINT_MAX`. After that the
process is gone, which is why the runs do not check deadlock.

The history variable `unsaved` is the set of blocks written by the program since
they were last handed to `blk_access_fn`; it is computed from the program's
accesses and the blocks written below, never from the dirty bits.

`SimCache` has an action for data accesses (`__READ_CACHE`, `__WRITE_CACHE`,
`dcache_access_fn`), for instruction fetches through each cache `-cache:il1` may
name, and for `SYSCALL` with `-flush`. The blocks that a first-level access writes
and reads below itself become accesses of dl2 in the order of the code (victim of
the prefetch, prefetched block, victim of the miss, missed block), and those of a
flush in the order of its two loops, over the sets and along each way list. `Below`
makes such calls one after the other; dl2's random draws make the outcome a set of
hierarchies. The history variable `newest` says for each block how far down its
newest data got.

`Ruu` has the stages of `sim_main()` as the value of `stage`. A loop of a stage is
one action per iteration (`ruu_commit`, `ruu_writeback`, `ruu_issue`,
`ruu_dispatch`), ended by an action that also does what `sim_main` does next
(`ruu_release_fu` is the end of the commit loop, `EndIssue` puts what was not
issued back); `lsq_refresh` is one step. A station is a record with the fields of
`struct RUU_station` that any decision reads; `RuuLive` and `LsqLive` are the
circular queues from head to tail, so `RUU_tail` is not a variable of its own. An
RS link is a station and a tag, valid while the station has that tag, as
`RSLINK_VALID` says; links to squashed stations stay in the queues and chains
until the code drops them. Helpers that change several of these thread a record
(`World`) through the loops of the C code. A `panic()` adds its text to `panics`
and ends the behaviour. The histories are `last_commit` and `served` (operations
each unit began in this cycle).

`FrontEnd` has the same cycle with the stages as fetch sees them. `Code` gives
each address of the text its kind and its direct target; an address outside the
text is `BOGUS` and fetches a NOP, as `ruu_fetch` does. `Predicted` is the result
of `bpred_lookup` (0 is "no prediction", 1 "taken, target unknown"),
`bpred_lookup` its effect on the stack. The histories are `arch_PC`, the next
instruction of the program, computed from the outcomes of the instructions
dispatched outside `spec_mode`, and `true_tos`, the top of the stack as those
instructions move it.

### Abstractions

* Hash chains (`hsize`, used when assoc > 4) are replaced by the lookup they
  implement. Every block is always in exactly one chain (linked at creation,
  unlinked and relinked around each change of its tag), so a search of the chain
  and of the way list find the same block when no tag is duplicated, which
  `NoDuplicateBlocks` shows.
* Time (`ready`, `bus_free`, latencies) and the statistics counters never decide
  what is cached; they are left out for now.
* il1 has the geometry of dl1, as in all files of `cache_configs/`; the TLBs have no
  level below them and are `Cache`s on their own.
* `myrand() & (assoc - 1)` is any way.
* Widths: the number of blocks is `NSets * NTags` (2^32 / bsize in the code) and
  block arithmetic wraps there; `freq_count` wraps at `FreqMod` (2^32).
* The stride index is a parameter: the code's `(b ^ (b >> 4)) % 128` for TLC is
  scaled to a shift by 1 and a table of one or two entries; the proofs hold for
  any hash into the table.

Of the pipeline:

* `Ruu` does not fetch. In each dispatch it is offered any instruction of `Insts`,
  or none, and any control instruction outside `spec_mode` may be mispredicted;
  which ones are is what `FrontEnd` models. NOPs change nothing in the core.
* A data cache and TLB access takes any latency of `LoadLats`; a load that finds
  an older store of its address in the LSQ may take 1. Event times are relative to
  `sim_cycle`.
* A freed station keeps only its tag and its output chains. Nothing reads its
  other fields before dispatch overwrites them.
* The pool of RS links (`MAX_RS_LINKS`) is unbounded, and values (registers,
  speculative register and memory copies) are not modelled: instructions execute
  at dispatch in program order, so timing never changes them.
* `MaxSeq` bounds the instructions dispatched, `MAX_STD_UNKNOWNS` is the code's
  array bound (64), here as large as the LSQ.
* In `FrontEnd` the back end is the control instructions in flight (at most
  `MaxBranches`); they complete in any order and commit in order, or dispatch stalls.
  The direction tables answer anything, conditional branches go either way,
  indirect jumps lead anywhere, and a miss delays fetch by any of `MissDelays`.
* The stack has at least one entry (`RetSize >= 1`; 0 disables it in the code).
  With the static predictors the index saved for recovery is an uninitialised
  variable of `ruu_fetch`, and the stack it restores is never read.
* `-max:inst` and the exit system call, which end the simulation, are left out.

## 3. Runs

| run | instance | shows |
|---|---|---|
| `cache_policies` | 2 sets x 2 ways, 6 blocks; LRU, FIFO, Random; none, next_line | `WayOrder`, `NoDuplicateBlocks`, `LastBlkCoherent`, `DirtyIsUnsaved`, `FastHitIsMRU`, `InvalidAtTail` |
| `cache_stride` | 1 set x 2 ways, 4 blocks, one stride entry; LRU, FIFO, Random | `TypeOK`, `NoDuplicateBlocks`, `InvalidAtTail` where every prefetch competes with its own access |
| `cache_stack` | 2 sets x 2 ways, 6 blocks; LRU, FIFO; none, next_line | `StackSpec`: the code's cache is the textbook cache |
| `cache_lfu` | 1 set x 2 ways, 4 blocks; LFU without prefetcher | `FreqIsUses`, `EvictsLeastUsed`, and `WriteBackSpec` |
| `sim_cache` | dl1, il1: 2 sets x 1 way, 8 blocks; dl2: 2 sets x 1 way, blocks twice as large; LRU; none, next_line; all three places of il1 | `NewestIsHeld`, `FlushReachesMemory` |
| `stride_self_evict` | 2 sets x 2 ways, 8 blocks; LRU, stride | `LastBlkCoherent` is violated (finding 1) |
| `lfu_prefetch` | 2 sets x 2 ways, 6 blocks; LFU, next_line | `EvictsLeastUsed` is violated (finding 2) |
| `ruu` | 4 RUU and 3 LSQ stations, widths 2, one ALU, multiplier and port; 7 sequence numbers; loads, stores that wait for data, for their address or for nothing, a 3-cycle producer, branches; default options | `TypeOK`, `WakeupExact`, `NoPanic`, `InSync`, `SpecBoundary`, `RenameCorrect`, `QueuesExact`, `LoadAfterStore` |
| `ruu_retire` | 3 RUU and 2 LSQ stations, 6 sequence numbers; traps, jumps that read and write a register; all eight settings of `-issue:wrongpath`, `-issue:inorder`, `-bugcompat` | `NoPanic`, and `RetiresInOrder`: the core implements `InOrder`, liveness included |
| `ruu_port` | as `ruu_retire`, default options | `OneOpPerCycle` is violated (finding 3) |
| `frontend` | a loop of a conditional branch, a call, a jump and a return; fetch queue of 2, stack of 2, BTB of 1, 2 branches in flight; update at commit, writeback and dispatch, `taken`, `nottaken`, `perfect` | `TypeOK`, `CorrectPath`, `MisfetchIsBogus`, `RasFollowsPath`, `PathAdvances` |
| `ras_recover` | the same | `RestoresTos` is violated (finding 4) |

Bounds. Two ways per set are the least at which order and the choice of a victim
matter; two sets let a prefetch fall into the accessed set or into another one;
three tags per set allow evictions from a full set, and where a prefetch may fall
into the accessed set the fourth lets the prefetched and the demanded block both be
new. In `sim_cache` a dl2 block holds two dl1 blocks, so that one of them can be
newer in dl1 while the other is dirty in dl2, and both levels evict; fetches come
from two blocks (`TextBlocks`) that compete for a set. `FreqMod = 1` removes `freq_count`
where no policy reads it. In `cache_lfu` a block is used at most `MaxUses = 4`
times while it is cached, below `FreqMod - 1`, which stands for programs that
access no block 2^32 - 1 times.

In `ruu` four stations and seven sequence numbers let an old producer run while a
younger branch is resolved, the instructions behind it are squashed, and their
stations are taken again by new consumers of the same producer (the case tags are
for); the LSQ wraps and holds two stores and a load. One port and one ALU make
units and the bandwidth of 2 run out. The program of `frontend` has every kind of
prediction but an indirect call or jump, which the liveness check leaves no room
for; the safety invariants were also checked with an indirect jump in place of the
direct one and with an indirect call, and are proved for every program. The stack
and the BTB are small enough to overflow and to conflict.

The `VIEW` of the runs ignores the tag and the dirty bit of invalid blocks (every
read of them in the code is guarded by the valid bit, and a refill overwrites
them) and `freq_count` under policies that do not read it. No property reads
them either.

Fairness. The cache has none: each call runs to completion, and whether the user
makes another one is not the cache's business. In `Ruu`, `WF_vars(Stages)` says
that `sim_main`'s loop does not stop between two stages; that fetch ever offers
another instruction is not assumed, and `InOrder`'s own fairness (what was
dispatched retires) follows. In `FrontEnd`, `WF_vars(Next)` is the same loop. The
strong fairness of writeback and commit states what `ruu_retire` shows of the
core, that a branch in flight completes and retires; of dispatch, that the core
then has room again while every cycle tries to dispatch; of fetch, that a block
that missed is in the cache when fetch tries it again after the delay, which
caches in which other accesses keep evicting it would not give.

### Findings

1. **A stride prefetch can evict the block that is being hit.** The slow-hit path
   (`cache.c:857`) prefetches before it marks the block dirty, reorders it and
   records it in `last_blk`. If the stride is a multiple of the number of sets
   (any multiple of 2^11 blocks shares a stride-table entry; next_line does the
   same in a fully associative cache, one set), the prefetch may choose the hit
   block as its victim. The block's way then holds the prefetched tag, a write is
   recorded on the wrong block, and the following accesses to the evicted block
   are counted as fast hits. The comment at `cache.c:877`, "tag is unchanged", is
   what fails.
2. **LFU counts a prefetch as an access.** `cache_issue_prefetch` sets
   `freq_count = 1` (`cache.c:232`), so a block that was never used ties with one
   that was used once, and the tie is broken by list order. The root README (line
   29) describes `freq_count` as the number of accesses.

3. **A port taken at commit is free again in the same cycle.** `ruu_commit`
   reserves a memory port for a store (`sim-outorder.c:2186`), and `sim_main` calls
   `ruu_release_fu` right after it, which counts the reservation down before
   `ruu_issue` runs. With the issue latency of 1 of `fu_config` the port serves a
   store and a load in one cycle; `resource.h:74` defines the issue latency as the
   "number of cycles before another operation can be issued on this resource".
   Reservations made at issue last as documented.
4. **Recovery from a mispredicted return undoes the return.** `bpred_lookup` saves
   the top of the return-address stack before its own pop or push
   (`bpred.c:639`), and `bpred_recover` restores it (`bpred.c:732`). The comment at
   `bpred.c:551` calls the value "the non-speculative top-of-stack"; for a
   mispredicted return or indirect call, which is itself on the correct path, it is
   one entry off, and later returns are predicted from the wrong entry. For all
   other branches it is right, also through misfetches, which repair nothing
   (`RasFollowsPath`). Only predictions suffer, never the path (`CorrectPath`).

Also seen while modelling, not stated as findings: the confidence test of the
stride prefetcher never blocks a prefetch, since a new stride starts at
confidence 1 and the threshold is 1 (root README lines 53 and 81 suggest
otherwise, line 62 agrees); `freq_count` survives `cache_flush`, so LFU may
replace a valid block although the set has an invalid one (`InvalidAtTail` is
therefore stated for LRU and FIFO); `-bpred taken` behaves as not taken, because
`ruu_fetch` passes 0 as the branch target (`sim-outorder.c:4292`, "FIXME: not
computed") and the static predictor returns it.

## 4. Proofs

`CacheProofs` proves, for every number of sets, ways and tags, every counter
width, every stride table and hash (`GeometryAssumption`, `FreqAssumption`,
`StrideAssumption`, `ConfigAssumption`):

| theorem | statement |
|---|---|
| `TypeCorrect` | `Spec => []TypeOK` |
| `WayListsSound` | `Spec => []WayOrder` |
| `BlocksUnique` | `Spec => []NoDuplicateBlocks` |
| `LastBlkSound` | `SafeConfig => (Spec => []LastBlkCoherent)` |
| `NoLostWrites` | `SafeConfig => (Spec => []DirtyIsUnsaved)` |
| `ImplementsWriteBack` | `SafeConfig => (Spec => WriteBackSpec)` |
| `FastHitsAreMRU` | `Spec => []FastHitIsMRU` |
| `InvalidBlocksFirst` | `Spec => []InvalidAtTail` |
| `ImplementsStackCache` | `SafeConfig /\ StackConfig => (Spec => StackSpec)` |

and `CacheLFUProofs`

| theorem | statement |
|---|---|
| `FreqCountsAccesses` | `CountingConfig => (LFUSpec => []FreqIsUses)` |
| `LeastUsedGoes` | `CountingConfig => (LFUSpec => EvictsLeastUsed)` |
| `LFUImplementsWriteBack` | `SafeConfig => (LFUSpec => WriteBackSpec)` |

`CountingConfig` is no prefetcher (finding 2) and counters that do not wrap. The
theorems without a hypothesis hold for all four policies and all prefetchers.
`SafeConfig` is the condition that no prefetch reaches the set of the access that
issues it: no prefetcher, or next_line with more than one set. Finding 1 shows that it
cannot be dropped. `StackConfig` says that the policies are LRU and FIFO, the two that
`StackCache` defines.

The argument. Types alone are not inductive: replacing "the way at the tail" needs
the list to have a tail, and a hit needs a unique match. `IInv` therefore joins
types, permutation way lists and unique tags. `CacheOpsProofs` shows for each
operator what it preserves and what it does to the set of cached and of dirty
blocks: `ReplaceEffect` (a refill with an uncached block drops at most one block,
of the same set, and writes it back exactly if dirty), `PrefetchLogicOK` (a
prefetch never fetches the accessed block, and in a safe configuration leaves the
accessed set alone), then `FastHitOK`, `SlowHitOK`, `MissOK`, `FlushOK`,
`FlushAddrOK`. A miss is right with every prefetcher, since it picks its victim
after the prefetch; a slow hit needs `SafePref`, since it found its block before.
`DataInv` adds that `last_blk` is what it claims to be, which a fast hit needs to
mark the right block dirty, and `unsaved = Dirty(cache)`. `NextInv` goes through
the actions once, for the invariants and the refinement step together.

The two properties of the order are inductive beside `IInv`: a prefetch may reorder
the set of the access that issues it, but makes no block invalid and keeps the
invalid ones behind (`OrderOK`), and what a hit does afterwards starts from the list
that the prefetch left.

For `StackCache`, a set is mapped to the tags along its way list up to the first
invalid block (`Stack`). The proof uses a relation instead, `Shows(S, st)`: block `w`
is valid iff its place is below the length of `st`, and `st` has its tag there. An
ordered set shows its stack and nothing else (`StackShown`, `ShownOnce`), so a lemma
about `Shows` per operation suffices: a reordering to the head is `Newest` of a tag
that is there (`PromotedShown`), a refill of the tail `Newest` of one that is not
(`RefilledShown`), a flushed block at the tail `Without` (`RemovedShown`). Two facts
need more than one operation. A fast hit neither prefetches nor reorders while the
textbook access does both: the latter changes nothing since the block heads its list
(`FastHitsAreMRU`), the former since the next line is still cached (`NextHeld`), put
there by the slow hit that recorded `last_blk`; whatever could have dropped it since
has cleared `last_blk`. And a slow hit prefetches between its search and its
reordering, which needs `SafeConfig`.

`LFUInv` adds to `IInv` and `DataInv` that a block that is
not cached has no uses: the refill then starts its counter at the right value, and a
fast hit counts the right way because `last_blk` is coherent. The scan selects a
least counter (`LeastFrequentInWays`), which with exact counters is a least used
block (`MissEvicts`).

`SimCacheProofs` proves, for every geometry of the two levels whose blocks cover the
same memory (`SizeAssumption`), every policy of each level, text and place of the
fetches (`HierarchyAssumption`),

| theorem | statement |
|---|---|
| `NewestHeld` | `SafeConfig => (Spec => []NewestIsHeld)` |
| `FlushedToMemory` | `SafeConfig => (Spec => []FlushReachesMemory)` |

with `SafeConfig` for the prefetcher that all levels share: none, or next_line with
more than one set in every cache. The lemmas of `CacheOpsProofs` are instantiated for
both geometries. `AccessEffect` sums up a whole `cache_access` for its user: what it
drops it wrote back if it was dirty, at most one block for the prefetch and one for
the miss, and the accessed block is cached then, dirty if it was written. The
invariant `HInv` says that all caches are coherent, that il1 is clean, that dl1's dirty
blocks are those with `newest` in dl1, and that what is newest in dl2 is in one of its
dirty blocks. A sequence of calls below dl1 is followed call by call (`BelowWalk`, by
induction on its length): what was written is out of dl1 and in dl2 or memory, and
nothing else moved up or was dropped (`Moved`). This is where the order counts that
`NewestIsHeld` is about, since between two of the calls dl2 may drop what the first
one gave it. `FlushTrafficOK` shows that the two loops of `cache_flush` write exactly
the dirty blocks, one at a time; after them nothing is newest in dl1, and the flush of
dl2 saves the rest. `FlushReachesMemory` itself is part of `HInv`: an access leaves its
block in dl1, so only a flush empties dl1, and a fetch past an empty dl1 finds nothing
to move.

`FrontEndProofs` proves, for every program text, every option, every size of the
fetch queue, the stack and the BTB, every width, penalty and miss delay
(`FrontEndAssumption`):

| theorem | statement |
|---|---|
| `FrontEndType` | `Spec => []TypeOK` |
| `StaysOnPath` | `Spec => []CorrectPath` |
| `MisfetchesAreBogus` | `Spec => []MisfetchIsBogus` |
| `RasStaysOnPath` | `Spec => []RasFollowsPath` |

`CorrectPath` speaks of the head of the fetch queue only. To survive a dispatch it
needs `Chained` (each queued instruction is at the address the one before it
predicted, and `fetch_pred_PC` at the last one's); to survive a recovery it needs
`OneRecovery` (at most one unresolved branch in flight is marked for recovery,
and outside `spec_mode` none is), so that no second recovery can resume at an old
`recover_PC`. `MisfetchIsBogus` needs `PathTypes`, which says that a BTB entry of
a direct branch holds its target, and `AfterMisfetch`, that behind a misfetch the
queue holds no control instruction and fetch is at the bogus address. `IInv` joins
these with `Scalars`; there is one lemma per stage (`CommitInv`, `WritebackInv`,
`DispatchInv`, `FetchInv`). `RasFollowsPath` looks at the first branch of the fetch
queue; `RasInv` needs all of it, chained by the tops of the stack that the lookups
saved (`RasChained`). A misfetch keeps the chain because nothing behind it moved the
stack (`AfterMisfetch` again), and a recovery because there is only one branch to
recover from.

`RuuProofs` proves, for all sizes of the RUU and the LSQ, all widths, all tables of
functional units and latencies, all instructions and all settings of the options
(`RuuAssumption`):

| theorem | statement |
|---|---|
| `StationsInUse` | `Spec => []TypeOK` |
| `QueuesInStep` | `Spec => []InSync` |
| `OneOpenBranch` | `Spec => []SpecBoundary` |
| `OneLinkEach` | `Spec => []QueuesExact` |
| `WakeUpsExact` | `Spec => []WakeupExact` |
| `RenamingCorrect` | `Spec => []RenameCorrect` |
| `LoadsWait` | `Spec => []LoadAfterStore` |
| `PanicFree` | `LSQ_size <= MAX_STD_UNKNOWNS` implies `Spec => []NoPanic` |
| `RetiresInProgramOrder` | `Spec => Architected!Safety`: the core implements `InOrder` without its fairness |

The hypothesis of `PanicFree` is the one bound that the code leaves to its user:
`lsq_refresh` keeps the addresses of the stores without data in an array of 64
entries and ends the simulation when it is full, and `sim_check_options` does not
compare it with `-lsq:size` (8 by default). No other theorem needs it.

None of the properties is inductive alone, and they need each other: that a
wake-up reaches the right instruction depends on the tags, on which stations are in
use, and on renaming; renaming depends on what is speculative; what is speculative
depends on the pairing of the two queues, which a squash walks together. The
invariant `Inv` is the conjunction of

* `Types`;
* `Core`, for the stations between the heads and the tails: `Structure` (each
  operand that waits has one valid link in a chain of an older, incomplete producer
  of its register; chains of completed instructions are empty; the create vectors
  name the youngest producers; a free station keeps nothing but its tag) and `Queues`
  (one link for each queued station, in the ready queue or in the list `ruu_issue`
  works on, one event for each that executes);
* `Window`: `Kinded` (loads and stores are in the LSQ), `Paired` (each of them
  directly follows its address computation), `Bounded` (`spec_mode` is one
  unresolved branch and exactly what is younger is speculative), `LoadsOK`;
* both queues ordered by age.

`RuuOpsProofs` shows what each iteration of a loop of the C code does, and the loop by
induction on its length: the walk of an output chain (`WakeAllEffect`), of the LSQ
(`RefreshGood`), of what was not issued (`RequeueGood`). `RuuChainProofs` shows that
linking, installing an output, the broadcast, retirement, squash and the queue
operations keep `Core`. Freeing a station is where tags matter: the new tag makes all
links to it invalid at once, in queues and chains, and no link from it is lost that
somebody waits for, since a retiring instruction has empty chains and the consumers of
a squashed one are squashed too. In `RuuProofs` a squash is shown to be a cut of both
queues at the branch (`Cut`, `CutExists`), which takes exactly the speculative
instructions, as many from the LSQ as there are address computations among those of
the RUU. `RenameCorrect` survives it because the speculative vector is dropped as a
whole and the other one never named what was squashed.

For the refinement, the window of `InOrder` is the sequence of the numbers of the
RUU's instructions that are not speculative. They are a prefix of the RUU
(`OwnPrefix`), so a commit takes the first of them (a completed instruction at the
head is never speculative, since the open branch would be older), dispatch appends
one outside `spec_mode` and none inside, a squash takes none, and all other stages
leave them alone (`PathSteady`). `Dispatched`, that nothing was retired which was
not dispatched, makes each number that enters new.

Only model-checked: the liveness property `PathAdvances` and the fairness half of
`RetiresInOrder` (`WF` and `SF` are out of the prover's reach). All other properties of
the passing runs are theorems. What needs `SafeConfig` is neither proved nor true
without it (finding 1).

## 5. Not modelled

By far most of the repository's lines are vendored: two versions of gcc, binutils,
the unmodified `simplesim-3v0d`, and benchmark data. They are not this project's
code, so the modelled share of all lines stays small whatever is done with the
simulators. Of the simulators themselves:

* time in the cache (`ready`, `bus_free`, latencies) and the statistics counters;
  byte-level alignment and span checks; the pointer form of way lists and hash
  chains;
* the direction tables of `bpred.c` (they answer anything in `FrontEnd`), and
  `sim-bpred.c`'s loop;
* register and memory values on speculative paths, the RS link pool, fast
  forwarding and pipeline traces of `sim-outorder.c`;
* `eventq.c`, which no simulator calls; `memory.c`, a sequential page table;
* functional simulators and instruction sets: loops and tables expanded by macros;
* loaders, system calls, options, statistics text, expressions, debugger, traces:
  parsing, formatting and I/O;
* the scripts that run the benchmarks and plot the results.

## 6. Plan

1. `CacheTiming`: `ready`, `bus_free` and latencies of demand and prefetch accesses.
2. `WayList`: the pointer-level way list and hash chains, refined to `pos` and to
   the lookup; `CacheAddr`: byte-level checks with wrap-around.
3. `Ruu` composed with `FrontEnd`, in place of the arbitrary offers and of the
   reduced back end.
