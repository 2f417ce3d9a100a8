------------------------------ MODULE FrontEnd ------------------------------
(***************************************************************************)
(* The front end of sim-outorder.c: instruction fetch along the predicted  *)
(* path, the fetch queue, what dispatch does to the path (misfetches,      *)
(* mispredictions, perfect prediction), recovery when a mispredicted       *)
(* branch completes, and the parts of bpred.c that choose an address: the  *)
(* return-address stack and the branch target buffer.                      *)
(*                                                                         *)
(* An instruction is its address; Code gives its kind and direct target.   *)
(* Which way a conditional branch goes, where an indirect jump leads and   *)
(* what the direction tables of bpred.c answer is arbitrary.  The back end *)
(* (module Ruu) is reduced to the control instructions in flight, which    *)
(* complete in any order and commit in order.                              *)
(***************************************************************************)
EXTENDS Integers, Sequences, SequencesExt

CONSTANTS
    Text,                \* addresses of the program text
    Code,                \* address -> [kind, target]
    Entry,               \* ld_prog_entry
    Options,             \* settings of the command line options
    ifq_size, decode_width, fetch_speed, branch_penalty,
    RetSize,             \* retstack.size
    BtbSets, BtbAssoc,
    MissDelays,          \* lat - 1 of an I-cache or I-TLB miss
    MaxBranches          \* control instructions the RUU holds

NONE  == 0               \* bpred_lookup(): no prediction
BOGUS == 1               \* bpred_lookup(): taken, target unknown

Kinds == {"other", "cond", "jump", "ijump", "call", "icall", "return"}

\* The next address; past the text, as at BOGUS, there are only bogus ones.
Seq1(pc) == IF pc + 1 \in Text THEN pc + 1 ELSE BOGUS

ASSUME FrontEndAssumption ==
    /\ Text \subseteq Nat \ {NONE, BOGUS, BOGUS + 1} /\ Entry \in Text
    /\ Code \in [Text -> [kind : Kinds, target : Text]]
    /\ \A pc \in Text : Code[pc].kind \notin {"return", "ijump"} => pc + 1 \in Text
    /\ Options \subseteq [class : {"stateful", "taken", "nottaken", "perfect"},
                          spec_update : {"ID", "WB", "CT"},
                          include_spec : BOOLEAN]
    /\ {ifq_size, decode_width, fetch_speed, RetSize, BtbSets, BtbAssoc,
        MaxBranches} \subseteq Nat \ {0}
    /\ branch_penalty \in Nat
    /\ MissDelays \subseteq Nat

VARIABLES
    options,                \* the options of this simulation
    fetch_pred_PC,          \* where fetch goes next
    ruu_fetch_issue_delay,  \* cycles fetch is blocked
    fetch_data,             \* the fetch queue
    tos, stack,             \* the return-address stack
    btb,                    \* set -> entries [addr, target], MRU first
    inflight,               \* dispatched control instructions, oldest first
    spec_mode, recover_PC,
    stage, count, branch_cnt,
    arch_PC,                \* history: next instruction of the program
    true_tos                \* history: tos as the correct path moves it

path    == <<fetch_pred_PC, fetch_data, spec_mode, recover_PC>>
ras     == <<tos, stack>>
history == <<arch_PC, true_tos>>
vars    == <<options, path, ruu_fetch_issue_delay, ras, btb, inflight, stage,
             count, branch_cnt, history>>

\* Opcode flags; what is fetched from a bogus address is a NOP.
Kind(pc)   == IF pc \in Text THEN Code[pc].kind ELSE "nop"
Ctrl(pc)   == Kind(pc) \in Kinds \ {"other"}
Uncond(pc) == Kind(pc) \in {"jump", "ijump", "call", "icall", "return"}
DirJmp(pc) == Kind(pc) \in {"cond", "jump", "call"}
IsCall(pc) == Kind(pc) \in {"call", "icall"}
IsRet(pc)  == Kind(pc) = "return"

pred_perfect == options.class = "perfect"
Stateful     == options.class = "stateful"

-----------------------------------------------------------------------------
(* bpred.c *)

Push(t) == (t + 1) % RetSize
Pop(t)  == (t + RetSize - 1) % RetSize

\* What the lookup of pc does to the top of the stack, and its inverse.
Moved(t, pc)   == IF IsRet(pc) THEN Pop(t) ELSE IF IsCall(pc) THEN Push(t) ELSE t
Unmoved(t, pc) == IF IsRet(pc) THEN Push(t) ELSE IF IsCall(pc) THEN Pop(t) ELSE t

BtbSet(pc) == btb[pc % BtbSets]
BtbHits(pc) == {k \in 1..Len(BtbSet(pc)) : BtbSet(pc)[k].addr = pc}
BtbTarget_NoTag(pc) == IF BtbSet(pc) = <<>> THEN NONE ELSE Head(BtbSet(pc)).target
BtbTarget(pc) == IF BtbHits(pc) = {} THEN NONE
                 ELSE BtbSet(pc)[CHOOSE k \in BtbHits(pc) : TRUE].target

\* The address bpred_lookup() returns; dir is the predicted direction.  The
\* caller passes 0 as the branch target, which static predictors return.
Predicted(pc, dir) ==
    IF ~Ctrl(pc) \/ options.class \in {"perfect", "taken"} THEN NONE
    ELSE IF options.class = "nottaken"
         THEN IF Uncond(pc) THEN NONE ELSE Seq1(pc)
    ELSE IF IsRet(pc) THEN stack[tos]
    ELSE IF ~Uncond(pc) /\ ~dir THEN NONE
    ELSE IF BtbTarget(pc) = NONE THEN BOGUS ELSE BtbTarget(pc)

\* Its effect on the return-address stack.
bpred_lookup(pc) ==
    IF Stateful
    THEN /\ tos' = Moved(tos, pc)
         /\ stack' = IF IsCall(pc) THEN [stack EXCEPT ![tos'] = Seq1(pc)] ELSE stack
    ELSE UNCHANGED ras

\* bpred_update(): a taken branch that did not use the return-address stack
\* becomes the most recent entry of its set.
BtbUpdate(b) ==
    LET rest   == IF BtbHits(b.PC) = {} THEN BtbSet(b.PC)
                  ELSE RemoveAt(BtbSet(b.PC), CHOOSE k \in BtbHits(b.PC) : TRUE)
        old    == BtbTarget(b.PC)
        target == IF old # NONE /\ b.pred_PC = b.next_PC THEN old ELSE b.next_PC
        new    == <<[addr |-> b.PC, target |-> target]>> \o rest
    IN  [btb EXCEPT ![b.PC % BtbSets] =
           IF Len(new) <= BtbAssoc THEN new ELSE SubSeq(new, 1, BtbAssoc)]

bpred_update(b, when) ==
    btb' = IF /\ Stateful /\ options.spec_update = when
              /\ ~IsRet(b.PC) /\ b.next_PC # Seq1(b.PC)
           THEN BtbUpdate(b) ELSE btb

-----------------------------------------------------------------------------
(* The stages of sim-outorder.c *)

\* ruu_commit(), for the oldest control instruction.
ruu_commit ==
    /\ stage = "commit"
    /\ inflight # <<>> /\ Head(inflight).completed
    /\ bpred_update(Head(inflight), "CT")
    /\ inflight' = Tail(inflight)
    /\ UNCHANGED <<options, path, ruu_fetch_issue_delay, ras, stage, count,
                   branch_cnt, history>>

\* tracer_recover() and bpred_recover(), and the squash of the younger
\* instructions by ruu_recover().
Recover_KeepsQueue(b) ==
    /\ spec_mode' = FALSE
    /\ fetch_pred_PC' = recover_PC
    /\ tos' = IF Stateful THEN b.stack_recover_idx ELSE tos
    /\ true_tos' = IF Stateful THEN Unmoved(true_tos, b.PC) ELSE true_tos
    /\ ruu_fetch_issue_delay' = branch_penalty
    /\ UNCHANGED <<recover_PC, fetch_data, stack, arch_PC>>

Recover_KeepsTos(b) ==
    /\ spec_mode' = FALSE
    /\ fetch_data' = <<>> /\ fetch_pred_PC' = recover_PC
    /\ true_tos' = IF Stateful THEN Unmoved(true_tos, b.PC) ELSE true_tos
    /\ ruu_fetch_issue_delay' = branch_penalty
    /\ UNCHANGED <<recover_PC, tos, stack, arch_PC>>

Recover(b) ==
    /\ spec_mode' = FALSE
    /\ fetch_data' = <<>> /\ fetch_pred_PC' = recover_PC
    /\ tos' = IF Stateful THEN b.stack_recover_idx ELSE tos
    /\ true_tos' = IF Stateful THEN Unmoved(true_tos, b.PC) ELSE true_tos
    /\ ruu_fetch_issue_delay' = branch_penalty
    /\ UNCHANGED <<recover_PC, stack, arch_PC>>

\* ruu_writeback(), for a control instruction; the first one, or the end of
\* the stage, ends commit.
ruu_writeback(i) ==
    /\ stage \in {"commit", "writeback"} /\ stage' = "writeback"
    /\ ~inflight[i].completed
    /\ LET done == [inflight EXCEPT ![i].completed = TRUE]
       IN  IF inflight[i].recover_inst
           THEN inflight' = SubSeq(done, 1, i) /\ Recover(inflight[i])
           ELSE /\ inflight' = done
                /\ UNCHANGED <<path, ruu_fetch_issue_delay, ras, history>>
    /\ bpred_update(inflight[i], "WB")
    /\ UNCHANGED <<options, count, branch_cnt>>

EndWriteback ==
    /\ stage \in {"commit", "writeback"} /\ stage' = "dispatch" /\ count' = 0
    /\ UNCHANGED <<options, path, ruu_fetch_issue_delay, ras, btb, inflight,
                   branch_cnt, history>>

\* Where the instruction at pc may go.
Targets(pc) ==
    IF Kind(pc) \in {"ijump", "icall", "return"}
    THEN IF spec_mode THEN Text \cup {BOGUS} ELSE Text
    ELSE IF Kind(pc) \in {"jump", "call"} THEN {Code[pc].target}
    ELSE IF Kind(pc) = "cond" THEN {Seq1(pc), Code[pc].target}
    ELSE {Seq1(pc)}

\* Dispatch sees that fetch went wrong and sends it to npc at once.
Misfetched(f, npc) ==
    \/ f.pred_PC # npc /\ pred_perfect
    \/ DirJmp(f.PC) /\ Code[f.PC].target # f.pred_PC /\ f.pred_PC # Seq1(f.PC)

\* ruu_dispatch(), for the first instruction of the fetch queue.  NOPs take
\* no station and do not count.
ruu_dispatch(npc) ==
    /\ stage = "dispatch"
    /\ fetch_data # <<>> /\ count < decode_width * fetch_speed
    /\ options.include_spec \/ ~spec_mode
    /\ LET f          == Head(fetch_data)
           redirected == Misfetched(f, npc)
           pred_PC    == IF redirected /\ pred_perfect THEN npc ELSE f.pred_PC
           mispredict == ~spec_mode /\ pred_PC # npc /\ ~redirected
           b          == [PC |-> f.PC, next_PC |-> npc, pred_PC |-> pred_PC,
                          stack_recover_idx |-> f.stack_recover_idx,
                          recover_inst |-> mispredict, completed |-> FALSE]
       IN  /\ npc \in Targets(f.PC)
           /\ Ctrl(f.PC) => Len(inflight) < MaxBranches
           /\ inflight' = IF Ctrl(f.PC) THEN Append(inflight, b) ELSE inflight
           /\ IF redirected THEN fetch_data' = <<>> /\ fetch_pred_PC' = npc
              ELSE fetch_data' = Tail(fetch_data) /\ UNCHANGED fetch_pred_PC
           /\ ruu_fetch_issue_delay' = IF redirected /\ ~pred_perfect
                                       THEN branch_penalty ELSE ruu_fetch_issue_delay
           /\ IF spec_mode THEN UNCHANGED <<btb, history>>
              ELSE /\ IF Ctrl(f.PC) THEN bpred_update(b, "ID") ELSE UNCHANGED btb
                   /\ arch_PC' = npc
                   /\ true_tos' = IF Stateful THEN Moved(true_tos, f.PC) ELSE true_tos
           /\ spec_mode' = (spec_mode \/ mispredict)
           /\ recover_PC' = IF mispredict THEN npc ELSE recover_PC
           /\ count' = IF f.PC \in Text THEN count + 1 ELSE count
    /\ UNCHANGED <<options, ras, stage, branch_cnt>>

\* The queue is empty, the bandwidth is used up, or the back end is full.
EndDispatch ==
    /\ stage = "dispatch" /\ stage' = "fetch" /\ count' = 0
    /\ UNCHANGED <<options, path, ruu_fetch_issue_delay, ras, btb, inflight,
                   branch_cnt, history>>

\* sim_main() goes to the next cycle.
NextCycle == stage' = "commit" /\ count' = 0 /\ branch_cnt' = 0

FetchBlocked_WhileQueued ==
    /\ stage = "fetch" /\ ruu_fetch_issue_delay > 0
    /\ ruu_fetch_issue_delay' = IF fetch_data = <<>> THEN ruu_fetch_issue_delay
                                                    ELSE ruu_fetch_issue_delay - 1
    /\ NextCycle
    /\ UNCHANGED <<options, path, ras, btb, inflight, history>>

\* sim_main(): fetch is blocked in this cycle.
FetchBlocked ==
    /\ stage = "fetch" /\ ruu_fetch_issue_delay > 0
    /\ ruu_fetch_issue_delay' = ruu_fetch_issue_delay - 1
    /\ NextCycle
    /\ UNCHANGED <<options, path, ras, btb, inflight, history>>

Fetching_OverfullQueue ==
    /\ stage = "fetch" /\ ruu_fetch_issue_delay = 0
    /\ count < decode_width * fetch_speed
    /\ Len(fetch_data) <= ifq_size

Fetching ==
    /\ stage = "fetch" /\ ruu_fetch_issue_delay = 0
    /\ count < decode_width * fetch_speed
    /\ Len(fetch_data) < ifq_size

\* ruu_fetch(): the loop ends.
EndFetch ==
    /\ stage = "fetch" /\ ruu_fetch_issue_delay = 0 /\ ~Fetching
    /\ NextCycle
    /\ UNCHANGED <<options, path, ruu_fetch_issue_delay, ras, btb, inflight, history>>

\* ruu_fetch(): an I-cache or I-TLB miss blocks fetch.
FetchMiss(delay) ==
    /\ Fetching /\ fetch_pred_PC \in Text
    /\ ruu_fetch_issue_delay' = ruu_fetch_issue_delay + delay
    /\ NextCycle
    /\ UNCHANGED <<options, path, ras, btb, inflight, history>>

\* ruu_fetch(): one instruction; a prediction other than falling through
\* may end the cycle's fetch.
ruu_fetch(dir) ==
    /\ Fetching
    /\ LET PC     == fetch_pred_PC
           target == Predicted(PC, dir)
           next   == IF target = NONE THEN Seq1(PC) ELSE target
           jumps  == branch_cnt + (IF target = NONE THEN 0 ELSE 1)
       IN  /\ dir => Kind(PC) = "cond"
           /\ bpred_lookup(PC)
           /\ fetch_data' = Append(fetch_data,
                 [PC |-> PC, pred_PC |-> next,
                  stack_recover_idx |-> IF Ctrl(PC) THEN tos ELSE 0])
           /\ fetch_pred_PC' = next
           /\ IF target # NONE /\ jumps >= fetch_speed THEN NextCycle
              ELSE count' = count + 1 /\ branch_cnt' = jumps /\ UNCHANGED stage
    /\ UNCHANGED <<options, spec_mode, recover_PC, ruu_fetch_issue_delay, btb,
                   inflight, history>>

-----------------------------------------------------------------------------
Init ==
    /\ options \in Options
    /\ fetch_pred_PC = Entry /\ fetch_data = <<>> /\ ruu_fetch_issue_delay = 0
    /\ tos = RetSize - 1 /\ stack = [k \in 0..RetSize-1 |-> NONE]
    /\ btb = [s \in 0..BtbSets-1 |-> <<>>]
    /\ inflight = <<>>
    /\ spec_mode = FALSE /\ recover_PC = NONE
    /\ stage = "commit" /\ count = 0 /\ branch_cnt = 0
    /\ arch_PC = Entry /\ true_tos = RetSize - 1

Dispatch == \E npc \in Text \cup {BOGUS} : ruu_dispatch(npc)
Fetch    == \E dir \in BOOLEAN : ruu_fetch(dir)
Writeback == \E i \in 1..Len(inflight) : ruu_writeback(i)

Next ==
    \/ ruu_commit
    \/ Writeback
    \/ EndWriteback
    \/ Dispatch
    \/ EndDispatch
    \/ FetchBlocked
    \/ EndFetch
    \/ \E delay \in MissDelays : FetchMiss(delay)
    \/ Fetch

\* sim_main() never stops in a cycle.  A mispredicted branch completes and
\* the RUU makes room for the next instruction: module Ruu shows that what is
\* dispatched on the correct path retires.  A missed block is in the cache
\* when fetch tries again, unless other accesses keep evicting it.
Fairness ==
    /\ WF_vars(Next)
    /\ SF_vars(\E i \in 1..Len(inflight) :
                  inflight[i].recover_inst /\ ruu_writeback(i))
    /\ SF_vars(ruu_commit)
    /\ SF_vars(Writeback)
    /\ SF_vars(Dispatch)
    /\ SF_vars(Fetch)

Spec == Init /\ [][Next]_vars /\ Fairness

-----------------------------------------------------------------------------
Addrs == Text \cup {NONE, BOGUS}

Fetched == [PC : Addrs, pred_PC : Addrs, stack_recover_idx : 0..RetSize-1]
Station == [PC : Text, next_PC : Addrs, pred_PC : Addrs,
            stack_recover_idx : 0..RetSize-1,
            recover_inst : BOOLEAN, completed : BOOLEAN]

\* The fetch queue and the control instructions in flight stay within their
\* bounds, and every register of the front end keeps its range.
TypeOK ==
    /\ options \in Options
    /\ fetch_pred_PC \in Addrs /\ recover_PC \in Addrs /\ arch_PC \in Addrs
    /\ ruu_fetch_issue_delay \in Nat
    /\ fetch_data \in Seq(Fetched) /\ Len(fetch_data) <= ifq_size
    /\ inflight \in Seq(Station) /\ Len(inflight) <= MaxBranches
    /\ tos \in 0..RetSize-1 /\ true_tos \in 0..RetSize-1
    /\ stack \in [0..RetSize-1 -> Addrs]
    /\ spec_mode \in BOOLEAN
    /\ stage \in {"commit", "writeback", "dispatch", "fetch"}
    /\ count \in Nat /\ branch_cnt \in Nat

\* Where dispatch goes on along the correct path.
NextOnPath == IF spec_mode THEN recover_PC
              ELSE IF fetch_data # <<>> THEN Head(fetch_data).PC
              ELSE fetch_pred_PC

\* The correct path: what is dispatched next outside spec_mode, or resumed
\* at after a recovery, is the next instruction of the program, whatever
\* was mispredicted, misfetched, squashed or missed before.
CorrectPath == NextOnPath = arch_PC

\* The branch target buffer never has a wrong target for a direct branch,
\* so a misfetch is always at a bogus address: what is fetched after it are
\* NOPs, which leave the return-address stack alone.
MisfetchIsBogus ==
    \A k \in DOMAIN fetch_data :
        LET f == fetch_data[k] IN
        DirJmp(f.PC) /\ f.pred_PC \notin {Code[f.PC].target, Seq1(f.PC)} =>
            /\ f.pred_PC = BOGUS
            /\ \A j \in k+1..Len(fetch_data) : ~Ctrl(fetch_data[j].PC)

\* The return-address stack pointer follows the correct path through
\* misfetches and recoveries, but for the push or pop of a mispredicted
\* call or return itself: outside spec_mode the oldest branch of the fetch
\* queue was predicted with it, and in spec_mode the mispredicted branch.
RasFollowsPath ==
    Stateful =>
      IF spec_mode
      THEN \E i \in DOMAIN inflight :
              /\ inflight[i].recover_inst /\ ~inflight[i].completed
              /\ inflight[i].stack_recover_idx = Unmoved(true_tos, inflight[i].PC)
      ELSE LET k == SelectInSeq(fetch_data, LAMBDA f : Ctrl(f.PC))
           IN  true_tos = IF k = 0 THEN tos ELSE fetch_data[k].stack_recover_idx

\* The program keeps going: instructions of the correct path are dispatched
\* for ever, so every misprediction is recovered from and fetch never stays
\* blocked.
PathAdvances == []<><<~spec_mode /\ Dispatch>>_vars

\* bpred.c: a recovery restores the non-speculative top of the stack, the
\* one that all branches of the correct path, and only they, have moved.
RestoresTos == [][spec_mode /\ ~spec_mode' /\ Stateful => tos' = true_tos]_vars
=============================================================================
