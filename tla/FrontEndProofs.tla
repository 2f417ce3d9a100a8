--------------------------- MODULE FrontEndProofs ---------------------------
(***************************************************************************)
(* The front end stays on the correct path, for every program, queue size, *)
(* predictor geometry and option setting.                                  *)
(*                                                                         *)
(* CorrectPath is not inductive: what follows a dispatched instruction is  *)
(* right only because the fetch queue is chained by its predictions        *)
(* (Chained), and a recovery goes to the right address only because an     *)
(* unresolved mispredicted branch means spec_mode (OneRecovery).           *)
(* MisfetchIsBogus rests on the exactness of what the branch target buffer *)
(* and the stations in flight hold for direct branches (PathTypes) and on  *)
(* fetch staying at bogus addresses after a misfetch (AfterMisfetch).      *)
(* RasFollowsPath is about the oldest branch of the fetch queue only.      *)
(* RasInv needs the whole queue: from one branch to the next, the saved    *)
(* tops of the stack differ by what the first one pushed or popped         *)
(* (RasChained).                                                           *)
(***************************************************************************)
EXTENDS FrontEnd, SequenceTheorems, WellFoundedInduction, TLAPS

BtbEntry == {e \in [addr : Text, target : Addrs] :
               DirJmp(e.addr) => e.target = Code[e.addr].target}
PathFetched == {f \in Fetched :
                  /\ ~Ctrl(f.PC) => f.pred_PC = Seq1(f.PC)
                  /\ DirJmp(f.PC) =>
                        f.pred_PC \in {Code[f.PC].target, Seq1(f.PC), BOGUS}}
PathStation == {b \in Station :
                  DirJmp(b.PC) => b.next_PC \in {Code[b.PC].target, Seq1(b.PC)}}

PathTypes ==
    /\ btb \in [0..BtbSets-1 -> Seq(BtbEntry)]
    /\ fetch_data \in Seq(PathFetched)
    /\ inflight \in Seq(PathStation)

Chained ==
    \A k \in 1..Len(fetch_data) :
        fetch_data[k].pred_PC = IF k = Len(fetch_data) THEN fetch_pred_PC
                                ELSE fetch_data[k+1].PC

Off(f) == DirJmp(f.PC) /\ f.pred_PC \notin {Code[f.PC].target, Seq1(f.PC)}

AfterMisfetch ==
    \A k \in 1..Len(fetch_data) : Off(fetch_data[k]) =>
        /\ fetch_pred_PC = BOGUS
        /\ \A j \in k+1..Len(fetch_data) : ~Ctrl(fetch_data[j].PC)

Unresolved(b) == b.recover_inst /\ ~b.completed

OneRecovery ==
    \A i \in 1..Len(inflight) : Unresolved(inflight[i]) =>
        spec_mode /\ \A j \in 1..Len(inflight) : Unresolved(inflight[j]) => i = j

Scalars ==
    /\ options \in Options
    /\ fetch_pred_PC \in Addrs /\ recover_PC \in Addrs /\ arch_PC \in Addrs
    /\ ruu_fetch_issue_delay \in Nat
    /\ tos \in 0..RetSize-1 /\ true_tos \in 0..RetSize-1
    /\ stack \in [0..RetSize-1 -> Addrs]
    /\ spec_mode \in BOOLEAN
    /\ stage \in {"commit", "writeback", "dispatch", "fetch"}
    /\ count \in Nat /\ branch_cnt \in Nat
    /\ Len(fetch_data) <= ifq_size /\ Len(inflight) <= MaxBranches

IInv ==
    /\ Scalars
    /\ PathTypes
    /\ Chained
    /\ AfterMisfetch
    /\ OneRecovery
    /\ CorrectPath

-----------------------------------------------------------------------------
(* Facts about the operators *)

\* Instruction addresses are addresses, and no instruction follows BOGUS.
LEMMA Seq1Type ==
    /\ Text \subseteq Addrs /\ BOGUS \in Addrs /\ NONE \in Addrs
    /\ \A pc \in Addrs : Seq1(pc) \in Addrs
    /\ Seq1(BOGUS) = BOGUS /\ BOGUS \notin Text /\ NONE \notin Text
    /\ \A pc : Ctrl(pc) => pc \in Text
    /\ \A pc : DirJmp(pc) => Ctrl(pc)
BY FrontEndAssumption DEF Addrs, Seq1, BOGUS, NONE, Ctrl, DirJmp, Kind, Kinds

\* The top of the return-address stack stays in range: bpred.c wraps it.
LEMMA MovedType ==
    \A t \in 0..RetSize-1 : \A pc : /\ Moved(t, pc) \in 0..RetSize-1
                                    /\ Unmoved(t, pc) \in 0..RetSize-1
<1>1. RetSize \in Nat \ {0}
  BY FrontEndAssumption
<1>2. \A t \in 0..RetSize-1 : Push(t) \in 0..RetSize-1 /\ Pop(t) \in 0..RetSize-1
  BY <1>1 DEF Push, Pop
<1> QED
  BY <1>2 DEF Moved, Unmoved

\* The set of an address is one of the branch target buffer's.
LEMMA BtbIndex == \A pc \in Text : pc % BtbSets \in 0..BtbSets-1
BY FrontEndAssumption

\* A hit in the branch target buffer has the address's own entry.
LEMMA BtbTargetType ==
    ASSUME PathTypes, NEW pc \in Text
    PROVE  /\ BtbTarget(pc) \in Addrs
           /\ DirJmp(pc) /\ BtbTarget(pc) # NONE => BtbTarget(pc) = Code[pc].target
<1>1. BtbSet(pc) \in Seq(BtbEntry)
  BY BtbIndex DEF PathTypes, BtbSet
<1>2. CASE BtbHits(pc) = {}
  BY <1>2, Seq1Type DEF BtbTarget
<1>3. CASE BtbHits(pc) # {}
  <2> DEFINE k == CHOOSE k \in BtbHits(pc) : TRUE
  <2>1. k \in BtbHits(pc)
    BY <1>3
  <2>2. k \in 1..Len(BtbSet(pc)) /\ BtbSet(pc)[k].addr = pc
    BY <2>1 DEF BtbHits
  <2>3. BtbSet(pc)[k] \in BtbEntry
    BY <1>1, <2>2, ElementOfSeq
  <2>4. BtbTarget(pc) = BtbSet(pc)[k].target
    BY <1>3 DEF BtbTarget
  <2> QED
    BY <2>2, <2>3, <2>4 DEF BtbEntry
<1> QED
  BY <1>2, <1>3

\* What bpred_lookup() predicts is an address; for a direct branch it is
\* the target, the next address, or BOGUS; for any other instruction than a
\* branch it is nothing.
LEMMA PredictedType ==
    ASSUME PathTypes, Scalars, NEW pc \in Addrs, NEW dir \in BOOLEAN
    PROVE  /\ Predicted(pc, dir) \in Addrs
           /\ ~Ctrl(pc) => Predicted(pc, dir) = NONE
           /\ DirJmp(pc) => Predicted(pc, dir) \in {Code[pc].target, Seq1(pc), BOGUS, NONE}
<1>1. CASE ~Ctrl(pc)
  BY <1>1, Seq1Type DEF Predicted
<1>2. CASE Ctrl(pc)
  <2>1. pc \in Text
    BY <1>2, Seq1Type
  <2>2. stack[tos] \in Addrs
    BY DEF Scalars
  <2>3. DirJmp(pc) => ~IsRet(pc)
    BY DEF DirJmp, IsRet
  <2> HIDE DEF BOGUS, NONE
  <2> QED
    BY <1>2, <2>1, <2>2, <2>3, BtbTargetType, Seq1Type DEF Predicted
<1> QED
  BY <1>1, <1>2

\* bpred_update() keeps the branch target buffer exact for direct branches.
LEMMA BtbUpdateType ==
    ASSUME PathTypes, NEW b \in PathStation, NEW when, bpred_update(b, when)
    PROVE  btb' \in [0..BtbSets-1 -> Seq(BtbEntry)]
<1>1. CASE btb' = btb
  BY <1>1 DEF PathTypes
<1>2. CASE b.next_PC # Seq1(b.PC) /\ btb' = BtbUpdate(b)
  <2> DEFINE set == BtbSet(b.PC)
             k   == CHOOSE k \in BtbHits(b.PC) : TRUE
             rest == IF BtbHits(b.PC) = {} THEN set ELSE RemoveAt(set, k)
             old == BtbTarget(b.PC)
             target == IF old # NONE /\ b.pred_PC = b.next_PC THEN old ELSE b.next_PC
             new == <<[addr |-> b.PC, target |-> target]>> \o rest
             res == IF Len(new) <= BtbAssoc THEN new ELSE SubSeq(new, 1, BtbAssoc)
  <2>1. b.PC \in Text /\ b.next_PC \in Addrs
    BY DEF PathStation, Station
  <2>2. set \in Seq(BtbEntry)
    BY <2>1, BtbIndex DEF PathTypes, BtbSet
  <2>3. rest \in Seq(BtbEntry)
    <3>1. CASE BtbHits(b.PC) = {}
      BY <2>2, <3>1
    <3>2. CASE BtbHits(b.PC) # {}
      <4>1. k \in 1..Len(set)
        BY <3>2 DEF BtbHits
      <4>2. \A i \in 1..Len(set) : set[i] \in BtbEntry
        BY <2>2, ElementOfSeq
      <4>3. Len(set) \in Nat
        BY <2>2, LenProperties
      <4> HIDE DEF set, k
      <4>4. SubSeq(set, 1, k-1) \in Seq(BtbEntry)
        BY <4>1, <4>2, <4>3, SubSeqProperties
      <4>5. SubSeq(set, k+1, Len(set)) \in Seq(BtbEntry)
        BY <4>1, <4>2, <4>3, SubSeqProperties
      <4>6. rest = SubSeq(set, 1, k-1) \o SubSeq(set, k+1, Len(set))
        BY <3>2 DEF RemoveAt
      <4> QED
        BY <4>4, <4>5, <4>6, ConcatProperties
    <3> QED
      BY <3>1, <3>2
  <2>4. [addr |-> b.PC, target |-> target] \in BtbEntry
    <3>1. target \in Addrs
      BY <2>1, BtbTargetType
    <3>2. DirJmp(b.PC) => target = Code[b.PC].target
      BY <1>2, <2>1, BtbTargetType DEF PathStation
    <3> QED
      BY <2>1, <3>1, <3>2 DEF BtbEntry
  <2>5. new \in Seq(BtbEntry)
    <3> HIDE DEF rest, target
    <3> QED
      BY <2>3, <2>4, ConcatProperties
  <2>6. res \in Seq(BtbEntry)
    <3> HIDE DEF new
    <3>1. BtbAssoc \in Nat \ {0}
      BY FrontEndAssumption
    <3>2. Len(new) \in Nat /\ \A i \in 1..Len(new) : new[i] \in BtbEntry
      BY <2>5, LenProperties, ElementOfSeq
    <3>3. CASE Len(new) <= BtbAssoc
      BY <2>5, <3>3
    <3>4. CASE ~(Len(new) <= BtbAssoc)
      BY <3>1, <3>2, <3>4, SubSeqProperties
    <3> QED
      BY <3>3, <3>4
  <2>7. btb' = [btb EXCEPT ![b.PC % BtbSets] = res]
    BY <1>2 DEF BtbUpdate
  <2> HIDE DEF res
  <2> QED
    BY <2>6, <2>7 DEF PathTypes
<1> QED
  BY <1>1, <1>2 DEF bpred_update

-----------------------------------------------------------------------------
(* The invariant is inductive *)

\* The simulator starts on the correct path with empty queues.
LEMMA InitInv == Init => IInv
<1> SUFFICES ASSUME Init PROVE IInv
  OBVIOUS
<1>1. Scalars
  <2>1. RetSize - 1 \in 0..RetSize-1 /\ 0 <= ifq_size /\ 0 <= MaxBranches
    BY FrontEndAssumption
  <2>2. Entry \in Addrs /\ NONE \in Addrs
    BY FrontEndAssumption, Seq1Type
  <2>3. Len(fetch_data) = 0 /\ Len(inflight) = 0
    BY DEF Init
  <2> QED
    BY <2>1, <2>2, <2>3 DEF Init, Scalars
<1>2. PathTypes
  BY EmptySeq DEF Init, PathTypes
<1>3. Len(fetch_data) = 0 /\ Len(inflight) = 0
  BY DEF Init
<1> QED
  BY <1>1, <1>2, <1>3
  DEF Init, IInv, Chained, AfterMisfetch, OneRecovery, CorrectPath, NextOnPath

\* A step that leaves the path, the queues and the stack alone.
LEMMA StageInv ==
    ASSUME IInv,
           UNCHANGED <<options, path, ras, btb, inflight, history>>,
           ruu_fetch_issue_delay' \in Nat, count' \in Nat, branch_cnt' \in Nat,
           stage' \in {"commit", "writeback", "dispatch", "fetch"}
    PROVE  IInv'
<1>1. Scalars'
  BY DEF IInv, Scalars, path, ras, history
<1>2. PathTypes'
  BY DEF IInv, PathTypes, path
<1>3. Chained' /\ AfterMisfetch' /\ OneRecovery' /\ CorrectPath'
  BY DEF IInv, Chained, AfterMisfetch, OneRecovery, CorrectPath, NextOnPath,
         path, history
<1> QED
  BY <1>1, <1>2, <1>3 DEF IInv

\* Commit removes the oldest branch, which has completed and so is not the
\* one a recovery waits for, and may train the branch target buffer.
LEMMA CommitInv ==
    ASSUME IInv, ruu_commit
    PROVE  IInv'
<1> USE DEF IInv
<1>1. Head(inflight) \in PathStation /\ Tail(inflight) \in Seq(PathStation)
      /\ Len(Tail(inflight)) = Len(inflight) - 1 /\ Len(inflight) \in Nat
      /\ \A i \in 1..Len(Tail(inflight)) : Tail(inflight)[i] = inflight[i+1]
  BY HeadTailProperties, LenProperties DEF PathTypes, ruu_commit
<1>2. PathTypes'
  BY <1>1, BtbUpdateType DEF PathTypes, ruu_commit, path
<1>3. Scalars'
  BY <1>1, FrontEndAssumption DEF Scalars, ruu_commit, path, ras, history
<1>4. OneRecovery'
  <2> SUFFICES ASSUME NEW i \in 1..Len(inflight'), Unresolved(inflight'[i]),
                      NEW j \in 1..Len(inflight'), Unresolved(inflight'[j])
               PROVE  spec_mode' /\ i = j
    BY DEF OneRecovery
  <2>1. inflight'[i] = inflight[i+1] /\ inflight'[j] = inflight[j+1]
        /\ i+1 \in 1..Len(inflight) /\ j+1 \in 1..Len(inflight)
    BY <1>1 DEF ruu_commit
  <2>2. spec_mode /\ i+1 = j+1
    BY <2>1 DEF OneRecovery
  <2> QED
    BY <2>2 DEF ruu_commit, path
<1>5. Chained' /\ AfterMisfetch' /\ CorrectPath'
  BY DEF ruu_commit, Chained, AfterMisfetch, CorrectPath, NextOnPath, path, history
<1> QED
  BY <1>2, <1>3, <1>4, <1>5

\* Writeback completes a branch; when it was mispredicted the younger ones
\* go, and fetch resumes at recover_PC, the program's next instruction.
LEMMA WritebackInv ==
    ASSUME IInv, NEW i \in 1..Len(inflight), ruu_writeback(i)
    PROVE  IInv'
<1> USE DEF IInv
<1> DEFINE b    == inflight[i]
           over == [b EXCEPT !.completed = TRUE]
           done == [inflight EXCEPT ![i] = over]
<1>1. b \in PathStation /\ Len(inflight) \in Nat
  BY ElementOfSeq, LenProperties DEF PathTypes
<1>2. over \in PathStation
  BY <1>1 DEF PathStation, Station
<1>4. ~Unresolved(over)
  BY <1>1 DEF Unresolved, PathStation, Station
<1>0. done = [inflight EXCEPT ![i].completed = TRUE]
  BY DEF PathTypes
<1> HIDE DEF over
<1>3. /\ done \in Seq(PathStation) /\ Len(done) = Len(inflight)
      /\ \A j \in 1..Len(inflight) : done[j] = IF j = i THEN over ELSE inflight[j]
  BY <1>2, ExceptSeq DEF PathTypes
<1> HIDE DEF done
<1>5. btb' \in [0..BtbSets-1 -> Seq(BtbEntry)]
  BY <1>1, BtbUpdateType DEF ruu_writeback
<1>6. CASE b.recover_inst
  <2>1. /\ inflight' = SubSeq(done, 1, i) /\ Recover(b)
        /\ stage' = "writeback"
        /\ UNCHANGED <<options, count, branch_cnt>>
    BY <1>0, <1>6 DEF ruu_writeback
  <2>2. spec_mode /\ \A j \in 1..Len(inflight) : Unresolved(inflight[j]) => j = i
    BY <1>6 DEF OneRecovery, Unresolved, ruu_writeback
  <2>3. /\ inflight' \in Seq(PathStation) /\ Len(inflight') = i
        /\ \A j \in 1..i : inflight'[j] = done[j]
    <3>1. \A j \in 1..i : done[j] \in PathStation
      BY <1>1, <1>3, ElementOfSeq
    <3> QED
      BY <1>1, <2>1, <3>1, SubSeqProperties
  <2>4. \A j \in 1..Len(inflight') : ~Unresolved(inflight'[j])
    BY <1>1, <1>3, <1>4, <2>2, <2>3
  <2>5. OneRecovery'
    BY <2>4 DEF OneRecovery
  <2>6. fetch_data' = <<>> /\ Len(fetch_data') = 0 /\ fetch_data' \in Seq(PathFetched)
    BY <2>1, EmptySeq DEF Recover
  <2>7. PathTypes'
    BY <1>5, <2>3, <2>6 DEF PathTypes
  <2>8. b.stack_recover_idx \in 0..RetSize-1
    BY <1>1 DEF PathStation, Station
  <2>9. Scalars'
    <3>1. tos' \in 0..RetSize-1 /\ true_tos' \in 0..RetSize-1
      BY <2>1, <2>8, MovedType DEF Scalars, Recover
    <3>2. Len(fetch_data') <= ifq_size /\ branch_penalty \in Nat
      BY <2>6, FrontEndAssumption
    <3>3. Len(inflight') <= MaxBranches
      BY <1>1, <2>3, FrontEndAssumption DEF Scalars
    <3> QED
      BY <2>1, <3>1, <3>2, <3>3 DEF Scalars, Recover
  <2>10. CorrectPath'
    BY <2>1, <2>2, <2>6 DEF CorrectPath, NextOnPath, Recover
  <2> QED
    BY <2>5, <2>6, <2>7, <2>9, <2>10 DEF Chained, AfterMisfetch
<1>7. CASE ~b.recover_inst
  <2>1. /\ inflight' = done
        /\ stage' = "writeback"
        /\ UNCHANGED <<options, count, branch_cnt, path, ruu_fetch_issue_delay, ras,
                       history>>
    BY <1>0, <1>7 DEF ruu_writeback
  <2>2. OneRecovery'
    BY <1>3, <1>4, <2>1 DEF OneRecovery, path
  <2>3. PathTypes' /\ Scalars'
    BY <1>3, <1>5, <2>1 DEF PathTypes, Scalars, path, ras, history
  <2>4. Chained' /\ AfterMisfetch' /\ CorrectPath'
    BY <2>1 DEF Chained, AfterMisfetch, CorrectPath, NextOnPath, path, history
  <2> QED
    BY <2>2, <2>3, <2>4
<1> QED
  BY <1>6, <1>7

\* Dispatch takes the head of the fetch queue: a misfetch sends fetch to
\* the right address, a misprediction notes it in recover_PC.
LEMMA DispatchInv ==
    ASSUME IInv, NEW npc \in Text \cup {BOGUS}, ruu_dispatch(npc)
    PROVE  IInv'
<1> USE DEF IInv
<1> DEFINE f          == Head(fetch_data)
           redirected == Misfetched(f, npc)
           pred_PC    == IF redirected /\ pred_perfect THEN npc ELSE f.pred_PC
           mispredict == ~spec_mode /\ pred_PC # npc /\ ~redirected
           b          == [PC |-> f.PC, next_PC |-> npc, pred_PC |-> pred_PC,
                          stack_recover_idx |-> f.stack_recover_idx,
                          recover_inst |-> mispredict, completed |-> FALSE]
<1>1. /\ f \in PathFetched /\ f = fetch_data[1] /\ Len(fetch_data) \in Nat \ {0}
      /\ Tail(fetch_data) \in Seq(PathFetched)
      /\ Len(Tail(fetch_data)) = Len(fetch_data) - 1
      /\ \A k \in 1..Len(Tail(fetch_data)) : Tail(fetch_data)[k] = fetch_data[k+1]
  BY HeadTailProperties, EmptySeq DEF PathTypes, ruu_dispatch
<1>2. /\ npc \in Addrs /\ f.PC \in Addrs /\ f.pred_PC \in Addrs
      /\ f.stack_recover_idx \in 0..RetSize-1
  BY <1>1, Seq1Type DEF PathFetched, Fetched
<1>3. Ctrl(f.PC) => b \in PathStation
  <2> SUFFICES ASSUME Ctrl(f.PC) PROVE b \in PathStation
    OBVIOUS
  <2>1. f.PC \in Text
    BY Seq1Type
  <2>2. pred_PC \in Addrs
    BY <1>2
  <2>3. DirJmp(f.PC) => npc \in {Code[f.PC].target, Seq1(f.PC)}
    BY DEF ruu_dispatch, Targets, DirJmp
  <2>4. mispredict \in BOOLEAN
    OBVIOUS
  <2> HIDE DEF f, mispredict, pred_PC
  <2> QED
    BY <1>2, <2>1, <2>2, <2>3, <2>4 DEF PathStation, Station
<1>4. /\ inflight' = IF Ctrl(f.PC) THEN Append(inflight, b) ELSE inflight
      /\ Ctrl(f.PC) => Len(inflight) < MaxBranches
      /\ spec_mode' = (spec_mode \/ mispredict)
      /\ recover_PC' = IF mispredict THEN npc ELSE recover_PC
      /\ IF redirected THEN fetch_data' = <<>> /\ fetch_pred_PC' = npc
         ELSE fetch_data' = Tail(fetch_data) /\ UNCHANGED fetch_pred_PC
      /\ ruu_fetch_issue_delay' = IF redirected /\ ~pred_perfect
                                  THEN branch_penalty ELSE ruu_fetch_issue_delay
      /\ count' = IF f.PC \in Text THEN count + 1 ELSE count
      /\ UNCHANGED <<options, ras, stage, branch_cnt>>
  BY DEF ruu_dispatch
<1>5. IF spec_mode THEN UNCHANGED <<btb, history>>
      ELSE /\ IF Ctrl(f.PC) THEN bpred_update(b, "ID") ELSE UNCHANGED btb
           /\ arch_PC' = npc
           /\ true_tos' = IF Stateful THEN Moved(true_tos, f.PC) ELSE true_tos
  BY DEF ruu_dispatch
<1>6. /\ Len(inflight) \in Nat /\ inflight' \in Seq(PathStation)
      /\ Ctrl(f.PC) => /\ Len(inflight') = Len(inflight) + 1
                       /\ \A i \in 1..Len(inflight) : inflight'[i] = inflight[i]
                       /\ inflight'[Len(inflight) + 1] = b
  <2> HIDE DEF f, b
  <2> QED
    BY <1>3, <1>4, AppendProperties, LenProperties DEF PathTypes
<1>7. btb' \in [0..BtbSets-1 -> Seq(BtbEntry)]
  <2> HIDE DEF f, b
  <2> QED
    BY <1>3, <1>5, BtbUpdateType DEF PathTypes
<1>8. /\ fetch_data' \in Seq(PathFetched)
      /\ Len(fetch_data') = IF redirected THEN 0 ELSE Len(fetch_data) - 1
      /\ \A k \in 1..Len(fetch_data') : fetch_data'[k] = fetch_data[k+1]
  <2> HIDE DEF f, redirected
  <2>1. CASE redirected
    <3>1. fetch_data' = <<>>
      BY <1>4, <2>1
    <3> QED
      BY <2>1, <3>1, EmptySeq
  <2>2. CASE ~redirected
    <3>1. fetch_data' = Tail(fetch_data)
      BY <1>4, <2>2
    <3> QED
      BY <1>1, <2>2, <3>1
  <2> QED
    BY <2>1, <2>2
<1>9. PathTypes'
  BY <1>6, <1>7, <1>8 DEF PathTypes
<1>10. Scalars'
  <2> HIDE DEF f, redirected, mispredict, b
  <2>1. true_tos' \in 0..RetSize-1 /\ arch_PC' \in Addrs
    BY <1>2, <1>5, MovedType DEF Scalars, history
  <2>2. Len(fetch_data') <= ifq_size /\ branch_penalty \in Nat
    <3>1. ifq_size \in Nat /\ branch_penalty \in Nat
      BY FrontEndAssumption
    <3>2. Len(fetch_data) <= ifq_size /\ Len(fetch_data) \in Nat
      BY <1>1 DEF Scalars
    <3>3. Len(fetch_data') = 0 \/ Len(fetch_data') = Len(fetch_data) - 1
      BY <1>8
    <3> QED
      BY <3>1, <3>2, <3>3
  <2>3. Len(inflight') <= MaxBranches
    BY <1>4, <1>6, FrontEndAssumption DEF Scalars
  <2>4. fetch_pred_PC' \in Addrs /\ recover_PC' \in Addrs
    BY <1>2, <1>4 DEF Scalars
  <2>5. spec_mode' \in BOOLEAN
    BY <1>4
  <2> QED
    BY <1>4, <2>1, <2>2, <2>3, <2>4, <2>5 DEF Scalars, ras
<1>11. Chained'
  <2> HIDE DEF f, redirected, mispredict, b
  <2> SUFFICES ASSUME NEW k \in 1..Len(fetch_data')
               PROVE  fetch_data'[k].pred_PC =
                        IF k = Len(fetch_data') THEN fetch_pred_PC'
                        ELSE fetch_data'[k+1].PC
    BY DEF Chained
  <2>1. ~redirected /\ fetch_pred_PC' = fetch_pred_PC
    BY <1>4, <1>8
  <2>2. /\ Len(fetch_data') = Len(fetch_data) - 1
        /\ k \in Nat /\ k+1 \in 1..Len(fetch_data) /\ fetch_data'[k] = fetch_data[k+1]
    BY <1>1, <1>8, <2>1
  <2>3. fetch_data[k+1].pred_PC = IF k+1 = Len(fetch_data) THEN fetch_pred_PC
                                  ELSE fetch_data[k+1+1].PC
    BY <2>2 DEF Chained
  <2>4. k # Len(fetch_data') => fetch_data'[k+1] = fetch_data[k+1+1]
    <3> SUFFICES ASSUME k # Len(fetch_data') PROVE fetch_data'[k+1] = fetch_data[k+1+1]
      OBVIOUS
    <3>1. Len(fetch_data') \in Nat
      BY <1>8, LenProperties
    <3>2. k+1 \in 1..Len(fetch_data')
      BY <3>1
    <3> QED
      BY <1>8, <3>2
  <2>5. k = Len(fetch_data') <=> k+1 = Len(fetch_data)
    BY <1>1, <2>2
  <2> QED
    BY <2>1, <2>2, <2>3, <2>4, <2>5
<1>12. AfterMisfetch'
  <2> HIDE DEF f, redirected, mispredict, b
  <2> SUFFICES ASSUME NEW k \in 1..Len(fetch_data'), Off(fetch_data'[k])
               PROVE  /\ fetch_pred_PC' = BOGUS
                      /\ \A j \in k+1..Len(fetch_data') : ~Ctrl(fetch_data'[j].PC)
    BY DEF AfterMisfetch
  <2>1. ~redirected /\ fetch_pred_PC' = fetch_pred_PC
    BY <1>4, <1>8
  <2>2. k+1 \in 1..Len(fetch_data) /\ Off(fetch_data[k+1])
    BY <1>1, <1>8, <2>1
  <2> QED
    BY <1>1, <1>8, <2>1, <2>2 DEF AfterMisfetch
<1>13. OneRecovery'
  <2>1. CASE ~Ctrl(f.PC)
    <3>1. inflight' = inflight
      BY <1>4, <2>1
    <3> HIDE DEF mispredict
    <3> QED
      BY <1>4, <3>1 DEF OneRecovery
  <2>2. CASE Ctrl(f.PC) /\ spec_mode
    <3>1. ~Unresolved(b)
      BY <2>2 DEF Unresolved
    <3> HIDE DEF b, mispredict, f
    <3>2. spec_mode' /\ Len(inflight') = Len(inflight) + 1
      BY <1>4, <1>6, <2>2
    <3>3. \A i \in 1..Len(inflight') : Unresolved(inflight'[i]) =>
             i \in 1..Len(inflight) /\ Unresolved(inflight[i])
      BY <1>6, <2>2, <3>1, <3>2
    <3> QED
      BY <3>2, <3>3 DEF OneRecovery
  <2>3. CASE Ctrl(f.PC) /\ ~spec_mode
    <3>1. \A i \in 1..Len(inflight) : ~Unresolved(inflight[i])
      BY <2>3 DEF OneRecovery
    <3>2. Unresolved(b) => mispredict
      BY DEF Unresolved
    <3> HIDE DEF b, mispredict, f
    <3>3. Unresolved(b) => spec_mode'
      BY <1>4, <3>2
    <3>4. \A i \in 1..Len(inflight') : Unresolved(inflight'[i]) =>
             i = Len(inflight) + 1 /\ Unresolved(b)
      BY <1>6, <2>3, <3>1
    <3> QED
      BY <3>3, <3>4 DEF OneRecovery
  <2> QED
    BY <2>1, <2>2, <2>3
<1>14. CorrectPath'
  <2>1. CASE spec_mode
    BY <1>4, <1>5, <2>1 DEF CorrectPath, NextOnPath, history
  <2>2. CASE ~spec_mode /\ mispredict
    BY <1>4, <1>5, <2>2 DEF CorrectPath, NextOnPath
  <2>3. CASE ~spec_mode /\ redirected
    <3>1. ~mispredict /\ arch_PC' = npc /\ fetch_pred_PC' = npc /\ fetch_data' = <<>>
      BY <1>4, <1>5, <2>3
    <3>2. spec_mode' = FALSE
      BY <1>4, <2>3, <3>1
    <3> QED
      BY <3>1, <3>2 DEF CorrectPath, NextOnPath
  <2>4. CASE ~spec_mode /\ ~mispredict /\ ~redirected
    <3>1. /\ f.pred_PC = npc /\ arch_PC' = npc /\ fetch_pred_PC' = fetch_pred_PC
          /\ fetch_data' = Tail(fetch_data) /\ spec_mode' = FALSE
      BY <1>4, <1>5, <2>4
    <3>2. npc = IF Len(fetch_data) = 1 THEN fetch_pred_PC ELSE fetch_data[2].PC
      <4>1. 1 \in 1..Len(fetch_data)
        BY <1>1
      <4>2. fetch_data[1].pred_PC = IF 1 = Len(fetch_data) THEN fetch_pred_PC
                                    ELSE fetch_data[1+1].PC
        BY <4>1 DEF Chained
      <4> HIDE DEF f
      <4> QED
        BY <1>1, <3>1, <4>2
    <3>3. CASE Len(fetch_data) = 1
      <4>1. fetch_data' = <<>>
        BY <1>9, <1>8, <2>4, <3>3, EmptySeq DEF PathTypes
      <4> QED
        BY <3>1, <3>2, <3>3, <4>1 DEF CorrectPath, NextOnPath
    <3>4. CASE Len(fetch_data) # 1
      <4> HIDE DEF redirected, mispredict, f
      <4>1. Len(fetch_data') \in Nat \ {0} /\ fetch_data'[1] = fetch_data[2]
        BY <1>1, <1>8, <2>4, <3>4
      <4>2. fetch_data' # <<>> /\ Head(fetch_data') = fetch_data'[1]
        BY <4>1, EmptySeq
      <4> QED
        BY <3>1, <3>2, <3>4, <4>1, <4>2 DEF CorrectPath, NextOnPath
    <3> QED
      BY <3>3, <3>4
  <2> QED
    BY <2>1, <2>2, <2>3, <2>4
<1> QED
  BY <1>9, <1>10, <1>11, <1>12, <1>13, <1>14

\* Fetch extends the queue by the address the last prediction named.
LEMMA FetchInv ==
    ASSUME IInv, NEW dir \in BOOLEAN, ruu_fetch(dir)
    PROVE  IInv'
<1> USE DEF IInv
<1> DEFINE PC     == fetch_pred_PC
           target == Predicted(PC, dir)
           next   == IF target = NONE THEN Seq1(PC) ELSE target
           jumps  == branch_cnt + (IF target = NONE THEN 0 ELSE 1)
           f      == [PC |-> PC, pred_PC |-> next,
                      stack_recover_idx |-> IF Ctrl(PC) THEN tos ELSE 0]
<1>1. /\ fetch_data' = Append(fetch_data, f) /\ fetch_pred_PC' = next
      /\ bpred_lookup(PC) /\ Fetching
      /\ IF target # NONE /\ jumps >= fetch_speed THEN NextCycle
         ELSE count' = count + 1 /\ branch_cnt' = jumps /\ UNCHANGED stage
      /\ UNCHANGED <<options, spec_mode, recover_PC, ruu_fetch_issue_delay, btb,
                     inflight, history>>
  BY DEF ruu_fetch
<1>2. PC \in Addrs /\ target \in Addrs /\ next \in Addrs
  BY PredictedType, Seq1Type DEF Scalars
<1>3. /\ ~Ctrl(PC) => next = Seq1(PC)
      /\ DirJmp(PC) => next \in {Code[PC].target, Seq1(PC), BOGUS}
  BY <1>2, PredictedType
<1>4. f \in PathFetched
  <2>1. tos \in 0..RetSize-1 /\ 0 \in 0..RetSize-1
    BY FrontEndAssumption DEF Scalars
  <2> HIDE DEF next
  <2> QED
    BY <1>2, <1>3, <2>1 DEF PathFetched, Fetched
<1> HIDE DEF f
<1>5. /\ Len(fetch_data) \in Nat /\ fetch_data' \in Seq(PathFetched)
      /\ Len(fetch_data') = Len(fetch_data) + 1 /\ fetch_data' # <<>>
      /\ \A k \in 1..Len(fetch_data) : fetch_data'[k] = fetch_data[k]
      /\ fetch_data'[Len(fetch_data) + 1] = f
  BY <1>1, <1>4, AppendProperties, LenProperties DEF PathTypes
<1>6. f.PC = PC /\ f.pred_PC = next
  BY DEF f
<1>7. PathTypes'
  BY <1>1, <1>5 DEF PathTypes
<1>8. Scalars'
  <2>1. tos' \in 0..RetSize-1 /\ stack' \in [0..RetSize-1 -> Addrs]
    <3>1. CASE Stateful
      <4>1. tos' \in 0..RetSize-1
        BY <1>1, <3>1, MovedType DEF bpred_lookup, Scalars
      <4>2. Seq1(PC) \in Addrs
        BY <1>2, Seq1Type
      <4> QED
        BY <1>1, <3>1, <4>1, <4>2 DEF bpred_lookup, Scalars
    <3>2. CASE ~Stateful
      BY <1>1, <3>2 DEF bpred_lookup, Scalars, ras
    <3> QED
      BY <3>1, <3>2
  <2>2. Len(fetch_data') <= ifq_size
    <3>1. ifq_size \in Nat
      BY FrontEndAssumption
    <3> QED
      BY <1>1, <1>5, <3>1 DEF Fetching
  <2>3. count' \in Nat /\ branch_cnt' \in Nat
        /\ stage' \in {"commit", "writeback", "dispatch", "fetch"}
    <3> HIDE DEF target, PC
    <3> QED
      BY <1>1 DEF NextCycle, Scalars
  <2> HIDE DEF next
  <2> QED
    BY <1>1, <1>2, <2>1, <2>2, <2>3 DEF Scalars, history
<1> HIDE DEF next
<1>9. Chained'
  <2> SUFFICES ASSUME NEW k \in 1..Len(fetch_data')
               PROVE  fetch_data'[k].pred_PC =
                        IF k = Len(fetch_data') THEN fetch_pred_PC'
                        ELSE fetch_data'[k+1].PC
    BY DEF Chained
  <2>1. CASE k = Len(fetch_data) + 1
    BY <1>1, <1>5, <1>6, <2>1
  <2>2. CASE k = Len(fetch_data)
    <3>1. fetch_data[k].pred_PC = fetch_pred_PC
      BY <1>5, <2>2 DEF Chained
    <3> QED
      BY <1>5, <1>6, <2>2, <3>1
  <2>3. CASE k \in 1..Len(fetch_data) /\ k # Len(fetch_data)
    <3>1. fetch_data[k].pred_PC = fetch_data[k+1].PC
      BY <2>3 DEF Chained
    <3>2. k+1 \in 1..Len(fetch_data) /\ k # Len(fetch_data')
      BY <1>5, <2>3
    <3> QED
      BY <1>5, <2>3, <3>1, <3>2
  <2> QED
    BY <1>5, <2>1, <2>2, <2>3
<1>10. AfterMisfetch'
  <2> SUFFICES ASSUME NEW k \in 1..Len(fetch_data'), Off(fetch_data'[k])
               PROVE  /\ fetch_pred_PC' = BOGUS
                      /\ \A j \in k+1..Len(fetch_data') : ~Ctrl(fetch_data'[j].PC)
    BY DEF AfterMisfetch
  <2>1. CASE k = Len(fetch_data) + 1
    <3>1. next = BOGUS
      BY <1>3, <1>5, <1>6, <2>1 DEF Off
    <3> QED
      BY <1>1, <1>5, <2>1, <3>1
  <2>2. CASE k \in 1..Len(fetch_data)
    <3>1. PC = BOGUS /\ \A j \in k+1..Len(fetch_data) : ~Ctrl(fetch_data[j].PC)
      BY <1>5, <2>2 DEF AfterMisfetch
    <3>2. ~Ctrl(PC) /\ next = BOGUS
      BY <1>3, <3>1, Seq1Type
    <3>3. ASSUME NEW j \in k+1..Len(fetch_data') PROVE ~Ctrl(fetch_data'[j].PC)
      <4>1. CASE j = Len(fetch_data) + 1
        BY <1>5, <1>6, <3>2, <4>1
      <4>2. CASE j \in k+1..Len(fetch_data)
        BY <1>5, <2>2, <3>1, <4>2
      <4> QED
        BY <1>5, <2>2, <4>1, <4>2
    <3> QED
      BY <1>1, <3>2, <3>3
  <2> QED
    BY <1>5, <2>1, <2>2
<1>11. CorrectPath'
  <2>1. Head(fetch_data') = IF fetch_data = <<>> THEN f ELSE Head(fetch_data)
    BY <1>1, HeadTailAppend DEF PathTypes
  <2> QED
    BY <1>1, <1>5, <1>6, <2>1 DEF CorrectPath, NextOnPath, history
<1>12. OneRecovery'
  BY <1>1 DEF OneRecovery
<1> QED
  BY <1>7, <1>8, <1>9, <1>10, <1>11, <1>12

\* Every step of the front end keeps the invariant.
LEMMA NextInv == IInv /\ [Next]_vars => IInv'
<1> SUFFICES ASSUME IInv, [Next]_vars PROVE IInv'
  OBVIOUS
<1>0. Scalars
  BY DEF IInv
<1>1. CASE ruu_commit
  BY <1>1, CommitInv
<1>2. CASE Writeback
  BY <1>2, WritebackInv DEF Writeback
<1>3. CASE EndWriteback
  BY <1>0, <1>3, StageInv DEF EndWriteback, Scalars
<1>4. CASE Dispatch
  BY <1>4, DispatchInv DEF Dispatch
<1>5. CASE EndDispatch
  BY <1>0, <1>5, StageInv DEF EndDispatch, Scalars
<1>6. CASE FetchBlocked
  BY <1>0, <1>6, StageInv DEF FetchBlocked, NextCycle, Scalars
<1>7. CASE EndFetch
  BY <1>0, <1>7, StageInv DEF EndFetch, NextCycle, Scalars
<1>8. CASE \E delay \in MissDelays : FetchMiss(delay)
  <2>1. PICK delay \in MissDelays : FetchMiss(delay)
    BY <1>8
  <2>2. delay \in Nat
    BY FrontEndAssumption
  <2> QED
    BY <1>0, <2>1, <2>2, StageInv DEF FetchMiss, NextCycle, Scalars
<1>9. CASE Fetch
  BY <1>9, FetchInv DEF Fetch
<1>10. CASE UNCHANGED vars
  BY <1>0, <1>10, StageInv DEF vars, Scalars
<1> QED
  BY <1>1, <1>2, <1>3, <1>4, <1>5, <1>6, <1>7, <1>8, <1>9, <1>10 DEF Next

\* The invariant holds throughout every simulation.
LEMMA Invariance == Spec => []IInv
BY InitInv, NextInv, PTL DEF Spec

-----------------------------------------------------------------------------
(* The return-address stack pointer follows the correct path.  The branches *)
(* of the fetch queue are chained a second time, by the top of the stack    *)
(* each was predicted with.                                                 *)

\* Whatever is looked up from position j of the fetch queue on starts with
\* t as the top of the stack.
StartsWith(j, t) ==
    /\ \A k \in j..Len(fetch_data) :
          /\ Ctrl(fetch_data[k].PC)
          /\ \A m \in j..k-1 : ~Ctrl(fetch_data[m].PC)
          => fetch_data[k].stack_recover_idx = t
    /\ (\A m \in j..Len(fetch_data) : ~Ctrl(fetch_data[m].PC)) => tos = t

RasChained ==
    \A k \in 1..Len(fetch_data) : Ctrl(fetch_data[k].PC) =>
        StartsWith(k+1, Moved(fetch_data[k].stack_recover_idx, fetch_data[k].PC))

RecoversTos ==
    \E i \in 1..Len(inflight) :
        /\ Unresolved(inflight[i])
        /\ inflight[i].stack_recover_idx = Unmoved(true_tos, inflight[i].PC)

RasInv ==
    Stateful => /\ RasChained
                /\ IF spec_mode THEN RecoversTos ELSE StartsWith(1, true_tos)

\* Unmoved undoes what a lookup does to the top of the stack, and only
\* calls and returns move it.
LEMMA UnmovedMoved ==
    ASSUME NEW t \in 0..RetSize-1, NEW pc
    PROVE  Unmoved(Moved(t, pc), pc) = t /\ (~Ctrl(pc) => Moved(t, pc) = t)
<1>1. RetSize \in Nat \ {0}
  BY FrontEndAssumption
<1>2. Push(Pop(t)) = t
  <2>1. CASE t = 0
    <3>1. Pop(t) = RetSize - 1
      BY <1>1, <2>1 DEF Pop
    <3> QED
      BY <1>1, <2>1, <3>1 DEF Push
  <2>2. CASE t # 0
    <3>1. Pop(t) = t - 1
      BY <1>1, <2>2 DEF Pop
    <3> QED
      BY <1>1, <2>2, <3>1 DEF Push
  <2> QED
    BY <2>1, <2>2
<1>3. Pop(Push(t)) = t
  <2>1. CASE t = RetSize - 1
    <3>1. Push(t) = 0
      BY <1>1, <2>1 DEF Push
    <3> QED
      BY <1>1, <2>1, <3>1 DEF Pop
  <2>2. CASE t # RetSize - 1
    <3>1. Push(t) = t + 1
      BY <1>1, <2>2 DEF Push
    <3> QED
      BY <1>1, <2>2, <3>1 DEF Pop
  <2> QED
    BY <2>1, <2>2
<1>4. IsRet(pc) \/ IsCall(pc) => Ctrl(pc)
  BY DEF IsRet, IsCall, Ctrl, Kinds
<1> QED
  BY <1>2, <1>3, <1>4 DEF Moved, Unmoved

\* With an empty queue only the stack itself counts.
LEMMA StartsEmpty ==
    ASSUME Len(fetch_data) = 0
    PROVE  RasChained /\ StartsWith(1, tos)
BY DEF RasChained, StartsWith

\* The queue without its head.
LEMMA StartsTail ==
    ASSUME IInv, fetch_data # <<>>, fetch_data' = Tail(fetch_data), UNCHANGED tos,
           NEW j \in 1..Len(fetch_data), NEW t, StartsWith(j+1, t)
    PROVE  StartsWith(j, t)'
<1>1. /\ Len(fetch_data) \in Nat \ {0} /\ Len(fetch_data') = Len(fetch_data) - 1
      /\ \A k \in 1..Len(fetch_data') : fetch_data'[k] = fetch_data[k+1]
  BY HeadTailProperties, EmptySeq DEF IInv, PathTypes
<1>2. ASSUME NEW k \in j..Len(fetch_data'), Ctrl(fetch_data'[k].PC),
             \A m \in j..k-1 : ~Ctrl(fetch_data'[m].PC)
      PROVE  fetch_data'[k].stack_recover_idx = t
  <2>1. k \in 1..Len(fetch_data') /\ k+1 \in j+1..Len(fetch_data)
    BY <1>1
  <2>2. \A m \in j+1..k : ~Ctrl(fetch_data[m].PC)
    <3> SUFFICES ASSUME NEW m \in j+1..k PROVE ~Ctrl(fetch_data[m].PC)
      OBVIOUS
    <3>1. m-1 \in j..k-1 /\ m-1 \in 1..Len(fetch_data') /\ (m-1)+1 = m
      BY <1>1, <2>1
    <3> QED
      BY <1>1, <1>2, <3>1
  <2>3. Ctrl(fetch_data[k+1].PC) /\ fetch_data'[k] = fetch_data[k+1]
    BY <1>1, <1>2, <2>1
  <2>4. (k+1)-1 = k
    BY <2>1
  <2> QED
    BY <2>1, <2>2, <2>3, <2>4 DEF StartsWith
<1>3. ASSUME \A m \in j..Len(fetch_data') : ~Ctrl(fetch_data'[m].PC)
      PROVE  tos' = t
  <2>1. \A m \in j+1..Len(fetch_data) : ~Ctrl(fetch_data[m].PC)
    <3> SUFFICES ASSUME NEW m \in j+1..Len(fetch_data) PROVE ~Ctrl(fetch_data[m].PC)
      OBVIOUS
    <3>1. m-1 \in j..Len(fetch_data') /\ m-1 \in 1..Len(fetch_data') /\ (m-1)+1 = m
      BY <1>1
    <3> QED
      BY <1>1, <1>3, <3>1
  <2> QED
    BY <2>1 DEF StartsWith
<1> QED
  BY <1>2, <1>3 DEF StartsWith

\* The queue with one more lookup, which began with the current top.
LEMMA StartsAppend ==
    ASSUME IInv, NEW f, fetch_data' \in Seq(PathFetched),
           Len(fetch_data') = Len(fetch_data) + 1,
           \A k \in 1..Len(fetch_data) : fetch_data'[k] = fetch_data[k],
           fetch_data'[Len(fetch_data) + 1] = f,
           Ctrl(f.PC) => f.stack_recover_idx = tos,
           tos' = Moved(tos, f.PC),
           NEW j \in 1..Len(fetch_data)+1, NEW t, StartsWith(j, t)
    PROVE  StartsWith(j, t)'
<1>1. Len(fetch_data) \in Nat
  BY LenProperties DEF IInv, PathTypes
<1>2. ASSUME NEW k \in j..Len(fetch_data'), Ctrl(fetch_data'[k].PC),
             \A m \in j..k-1 : ~Ctrl(fetch_data'[m].PC)
      PROVE  fetch_data'[k].stack_recover_idx = t
  <2>1. CASE k <= Len(fetch_data)
    <3>1. \A m \in j..k : fetch_data'[m] = fetch_data[m]
      BY <1>1, <2>1
    <3> QED
      BY <1>1, <1>2, <2>1, <3>1 DEF StartsWith
  <2>2. CASE k = Len(fetch_data) + 1
    <3>1. \A m \in j..Len(fetch_data) : ~Ctrl(fetch_data[m].PC)
      BY <1>1, <1>2, <2>2
    <3> QED
      BY <1>2, <2>2, <3>1 DEF StartsWith
  <2> QED
    BY <1>1, <2>1, <2>2
<1>3. ASSUME \A m \in j..Len(fetch_data') : ~Ctrl(fetch_data'[m].PC)
      PROVE  tos' = t
  <2>1. \A m \in j..Len(fetch_data) : ~Ctrl(fetch_data[m].PC)
    BY <1>1, <1>3
  <2>2. ~Ctrl(f.PC) /\ tos = t
    BY <1>1, <1>3, <2>1 DEF StartsWith
  <2>3. tos \in 0..RetSize-1
    BY DEF IInv, Scalars
  <2> QED
    BY <2>2, <2>3, UnmovedMoved
<1> QED
  BY <1>2, <1>3 DEF StartsWith

\* A step that leaves the fetch queue, the stack, the branches in flight and
\* the path alone.
LEMMA RasStage ==
    ASSUME RasInv, UNCHANGED <<options, path, ras, inflight, history>>
    PROVE  RasInv'
BY DEF RasInv, RasChained, StartsWith, RecoversTos, Stateful, path, ras, history

\* The oldest branch has completed when it commits: a recovery does not
\* wait for it.
LEMMA RasCommit ==
    ASSUME IInv, RasInv, ruu_commit
    PROVE  RasInv'
<1>1. /\ Len(Tail(inflight)) = Len(inflight) - 1 /\ Len(inflight) \in Nat
      /\ \A i \in 1..Len(Tail(inflight)) : Tail(inflight)[i] = inflight[i+1]
      /\ Head(inflight) = inflight[1]
  BY HeadTailProperties, LenProperties DEF IInv, PathTypes, ruu_commit
<1>2. ASSUME RecoversTos PROVE RecoversTos'
  <2>1. PICK i \in 1..Len(inflight) :
               /\ Unresolved(inflight[i])
               /\ inflight[i].stack_recover_idx = Unmoved(true_tos, inflight[i].PC)
    BY <1>2 DEF RecoversTos
  <2>2. i # 1
    BY <1>1, <2>1 DEF Unresolved, ruu_commit
  <2>3. i-1 \in 1..Len(inflight') /\ (i-1)+1 = i
    BY <1>1, <2>2 DEF ruu_commit
  <2>4. inflight'[i-1] = inflight[i]
    BY <1>1, <2>3 DEF ruu_commit
  <2>5. true_tos' = true_tos
    BY DEF ruu_commit, history
  <2> QED
    BY <2>1, <2>3, <2>4, <2>5 DEF RecoversTos
<1>3. UNCHANGED <<options, path, ras, history>>
  BY DEF ruu_commit
<1>4. RasChained => RasChained'
  BY <1>3 DEF RasChained, StartsWith, path, ras
<1>5. StartsWith(1, true_tos) => StartsWith(1, true_tos)'
  BY <1>3 DEF StartsWith, path, ras, history
<1> QED
  BY <1>2, <1>3, <1>4, <1>5 DEF RasInv, Stateful, path

\* A recovery gives the stack the top the mispredicted branch was looked up
\* with, which is the correct path's.
LEMMA RasWriteback ==
    ASSUME IInv, RasInv, NEW i \in 1..Len(inflight), ruu_writeback(i)
    PROVE  RasInv'
<1> SUFFICES ASSUME Stateful'
             PROVE  /\ RasChained'
                    /\ IF spec_mode' THEN RecoversTos' ELSE StartsWith(1, true_tos)'
  BY DEF RasInv
<1>1. Stateful /\ options' = options
  BY DEF Stateful, ruu_writeback
<1>2. CASE inflight[i].recover_inst
  <2>1. Recover(inflight[i])
    BY <1>2 DEF ruu_writeback
  <2>2. Unresolved(inflight[i])
    BY <1>2 DEF Unresolved, ruu_writeback
  <2>3. spec_mode /\ \A j \in 1..Len(inflight) : Unresolved(inflight[j]) => i = j
    BY <2>2 DEF IInv, OneRecovery
  <2>4. inflight[i].stack_recover_idx = Unmoved(true_tos, inflight[i].PC)
    BY <1>1, <2>3 DEF RasInv, RecoversTos
  <2>5. tos' = true_tos' /\ spec_mode' = FALSE /\ fetch_data' = <<>>
    BY <1>1, <2>1, <2>4 DEF Recover
  <2>6. Len(fetch_data') = 0
    BY <2>5
  <2> QED
    BY <2>5, <2>6 DEF RasChained, StartsWith
<1>3. CASE ~inflight[i].recover_inst
  <2>1. UNCHANGED <<options, path, ras, history>>
        /\ inflight' = [inflight EXCEPT ![i].completed = TRUE]
    BY <1>3 DEF ruu_writeback
  <2>2. RasChained => RasChained'
    BY <2>1 DEF RasChained, StartsWith, path, ras
  <2>3. StartsWith(1, true_tos) => StartsWith(1, true_tos)'
    BY <2>1 DEF StartsWith, path, ras, history
  <2>4. RecoversTos => RecoversTos'
    <3>0. inflight \in Seq(PathStation)
      BY DEF IInv, PathTypes
    <3>1. DOMAIN inflight = 1..Len(inflight)
      BY <3>0, LenProperties
    <3>2. DOMAIN inflight' = 1..Len(inflight)
      BY <2>1, <3>1
    <3>3. Len(inflight') = Len(inflight)
      BY <2>1, <3>0
    <3>4. \A j \in 1..Len(inflight) : Unresolved(inflight[j]) =>
             inflight'[j] = inflight[j]
      BY <1>3, <2>1, <3>0, <3>1 DEF Unresolved
    <3>5. true_tos' = true_tos
      BY <2>1 DEF history
    <3> QED
      BY <3>3, <3>4, <3>5 DEF RecoversTos
  <2> QED
    BY <1>1, <2>1, <2>2, <2>3, <2>4 DEF RasInv, path
<1> QED
  BY <1>2, <1>3

\* Fetch looks the next instruction up with the current top.
LEMMA RasFetch ==
    ASSUME IInv, RasInv, NEW dir \in BOOLEAN, ruu_fetch(dir)
    PROVE  RasInv'
<1> SUFFICES ASSUME Stateful'
             PROVE  /\ RasChained'
                    /\ IF spec_mode' THEN RecoversTos' ELSE StartsWith(1, true_tos)'
  BY DEF RasInv
<1>1. Stateful /\ options' = options
  BY DEF Stateful, ruu_fetch
<1> DEFINE PC   == fetch_pred_PC
           pred == Predicted(PC, dir)
           next == IF pred = NONE THEN Seq1(PC) ELSE pred
           f    == [PC |-> PC, pred_PC |-> next,
                    stack_recover_idx |-> IF Ctrl(PC) THEN tos ELSE 0]
<1>2. /\ fetch_data' = Append(fetch_data, f) /\ bpred_lookup(PC)
      /\ UNCHANGED <<spec_mode, inflight, history>>
  BY DEF ruu_fetch
<1>3. f.PC = PC /\ (Ctrl(f.PC) => f.stack_recover_idx = tos)
  OBVIOUS
<1> HIDE DEF f
<1>4. tos' = Moved(tos, f.PC)
  BY <1>1, <1>2, <1>3 DEF bpred_lookup
<1>5. fetch_data' \in Seq(PathFetched)
  <2>1. IInv'
    BY FetchInv
  <2> QED
    BY <2>1 DEF IInv, PathTypes
<1>6. /\ Len(fetch_data) \in Nat /\ Len(fetch_data') = Len(fetch_data) + 1
      /\ \A k \in 1..Len(fetch_data) : fetch_data'[k] = fetch_data[k]
      /\ fetch_data'[Len(fetch_data) + 1] = f
  <2>1. fetch_data \in Seq(PathFetched)
    BY DEF IInv, PathTypes
  <2>2. Len(fetch_data) \in Nat
    BY <2>1, LenProperties
  <2> QED
    BY <1>2, <2>1, <2>2
<1>7. ASSUME NEW j \in 1..Len(fetch_data)+1, NEW t, StartsWith(j, t)
      PROVE  StartsWith(j, t)'
  BY <1>3, <1>4, <1>5, <1>6, <1>7, StartsAppend
<1>8. RasChained'
  <2> SUFFICES ASSUME NEW k \in 1..Len(fetch_data'), Ctrl(fetch_data'[k].PC)
               PROVE  StartsWith(k+1, Moved(fetch_data[k].stack_recover_idx,
                                            fetch_data[k].PC))'
    BY DEF RasChained
  <2>1. CASE k \in 1..Len(fetch_data)
    <3> DEFINE t == Moved(fetch_data[k].stack_recover_idx, fetch_data[k].PC)
    <3>1. fetch_data'[k] = fetch_data[k]
      BY <1>6, <2>1
    <3>2. StartsWith(k+1, t)
      BY <1>1, <2>1, <3>1 DEF RasInv, RasChained
    <3>3. k+1 \in 1..Len(fetch_data)+1
      BY <1>6, <2>1
    <3>4. ASSUME NEW u, u = t PROVE StartsWith(k+1, u)'
      <4>1. StartsWith(k+1, u)
        BY <3>2, <3>4
      <4> QED
        BY <1>7, <3>3, <4>1
    <3>5. t' = t
      BY <3>1
    <3> HIDE DEF t
    <3>6. PICK u : u = t
      OBVIOUS
    <3>7. StartsWith(k+1, u)'
      BY <3>4, <3>6
    <3>8. StartsWith(k+1, t)'
      BY <3>5, <3>6, <3>7 DEF StartsWith
    <3> QED
      BY <3>8 DEF t
  <2>2. CASE k = Len(fetch_data) + 1
    <3>1. f.stack_recover_idx = tos
      BY <1>3, <1>6, <2>2
    <3>2. Moved(fetch_data'[k].stack_recover_idx, fetch_data'[k].PC) = tos'
      BY <1>4, <1>6, <2>2, <3>1
    <3>3. \A m : m \notin k+1..Len(fetch_data')
      BY <1>6, <2>2
    <3> QED
      BY <3>2, <3>3 DEF StartsWith
  <2> QED
    BY <1>6, <2>1, <2>2
<1>9. CASE spec_mode
  BY <1>1, <1>2, <1>8, <1>9 DEF RasInv, RecoversTos, history
<1>10. CASE ~spec_mode
  <2>1. StartsWith(1, true_tos)
    BY <1>1, <1>10 DEF RasInv
  <2>2. PICK u : u = true_tos
    OBVIOUS
  <2>3. StartsWith(1, u)
    BY <2>1, <2>2
  <2>4. 1 \in 1..Len(fetch_data)+1
    BY <1>6
  <2>5. StartsWith(1, u)'
    BY <1>7, <2>3, <2>4
  <2>6. true_tos' = u
    BY <1>2, <2>2 DEF history
  <2> QED
    BY <1>2, <1>8, <1>10, <2>5, <2>6 DEF StartsWith
<1> QED
  BY <1>9, <1>10

\* Dispatch moves the correct path's top as the lookup of the instruction
\* moved the stack's; a misfetch drops only instructions that did not.
LEMMA RasDispatch ==
    ASSUME IInv, RasInv, NEW npc \in Text \cup {BOGUS}, ruu_dispatch(npc)
    PROVE  RasInv'
<1> SUFFICES ASSUME Stateful'
             PROVE  /\ RasChained'
                    /\ IF spec_mode' THEN RecoversTos' ELSE StartsWith(1, true_tos)'
  BY DEF RasInv
<1>1. Stateful /\ options' = options /\ ~pred_perfect
  BY DEF Stateful, pred_perfect, ruu_dispatch
<1> DEFINE f          == Head(fetch_data)
           redirected == Misfetched(f, npc)
           mispredict == ~spec_mode /\ f.pred_PC # npc /\ ~redirected
           b          == [PC |-> f.PC, next_PC |-> npc, pred_PC |-> f.pred_PC,
                          stack_recover_idx |-> f.stack_recover_idx,
                          recover_inst |-> mispredict, completed |-> FALSE]
<1>2. /\ inflight' = IF Ctrl(f.PC) THEN Append(inflight, b) ELSE inflight
      /\ spec_mode' = (spec_mode \/ mispredict)
      /\ fetch_data' = IF redirected THEN <<>> ELSE Tail(fetch_data)
      /\ fetch_data # <<>> /\ npc \in Targets(f.PC)
      /\ tos' = tos
      /\ true_tos' = IF spec_mode THEN true_tos ELSE Moved(true_tos, f.PC)
  BY <1>1 DEF ruu_dispatch, ras, history
<1>3. /\ fetch_data \in Seq(PathFetched) /\ Len(fetch_data) \in Nat \ {0}
      /\ f = fetch_data[1] /\ 1 \in 1..Len(fetch_data) /\ f \in PathFetched
      /\ Len(Tail(fetch_data)) = Len(fetch_data) - 1
      /\ \A k \in 1..Len(Tail(fetch_data)) : Tail(fetch_data)[k] = fetch_data[k+1]
  BY <1>2, HeadTailProperties, EmptySeq DEF IInv, PathTypes
<1>4. true_tos \in 0..RetSize-1
  BY DEF IInv, Scalars
<1>5. redirected => Off(f)
  BY <1>1 DEF Misfetched, Off
<1>6. mispredict => Ctrl(f.PC)
  <2> SUFFICES ASSUME ~Ctrl(f.PC) PROVE f.pred_PC = npc
    OBVIOUS
  <2>1. f.pred_PC = Seq1(f.PC)
    BY <1>3 DEF PathFetched
  <2>2. Targets(f.PC) = {Seq1(f.PC)}
    BY DEF Targets, Ctrl, Kinds
  <2> QED
    BY <1>2, <2>1, <2>2
<1>7. b.recover_inst = mispredict /\ b.completed = FALSE /\ b.PC = f.PC
      /\ b.stack_recover_idx = f.stack_recover_idx
  OBVIOUS
<1>8. Ctrl(f.PC) => StartsWith(2, Moved(f.stack_recover_idx, f.PC))
  BY <1>1, <1>3 DEF RasInv, RasChained
<1>9. ~spec_mode => /\ Ctrl(f.PC) => f.stack_recover_idx = true_tos
                    /\ StartsWith(2, true_tos')
  <2> SUFFICES ASSUME ~spec_mode
               PROVE  /\ Ctrl(f.PC) => f.stack_recover_idx = true_tos
                      /\ StartsWith(2, true_tos')
    OBVIOUS
  <2> HIDE DEF f
  <2>1. StartsWith(1, true_tos)
    BY <1>1 DEF RasInv
  <2>2. CASE Ctrl(f.PC)
    <3>1. f.stack_recover_idx = true_tos
      BY <1>3, <2>1, <2>2 DEF StartsWith
    <3> QED
      BY <1>2, <1>8, <2>2, <3>1
  <2>3. CASE ~Ctrl(f.PC)
    <3>1. true_tos' = true_tos
      BY <1>2, <1>4, <2>3, UnmovedMoved
    <3>2. \A k \in 2..Len(fetch_data) : (\A m \in 2..k-1 : ~Ctrl(fetch_data[m].PC))
             => k \in 1..Len(fetch_data) /\ \A m \in 1..k-1 : ~Ctrl(fetch_data[m].PC)
      BY <1>3, <2>3
    <3>3. (\A m \in 2..Len(fetch_data) : ~Ctrl(fetch_data[m].PC))
             => \A m \in 1..Len(fetch_data) : ~Ctrl(fetch_data[m].PC)
      BY <1>3, <2>3
    <3> QED
      BY <2>1, <2>3, <3>1, <3>2, <3>3 DEF StartsWith
  <2> QED
    BY <2>2, <2>3
<1>10. /\ Len(inflight) \in Nat
       /\ Ctrl(f.PC) => /\ Len(inflight') = Len(inflight) + 1
                        /\ \A i \in 1..Len(inflight) : inflight'[i] = inflight[i]
                        /\ inflight'[Len(inflight) + 1] = b
  <2>1. inflight \in Seq(PathStation)
    BY DEF IInv, PathTypes
  <2>2. Len(inflight) \in Nat
    BY <2>1, LenProperties
  <2> HIDE DEF f, b
  <2> QED
    BY <1>2, <2>1, <2>2
<1>11. spec_mode' => RecoversTos'
  <2> SUFFICES ASSUME spec_mode' PROVE RecoversTos'
    OBVIOUS
  <2>1. CASE spec_mode
    <3>1. RecoversTos /\ true_tos' = true_tos
      BY <1>1, <1>2, <2>1 DEF RasInv
    <3> HIDE DEF f, b
    <3>2. \A i \in 1..Len(inflight) : i \in 1..Len(inflight') /\ inflight'[i] = inflight[i]
      BY <1>2, <1>10
    <3> QED
      BY <3>1, <3>2 DEF RecoversTos
  <2>2. CASE ~spec_mode
    <3>1. mispredict /\ Ctrl(f.PC)
      BY <1>2, <1>6, <2>2
    <3>2. b.stack_recover_idx = Unmoved(true_tos', b.PC) /\ Unresolved(b)
      BY <1>2, <1>4, <1>7, <1>9, <2>2, <3>1, UnmovedMoved DEF Unresolved
    <3> HIDE DEF f, b, mispredict
    <3>3. Len(inflight) + 1 \in 1..Len(inflight')
      BY <1>10, <3>1
    <3> QED
      BY <1>10, <3>1, <3>2, <3>3 DEF RecoversTos
  <2> QED
    BY <2>1, <2>2
<1>12. CASE redirected
  <2>1. fetch_data' = <<>>
    BY <1>2, <1>12
  <2>2. Len(fetch_data') = 0
    BY <2>1
  <2>3. ~spec_mode' => tos' = true_tos'
    <3> SUFFICES ASSUME ~spec_mode PROVE tos = true_tos'
      BY <1>2
    <3>1. \A m \in 1+1..Len(fetch_data) : ~Ctrl(fetch_data[m].PC)
      <4> HIDE DEF f, redirected
      <4> QED
        BY <1>3, <1>5, <1>12 DEF IInv, AfterMisfetch
    <3> QED
      BY <1>9, <3>1 DEF StartsWith
  <2> QED
    BY <1>11, <2>2, <2>3 DEF RasChained, StartsWith
<1>13. CASE ~redirected
  <2>1. fetch_data' = Tail(fetch_data)
    BY <1>2, <1>13
  <2> HIDE DEF f, b, mispredict, redirected
  <2>2. ASSUME NEW j \in 1..Len(fetch_data), NEW t, StartsWith(j+1, t)
        PROVE  StartsWith(j, t)'
    BY <1>2, <2>1, <2>2, StartsTail
  <2>3. RasChained'
    <3> SUFFICES ASSUME NEW k \in 1..Len(fetch_data'), Ctrl(fetch_data'[k].PC)
                 PROVE  StartsWith(k+1, Moved(fetch_data[k].stack_recover_idx,
                                              fetch_data[k].PC))'
      BY DEF RasChained
    <3>1. /\ fetch_data'[k] = fetch_data[k+1] /\ k+1 \in 1..Len(fetch_data)
      BY <1>3, <2>1
    <3>2. PICK u : u = Moved(fetch_data[k+1].stack_recover_idx, fetch_data[k+1].PC)
      OBVIOUS
    <3>3. StartsWith((k+1)+1, u)
      BY <1>1, <3>1, <3>2 DEF RasInv, RasChained
    <3>4. StartsWith(k+1, u)'
      BY <2>2, <3>1, <3>3
    <3> QED
      BY <3>1, <3>2, <3>4 DEF StartsWith
  <2>4. ~spec_mode' => StartsWith(1, true_tos)'
    <3> SUFFICES ASSUME ~spec_mode' PROVE StartsWith(1, true_tos)'
      OBVIOUS
    <3>1. PICK u : u = true_tos'
      OBVIOUS
    <3>2. StartsWith(1+1, u)
      <4>1. ~spec_mode
        BY <1>2
      <4>2. StartsWith(2, true_tos')
        BY <1>9, <4>1
      <4> QED
        BY <3>1, <4>2
    <3>3. StartsWith(1, u)'
      BY <1>3, <2>2, <3>2
    <3> QED
      BY <3>1, <3>3 DEF StartsWith
  <2> QED
    BY <1>11, <2>3, <2>4
<1> QED
  BY <1>12, <1>13

\* The stack pointer's invariant holds at the start and is kept by every step.
LEMMA RasInvariance == Spec => []RasInv
<1>1. Init => RasInv
  <2> SUFFICES ASSUME Init PROVE RasInv
    OBVIOUS
  <2>1. Len(fetch_data) = 0 /\ tos = true_tos /\ spec_mode = FALSE
    BY DEF Init
  <2> QED
    BY <2>1, StartsEmpty DEF RasInv, StartsWith
<1>2. IInv /\ RasInv /\ [Next]_vars => RasInv'
  <2> SUFFICES ASSUME IInv, RasInv, [Next]_vars PROVE RasInv'
    OBVIOUS
  <2>1. CASE ruu_commit
    BY <2>1, RasCommit
  <2>2. CASE Writeback
    BY <2>2, RasWriteback DEF Writeback
  <2>3. CASE Dispatch
    BY <2>3, RasDispatch DEF Dispatch
  <2>4. CASE Fetch
    BY <2>4, RasFetch DEF Fetch
  <2>5. CASE UNCHANGED <<options, path, ras, inflight, history>>
    BY <2>5, RasStage
  <2> QED
    BY <2>1, <2>2, <2>3, <2>4, <2>5
    DEF Next, vars, EndWriteback, EndDispatch, FetchBlocked, EndFetch, FetchMiss
<1> QED
  BY <1>1, <1>2, Invariance, PTL DEF Spec


-----------------------------------------------------------------------------
(* The results *)

\* Queues, pointers and addresses of the front end keep their ranges: the
\* fetch queue never exceeds ruu_ifq_size, and the return-address stack is
\* never indexed outside its retstack.size entries, wherever wrong paths
\* and recoveries move its top.
THEOREM FrontEndType == Spec => []TypeOK
<1>1. IInv => TypeOK
  <2> SUFFICES ASSUME IInv PROVE TypeOK
    OBVIOUS
  <2>1. fetch_data \in Seq(Fetched)
    BY SeqMonotonic DEF IInv, PathTypes, PathFetched
  <2>2. inflight \in Seq(Station)
    BY SeqMonotonic DEF IInv, PathTypes, PathStation
  <2> QED
    BY <2>1, <2>2 DEF IInv, Scalars, TypeOK
<1> QED
  BY <1>1, Invariance, PTL

\* Outside spec_mode the simulator dispatches exactly the program's own
\* instructions, and a recovery resumes at the program's next one, for any
\* program, prediction, cache behaviour and order of completion.
THEOREM StaysOnPath == Spec => []CorrectPath
<1>1. IInv => CorrectPath
  BY DEF IInv
<1> QED
  BY <1>1, Invariance, PTL

\* A direct branch is misfetched only to the bogus address of a branch
\* target buffer miss, and only NOPs are fetched behind it.
THEOREM MisfetchesAreBogus == Spec => []MisfetchIsBogus
<1>1. IInv => MisfetchIsBogus
  <2> SUFFICES ASSUME IInv, NEW k \in DOMAIN fetch_data, Off(fetch_data[k])
               PROVE  /\ fetch_data[k].pred_PC = BOGUS
                      /\ \A j \in k+1..Len(fetch_data) : ~Ctrl(fetch_data[j].PC)
    BY DEF MisfetchIsBogus, Off
  <2>1. k \in 1..Len(fetch_data) /\ fetch_data[k] \in PathFetched
    BY LenProperties, ElementOfSeq DEF IInv, PathTypes
  <2>2. fetch_data[k].pred_PC = BOGUS
    BY <2>1 DEF PathFetched, Off
  <2> QED
    BY <2>1, <2>2 DEF IInv, AfterMisfetch
<1> QED
  BY <1>1, Invariance, PTL

\* SelectInSeq finds the first position: the minimum of the matching ones.
LEMMA FirstIndex ==
    ASSUME NEW n \in Nat, NEW I \in SUBSET (1..n), I # {}
    PROVE  Min(I) \in I /\ \A m \in 1..Min(I)-1 : m \notin I
<1> DEFINE R == OpToRel(<, Nat)
<1>0. I \subseteq Nat
  OBVIOUS
<1>1. IsWellFoundedOn(R, Nat)
  BY NatLessThanWellFounded
<1>2. R = {ss \in Nat \X Nat : ss[1] < ss[2]}
  BY Zenon DEF OpToRel
<1> HIDE DEF R
<1>3. PICK x \in I : \A y \in I : x <= y
  <2>1. \E x \in I : \A y \in I : ~(<<y, x>> \in R)
    BY <1>0, <1>1, WFMin
  <2>2. ASSUME NEW x \in Nat, NEW y \in Nat, y < x PROVE <<y, x>> \in R
    <3>1. <<y, x>> \in Nat \X Nat /\ <<y, x>>[1] = y /\ <<y, x>>[2] = x
      OBVIOUS
    <3> QED
      BY <1>2, <2>2, <3>1
  <2>3. \A x, y \in Nat : y < x \/ x <= y
    OBVIOUS
  <2> QED
    BY <1>0, <2>1, <2>2, <2>3
<1>4. Min(I) \in I /\ \A y \in I : Min(I) <= y
  BY <1>3 DEF Min
<1>5. Min(I) \in Nat
  BY <1>0, <1>4
<1> QED
  BY <1>4, <1>5

\* The top of the return-address stack is the correct path's at every
\* branch the simulator dispatches outside spec_mode, and a recovery from a
\* misprediction restores it: no wrong path, misfetch or squash, however
\* deep, leaves the stack displaced.
THEOREM RasStaysOnPath == Spec => []RasFollowsPath
<1>1. IInv /\ RasInv => RasFollowsPath
  <2> SUFFICES ASSUME IInv, RasInv, Stateful
               PROVE  RasFollowsPath
    BY DEF RasFollowsPath
  <2>1. CASE spec_mode
    <3>1. DOMAIN inflight = 1..Len(inflight)
      BY LenProperties DEF IInv, PathTypes
    <3> QED
      BY <2>1, <3>1 DEF RasInv, RecoversTos, Unresolved, RasFollowsPath
  <2>2. CASE ~spec_mode
    <3> DEFINE I == {i \in 1..Len(fetch_data) : Ctrl(fetch_data[i].PC)}
               k == IF I # {} THEN Min(I) ELSE 0
    <3>1. StartsWith(1, true_tos) /\ Len(fetch_data) \in Nat
      BY <2>2, LenProperties DEF RasInv, IInv, PathTypes
    <3>2. ASSUME I = {}
          PROVE  true_tos = IF k = 0 THEN tos ELSE fetch_data[k].stack_recover_idx
      BY <3>1, <3>2 DEF StartsWith
    <3>3. ASSUME I # {}
          PROVE  true_tos = IF k = 0 THEN tos ELSE fetch_data[k].stack_recover_idx
      <4>1. k \in I /\ \A m \in 1..k-1 : m \notin I
        BY <3>1, <3>3, FirstIndex
      <4>2. k \in 1..Len(fetch_data) /\ Ctrl(fetch_data[k].PC)
            /\ \A m \in 1..k-1 : ~Ctrl(fetch_data[m].PC)
        <5> HIDE DEF k
        <5> QED
          BY <3>1, <4>1
      <4> HIDE DEF k
      <4>3. fetch_data[k].stack_recover_idx = true_tos /\ k # 0
        BY <3>1, <4>2 DEF StartsWith
      <4> QED
        BY <4>3
    <3>4. true_tos = IF k = 0 THEN tos ELSE fetch_data[k].stack_recover_idx
      BY <3>2, <3>3
    <3> QED
      BY <2>2, <3>4, <3>3 DEF RasFollowsPath, SelectInSeq
  <2> QED
    BY <2>1, <2>2
<1> QED
  BY <1>1, Invariance, RasInvariance, PTL
=============================================================================
