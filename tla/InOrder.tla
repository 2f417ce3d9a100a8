------------------------------ MODULE InOrder ------------------------------
(***************************************************************************)
(* What the out-of-order core promises: the instructions of the correct    *)
(* path retire in program order, each exactly once, and each of them does. *)
(* Instructions are numbers, larger for later ones.                        *)
(***************************************************************************)
EXTENDS Integers, Sequences

CONSTANT Seqs        \* sequence numbers of instructions

VARIABLES window,    \* dispatched on the correct path, not yet retired
          retired    \* the last instruction retired

vars == <<window, retired>>

Init == window = <<>> /\ retired = 0

Enter(i) ==
    /\ i > retired
    /\ window # <<>> => i > window[Len(window)]
    /\ window' = Append(window, i)
    /\ UNCHANGED retired

Retire ==
    /\ window # <<>>
    /\ retired' = Head(window)
    /\ window' = Tail(window)

Next == Retire \/ \E i \in Seqs : Enter(i)

Safety == Init /\ [][Next]_vars

Spec == Safety /\ WF_vars(Retire)
=============================================================================
