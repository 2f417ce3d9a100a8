--------------------------- MODULE WriteBackCache ---------------------------
(***************************************************************************)
(* What any write-back, write-allocate cache with at most one prefetch per *)
(* access promises its user, whatever its replacement policy.  The state   *)
(* is the set of blocks it holds and the set of blocks whose newest data   *)
(* the next level of memory does not have yet.                             *)
(***************************************************************************)
EXTENDS Integers

CONSTANTS Blocks, SetOf(_)

VARIABLES cached, unsaved, running

Init ==
  /\ cached = {}
  /\ unsaved = {}
  /\ running = TRUE

\* The accessed block b is held afterwards, besides it at most a block p is
\* brought in, blocks leave only the sets of b and p, and whatever leaves
\* with unsaved data has been handed to the next level.
Access(cmd, b, p) ==
  /\ running
  /\ b \in cached'
  /\ cached' \subseteq cached \cup {b, p}
  /\ \A x \in cached \ cached' : SetOf(x) \in {SetOf(b), SetOf(p)}
  /\ unsaved' = (unsaved \cap cached') \cup (IF cmd = "Write" THEN {b} ELSE {})
  /\ UNCHANGED running

\* Nothing in the set out is held any more, and its data is saved.
Invalidate(out) ==
  /\ running
  /\ cached' = cached \ out
  /\ unsaved' = unsaved \ out
  /\ UNCHANGED running

Die == running /\ running' = FALSE /\ UNCHANGED <<cached, unsaved>>

Next ==
  \/ \E cmd \in {"Read", "Write"}, b, p \in Blocks : Access(cmd, b, p)
  \/ Invalidate(cached)
  \/ \E b \in Blocks : Invalidate({b})
  \/ Die

Spec == Init /\ [][Next]_<<cached, unsaved, running>>

=============================================================================
