----------------------------- MODULE StackCache -----------------------------
(***************************************************************************)
(* The textbook LRU and FIFO caches, with an optional next-line prefetch:  *)
(* every set is a sequence of at most Assoc tags, the newest first.  There *)
(* are no ways, no list pointers, no invalid blocks and no shortcut for    *)
(* the block that hit last.                                                *)
(***************************************************************************)
EXTENDS Integers, SequencesExt

CONSTANTS NSets, NTags, Assoc

Blocks   == 0 .. (NSets * NTags) - 1
SetOf(b) == b % NSets
TagOf(b) == b \div NSets

VARIABLES
  policy,   \* "LRU" or "FIFO"
  pref,     \* "none" or "next_line"
  stack,    \* the tags of every set
  unsaved,  \* blocks whose newest data the next level does not have
  running

Holds(stk, b) == Contains(stk[SetOf(b)], TagOf(b))
Resident(stk) == {b \in Blocks : Holds(stk, b)}

\* Sequence st without the tag t, which it has at most once.
Without(st, t) ==
  IF Contains(st, t) THEN RemoveAt(st, CHOOSE i \in 1 .. Len(st) : st[i] = t) ELSE st

\* Tag t becomes the newest of its set; the oldest leaves a full one.
Newest(st, t) ==
  LET all == <<t>> \o Without(st, t)
  IN  IF Len(all) > Assoc THEN Front(all) ELSE all

Bring(stk, b) == [stk EXCEPT ![SetOf(b)] = Newest(stk[SetOf(b)], TagOf(b))]

Prefetched(stk, b) ==
  LET next == (b + 1) % (NSets * NTags)
  IN  IF pref = "none" \/ Holds(stk, next) THEN stk ELSE Bring(stk, next)

Init ==
  /\ policy \in {"LRU", "FIFO"}
  /\ pref \in {"none", "next_line"}
  /\ stack = [s \in 0 .. NSets - 1 |-> <<>>]
  /\ unsaved = {}
  /\ running = TRUE

\* A miss brings the block in; a hit refreshes it under LRU only.
Access(cmd, b) ==
  /\ running
  /\ stack' = IF policy = "FIFO" /\ Holds(stack, b)
              THEN Prefetched(stack, b)
              ELSE Bring(Prefetched(stack, b), b)
  /\ unsaved' = (unsaved \cap Resident(stack')) \cup (IF cmd = "Write" THEN {b} ELSE {})
  /\ UNCHANGED <<policy, pref, running>>

\* All blocks leave, and their data is saved.
FlushAll ==
  /\ running
  /\ stack' = [s \in 0 .. NSets - 1 |-> <<>>]
  /\ unsaved' = {}
  /\ UNCHANGED <<policy, pref, running>>

\* The same for block b alone.
FlushOne(b) ==
  /\ running
  /\ stack' = [stack EXCEPT ![SetOf(b)] = Without(stack[SetOf(b)], TagOf(b))]
  /\ unsaved' = unsaved \ {b}
  /\ UNCHANGED <<policy, pref, running>>

Die == running /\ running' = FALSE /\ UNCHANGED <<policy, pref, stack, unsaved>>

Next ==
  \/ \E cmd \in {"Read", "Write"}, b \in Blocks : Access(cmd, b)
  \/ FlushAll
  \/ \E b \in Blocks : FlushOne(b)
  \/ Die

Spec == Init /\ [][Next]_<<policy, pref, stack, unsaved, running>>

=============================================================================
