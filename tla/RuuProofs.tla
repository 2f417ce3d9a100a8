----------------------------- MODULE RuuProofs -----------------------------
(***************************************************************************)
(* The out-of-order core is correct, for all sizes of the RUU, the LSQ and *)
(* the widths, all latencies, any number of functional units and every     *)
(* setting of the options.                                                 *)
(*                                                                         *)
(* Inv is the inductive invariant: the types, Core for the stations        *)
(* between the heads and the tails, both queues ordered by age, and        *)
(* Window:                                                                 *)
(*                                                                         *)
(*  Kinded     loads and stores are in the LSQ, the rest in the RUU        *)
(*  Paired     each LSQ entry has its address computation right before it  *)
(*  Bounded    spec_mode says that there is one unresolved mispredicted    *)
(*             branch, and what is younger than it is speculative          *)
(*  LoadsOK    a load that is queued or issued has no older store whose    *)
(*             address is unknown, or whose data it needs and is not there *)
(*                                                                         *)
(* There is one lemma per stage.  A commit needs Paired to retire both     *)
(* halves of a memory operation; a squash cuts both queues at the branch   *)
(* (Cut), and needs Paired so that they are cut between the same two       *)
(* instructions, and Bounded so that all it takes is speculative and all   *)
(* speculative is taken. The last part shows that the core implements      *)
(* InOrder: in the RUU the speculative instructions are a suffix           *)
(* (OwnPrefix), so the other ones are a sequence of numbers of which       *)
(* commit takes the first, dispatch appends one, and a squash takes none.  *)
(***************************************************************************)
EXTENDS RuuChainProofs

-----------------------------------------------------------------------------
\* The n entries of a circular buffer of N stations from h on, oldest first.
Ring(t, N, h, n) == [k \in 1..n |-> <<t, (h + k - 1) % N>>]

\* Its first n entries are different.
Distinct(q, n) == \A j, k \in 1..n : q[j] = q[k] => j = k

\* They are different stations.
LEMMA RingOnce ==
    ASSUME NEW t, NEW N \in Nat \ {0}, NEW h \in 0..N-1, NEW n \in 0..N
    PROVE  /\ Distinct(Ring(t, N, h, n), n)
           /\ \A k \in 1..n : Ring(t, N, h, n)[k][1] = t
           /\ \A k \in 1..n : Ring(t, N, h, n)[k][2] \in 0..N-1
<1>1. \A k \in 1..n : Ring(t, N, h, n)[k] = <<t, (h + k - 1) % N>>
  BY DEF Ring
<1>2. \A k \in 1..n : (h + k - 1) % N = IF h + k - 1 < N THEN h + k - 1 ELSE h + k - 1 - N
  <2> SUFFICES ASSUME NEW k \in 1..n
               PROVE  (h + k - 1) % N = IF h + k - 1 < N THEN h + k - 1 ELSE h + k - 1 - N
    OBVIOUS
  <2>1. PICK a : a = h + k - 1
    OBVIOUS
  <2>2. a \in 0..2*N-1
    BY <2>1
  <2>3. a % N = IF a < N THEN a ELSE a - N
    BY <2>2, Wrap
  <2> QED
    BY <2>1, <2>3
<1>3. ASSUME NEW j \in 1..n, NEW k \in 1..n, Ring(t, N, h, n)[j] = Ring(t, N, h, n)[k]
      PROVE  j = k
  <2>1. (h + j - 1) % N = (h + k - 1) % N
    BY <1>1, <1>3
  <2>2. PICK a \in Int, b \in Int : a = h + j - 1 /\ b = h + k - 1
    OBVIOUS
  <2>3. (a < N /\ b < N => a = b) /\ (a >= N /\ b >= N => a = b)
    BY <1>2, <2>1, <2>2
  <2>4. a < N /\ b >= N => a = b - N
    BY <1>2, <2>1, <2>2
  <2>5. a >= N /\ b < N => a - N = b
    BY <1>2, <2>1, <2>2
  <2> QED
    BY <2>2, <2>3, <2>4, <2>5
<1>4. ASSUME NEW k \in 1..n PROVE Ring(t, N, h, n)[k][1] = t /\ Ring(t, N, h, n)[k][2] \in 0..N-1
  <2>1. (h + k - 1) % N \in 0..N-1
    BY <1>2
  <2> QED
    BY <1>1, <2>1
<1> QED
  BY <1>3, <1>4 DEF Distinct

\* Without the oldest entry it begins one further.
LEMMA RingTail ==
    ASSUME NEW t, NEW N \in Nat \ {0}, NEW h \in 0..N-1, NEW n \in 1..N
    PROVE  /\ (h + 1) % N \in 0..N-1
           /\ \A k \in 1..n-1 : Ring(t, N, (h + 1) % N, n - 1)[k] = Ring(t, N, h, n)[k + 1]
<1> DEFINE g == (h + 1) % N
<1>1. g = IF h + 1 < N THEN h + 1 ELSE h + 1 - N
  <2>1. PICK a \in 0..2*N-1 : a = h + 1
    OBVIOUS
  <2>2. a % N = IF a < N THEN a ELSE a - N
    BY <2>1, Wrap
  <2> QED
    BY <2>1, <2>2
<1>2. g \in 0..N-1
  BY <1>1
<1> HIDE DEF g
<1>3. ASSUME NEW k \in 1..n-1 PROVE (g + k - 1) % N = (h + (k + 1) - 1) % N
  <2>1. PICK a \in Int, b \in Int : a = g + k - 1 /\ b = h + (k + 1) - 1
    BY <1>2
  <2>2. a \in 0..2*N-1 /\ b \in 0..2*N-1
    BY <1>2, <2>1
  <2>3. a % N = (IF a < N THEN a ELSE a - N) /\ b % N = (IF b < N THEN b ELSE b - N)
    BY <2>2, Wrap
  <2>4. (h + 1 < N => a = b) /\ (h + 1 >= N => a = b - N)
    BY <1>1, <2>1
  <2>5. h + 1 >= N => a < N /\ b >= N
    BY <1>1, <2>1
  <2>6. a % N = b % N
    BY <2>1, <2>3, <2>4, <2>5
  <2> QED
    BY <2>1, <2>6
<1>4. \A k \in 1..n-1 : k + 1 \in 1..n
  OBVIOUS
<1> QED
  BY <1>2, <1>3, <1>4 DEF Ring, g

\* The ring with one more entry.
OneMore(t, N, h, n) ==
    /\ \A k \in 1..n : Ring(t, N, h, n)[k] # <<t, (h + n) % N>>
    /\ Ring(t, N, h, n + 1)[n + 1] = <<t, (h + n) % N>>
    /\ \A k \in 1..n : Ring(t, N, h, n + 1)[k] = Ring(t, N, h, n)[k]

\* The entry after the youngest is none of them.
LEMMA RingNext ==
    ASSUME NEW t, NEW N \in Nat \ {0}, NEW h \in 0..N-1, NEW n \in 0..N-1
    PROVE  OneMore(t, N, h, n)
<1>1. n + 1 \in 0..N /\ \A k \in 1..n : k \in 1..n+1
  OBVIOUS
<1>2. h + (n + 1) - 1 = h + n /\ n + 1 \in 1..n+1
  OBVIOUS
<1>3. Ring(t, N, h, n + 1)[n + 1] = <<t, (h + n) % N>>
  BY <1>2 DEF Ring
<1>4. \A k \in 1..n : Ring(t, N, h, n + 1)[k] = Ring(t, N, h, n)[k]
  BY <1>1 DEF Ring
<1>5. \A j, k \in 1..n+1 : Ring(t, N, h, n+1)[j] = Ring(t, N, h, n+1)[k] => j = k
  <2>1. PICK m \in 0..N : m = n + 1
    BY <1>1
  <2>2. Distinct(Ring(t, N, h, m), m)
    BY <2>1, RingOnce
  <2> QED
    BY <2>1, <2>2 DEF Distinct
<1> QED
  BY <1>1, <1>2, <1>3, <1>4, <1>5 DEF OneMore

\* The buffers of the model.
LEMMA Buffers ==
    /\ RuuLive = Ring("RUU", RUU_size, RUU_head, RUU_num)
    /\ LsqLive = Ring("LSQ", LSQ_size, LSQ_head, LSQ_num)
    /\ \A i : RUU(i) = <<"RUU", i % RUU_size>> /\ LSQ(i) = <<"LSQ", i % LSQ_size>>
BY DEF RuuLive, LsqLive, Ring, RUU, LSQ

\* Every entry is a station, of its buffer.
LEMMA StationOf ==
    /\ \A i \in Nat : RUU(i) \in Stations /\ ~in_LSQ(RUU(i))
    /\ \A i \in Nat : LSQ(i) \in Stations /\ in_LSQ(LSQ(i))
    /\ \A i, j \in Nat : RUU(i) # LSQ(j)
<1>1. RUU_size \in Nat \ {0} /\ LSQ_size \in Nat \ {0}
  BY RuuAssumption
<1>2. ASSUME NEW i \in Nat PROVE RUU(i) \in Stations /\ LSQ(i) \in Stations
  <2>1. PICK a, b : a = i % RUU_size /\ b = i % LSQ_size
    OBVIOUS
  <2>2. a \in 0..RUU_size-1 /\ b \in 0..LSQ_size-1
    BY <1>1, <2>1
  <2>3. a % RUU_size = a /\ b % LSQ_size = b
    BY <1>1, <2>2, Wrap
  <2>4. RUU(i) = RUU(a) /\ LSQ(i) = LSQ(b)
    BY <2>1, <2>3 DEF RUU, LSQ
  <2> QED
    BY <2>2, <2>4 DEF Stations
<1>3. "RUU" # "LSQ"
  OBVIOUS
<1>4. \A i, j \in Nat : RUU(i)[1] = "RUU" /\ LSQ(j)[1] = "LSQ"
  BY DEF RUU, LSQ
<1> QED
  BY <1>2, <1>3, <1>4 DEF in_LSQ

-----------------------------------------------------------------------------
\* What the stations A in use hold: loads and stores in the LSQ, everything
\* else in the RUU; only branches recover, and stores write no register and
\* use a port.
Kinded(rr, A, sq) ==
    \A s \in A :
       /\ rr[s].seq \in 1..sq
       /\ in_LSQ(s) => rr[s].kind \in {"load", "store"}
       /\ ~in_LSQ(s) => rr[s].kind \in {"alu", "ctrl", "trap", "agen"}
       /\ rr[s].ea_comp <=> rr[s].kind = "agen"
       /\ rr[s].recover_inst => rr[s].kind = "ctrl"
       /\ Store(rr[s]) => /\ rr[s].onames[1] = NA /\ rr[s].onames[2] = NA
                          /\ rr[s].fu # NA

\* r computes the address of the memory operation l.
Half(rr, r, l) == /\ ~in_LSQ(r) /\ in_LSQ(l)
                  /\ rr[r].ea_comp /\ rr[l].seq = rr[r].seq + 1

Paired(rr, A) ==
    /\ \A l \in A : in_LSQ(l) => \E r \in A : Half(rr, r, l)
    /\ \A r \in A : rr[r].ea_comp => \E l \in A : Half(rr, r, l)

\* A mispredicted branch that has still to be resolved.
Open(rr, b) == rr[b].recover_inst /\ ~rr[b].completed

Bounded(rr, A, sp) ==
    /\ sp <=> \E b \in A : Open(rr, b)
    /\ \A b, c \in A : Open(rr, b) /\ Open(rr, c) => b = c
    /\ \A s \in A : rr[s].spec_mode <=>
                       \E b \in A : Open(rr, b) /\ rr[b].seq < rr[s].seq

\* A store of the address of m is between j and m.
Hidden(rr, A, j, m) ==
    \E k \in A : /\ Store(rr[k]) /\ rr[k].addr = rr[m].addr
                 /\ rr[j].seq < rr[k].seq /\ rr[k].seq < rr[m].seq

\* No older store keeps the load m from its data.
Clear(rr, A, m) ==
    \A j \in A : Store(rr[j]) /\ rr[j].seq < rr[m].seq =>
       /\ STORE_ADDR_READY(rr[j])
       /\ rr[j].addr = rr[m].addr /\ ~Hidden(rr, A, j, m) => OPERANDS_READY(rr[j])

LoadsOK(rr, A) ==
    \A m \in A : rr[m].kind = "load" /\ (rr[m].queued \/ rr[m].issued) => Clear(rr, A, m)

Window(rr, A, sp, sq) ==
    /\ Kinded(rr, A, sq) /\ Paired(rr, A) /\ Bounded(rr, A, sp) /\ LoadsOK(rr, A)

\* The instruction is the same, and its operands only become ready.
Onward(a, b) ==
    /\ b.kind = a.kind /\ b.addr = a.addr /\ b.ea_comp = a.ea_comp
    /\ b.recover_inst = a.recover_inst /\ b.spec_mode = a.spec_mode
    /\ b.seq = a.seq /\ b.onames = a.onames /\ b.fu = a.fu
    /\ \A k \in 1..3 : a.idep_ready[k] => b.idep_ready[k]

\* No branch is resolved, and only loads that are clear begin to execute.
Steady(rr, r2, A) ==
    \A x \in A :
       /\ Onward(rr[x], r2[x])
       /\ rr[x].recover_inst => r2[x].completed = rr[x].completed
       /\ rr[x].kind = "load" /\ (r2[x].queued \/ r2[x].issued) =>
             rr[x].queued \/ rr[x].issued \/ Clear(rr, A, x)

\* Then a load that was clear still is.
LEMMA ClearSteady ==
    ASSUME NEW rr, NEW r2, NEW A, NEW m \in A, \A x \in A : Onward(rr[x], r2[x]),
           Clear(rr, A, m)
    PROVE  Clear(r2, A, m)
<1>1. \A x \in A : /\ r2[x].seq = rr[x].seq /\ r2[x].addr = rr[x].addr
                   /\ Store(r2[x]) <=> Store(rr[x])
                   /\ STORE_ADDR_READY(rr[x]) => STORE_ADDR_READY(r2[x])
                   /\ OPERANDS_READY(rr[x]) => OPERANDS_READY(r2[x])
  BY DEF Onward, Store, STORE_ADDR_READY, OPERANDS_READY
<1>2. \A j \in A : Hidden(r2, A, j, m) <=> Hidden(rr, A, j, m)
  BY <1>1 DEF Hidden
<1> QED
  BY <1>1, <1>2 DEF Clear

\* Then what the stations hold stays right.
LEMMA WindowSteady ==
    ASSUME NEW rr, NEW r2, NEW A, NEW sp, NEW sq,
           Window(rr, A, sp, sq), Steady(rr, r2, A)
    PROVE  Window(r2, A, sp, sq)
<1>1. \A x \in A : Onward(rr[x], r2[x])
  BY DEF Steady
<1>2. Kinded(r2, A, sq)
  <2>1. \A x \in A : /\ r2[x].seq = rr[x].seq /\ r2[x].kind = rr[x].kind
                     /\ r2[x].ea_comp = rr[x].ea_comp /\ r2[x].onames = rr[x].onames
                     /\ r2[x].recover_inst = rr[x].recover_inst /\ r2[x].fu = rr[x].fu
    BY <1>1 DEF Onward
  <2> QED
    BY <2>1 DEF Window, Kinded, Store
<1>3. Paired(r2, A)
  <2>1. \A x, y \in A : Half(r2, x, y) <=> Half(rr, x, y)
    BY <1>1 DEF Onward, Half
  <2>2. \A x \in A : r2[x].ea_comp = rr[x].ea_comp
    BY <1>1 DEF Onward
  <2> QED
    BY <2>1, <2>2 DEF Window, Paired
<1>4. Bounded(r2, A, sp)
  <2>1. \A x \in A : Open(r2, x) <=> Open(rr, x)
    BY DEF Steady, Onward, Open
  <2>2. \A x \in A : r2[x].seq = rr[x].seq /\ r2[x].spec_mode = rr[x].spec_mode
    BY <1>1 DEF Onward
  <2> QED
    BY <2>1, <2>2 DEF Window, Bounded
<1>5. LoadsOK(r2, A)
  <2> SUFFICES ASSUME NEW m \in A, r2[m].kind = "load", r2[m].queued \/ r2[m].issued
               PROVE  Clear(r2, A, m)
    BY DEF LoadsOK
  <2>1. rr[m].kind = "load"
    BY <1>1 DEF Onward
  <2>2. Clear(rr, A, m)
    BY <2>1 DEF Steady, Window, LoadsOK
  <2> QED
    BY <1>1, <2>2, ClearSteady
<1> QED
  BY <1>2, <1>3, <1>4, <1>5 DEF Window

\* The stations "gone" are all older or all younger than the others, whole
\* memory operations, and none an open branch.
Separable(rr, r2, A, gone) ==
    /\ gone \subseteq A /\ \A x \in A : rr[x].seq \in Nat
    /\ \/ \A p \in gone, x \in A \ gone : rr[p].seq < rr[x].seq
       \/ \A p \in gone, x \in A \ gone : rr[x].seq < rr[p].seq
    /\ \A r, l \in A : Half(rr, r, l) => (r \in gone <=> l \in gone)
    /\ \A p \in gone : ~Open(rr, p)
    /\ \A x \in A \ gone : r2[x] = rr[x]

\* They can leave.
LEMMA WindowFree ==
    ASSUME NEW rr, NEW r2, NEW A, NEW gone, NEW sp, NEW sq,
           Window(rr, A, sp, sq), Separable(rr, r2, A, gone)
    PROVE  Window(r2, A \ gone, sp, sq)
<1> DEFINE B == A \ gone
<1>1. B \subseteq A /\ \A x \in B : r2[x] = rr[x]
  BY DEF Separable
<1>2. Kinded(r2, B, sq)
  BY <1>1 DEF Window, Kinded
<1>3. Paired(r2, B)
  <2>1. \A x, y \in B : Half(r2, x, y) <=> Half(rr, x, y)
    BY <1>1 DEF Half
  <2>2. ASSUME NEW l \in B, in_LSQ(l) PROVE \E r \in B : Half(r2, r, l)
    <3>1. PICK r \in A : Half(rr, r, l)
      BY <1>1, <2>2 DEF Window, Paired
    <3>2. r \in B
      BY <1>1, <3>1 DEF Separable
    <3> QED
      BY <2>1, <3>1, <3>2
  <2>3. ASSUME NEW r \in B, r2[r].ea_comp PROVE \E l \in B : Half(r2, r, l)
    <3>1. PICK l \in A : Half(rr, r, l)
      BY <1>1, <2>3 DEF Window, Paired
    <3>2. l \in B
      BY <1>1, <3>1 DEF Separable
    <3> QED
      BY <2>1, <3>1, <3>2
  <2> QED
    BY <2>2, <2>3 DEF Paired
<1>4. Bounded(r2, B, sp)
  <2>1. \A x \in B : Open(r2, x) <=> Open(rr, x)
    BY <1>1 DEF Open
  <2>2. \A x \in A : Open(rr, x) => x \in B
    BY DEF Separable
  <2> HIDE DEF B
  <2> QED
    BY <1>1, <2>1, <2>2 DEF Window, Bounded
<1>5. LoadsOK(r2, B)
  <2> SUFFICES ASSUME NEW m \in B, r2[m].kind = "load", r2[m].queued \/ r2[m].issued
               PROVE  Clear(r2, B, m)
    BY DEF LoadsOK
  <2>1. Clear(rr, A, m)
    BY <1>1 DEF Window, LoadsOK
  <2> SUFFICES ASSUME NEW j \in B, Store(r2[j]), r2[j].seq < r2[m].seq
               PROVE  /\ STORE_ADDR_READY(r2[j])
                      /\ r2[j].addr = r2[m].addr /\ ~Hidden(r2, B, j, m) => OPERANDS_READY(r2[j])
    BY DEF Clear
  <2>2. j \in A /\ m \in A /\ r2[j] = rr[j] /\ r2[m] = rr[m]
    BY <1>1
  <2>3. /\ STORE_ADDR_READY(rr[j])
        /\ rr[j].addr = rr[m].addr /\ ~Hidden(rr, A, j, m) => OPERANDS_READY(rr[j])
    BY <2>1, <2>2 DEF Clear
  <2>4. ASSUME Hidden(rr, A, j, m) PROVE Hidden(r2, B, j, m)
    <3>1. PICK k \in A : /\ Store(rr[k]) /\ rr[k].addr = rr[m].addr
                         /\ rr[j].seq < rr[k].seq /\ rr[k].seq < rr[m].seq
      BY <2>4 DEF Hidden
    <3>2. rr[j].seq \in Nat /\ rr[k].seq \in Nat /\ rr[m].seq \in Nat
      BY <2>2 DEF Separable
    <3>3. k \in B
      BY <3>1, <3>2 DEF Separable
    <3>4. r2[k] = rr[k]
      BY <1>1, <3>3
    <3> QED
      BY <2>2, <3>1, <3>3, <3>4 DEF Hidden
  <2> QED
    BY <2>2, <2>3, <2>4
<1> QED
  BY <1>2, <1>3, <1>4, <1>5 DEF Window

\* The open branch b completes when nothing speculative is left.
LEMMA WindowResolve ==
    ASSUME NEW rr, NEW r2, NEW A, NEW b \in A, NEW sq, Window(rr, A, TRUE, sq),
           Open(rr, b), \A x \in A : Onward(rr[x], r2[x]), r2[b].completed,
           \A x \in A : /\ r2[x].queued = rr[x].queued /\ r2[x].issued = rr[x].issued
                        /\ ~rr[x].spec_mode
                        /\ x # b => r2[x].completed = rr[x].completed
    PROVE  Window(r2, A, FALSE, sq)
<1>1. Kinded(r2, A, sq)
  <2>1. \A x \in A : /\ r2[x].seq = rr[x].seq /\ r2[x].kind = rr[x].kind
                     /\ r2[x].ea_comp = rr[x].ea_comp /\ r2[x].onames = rr[x].onames
                     /\ r2[x].recover_inst = rr[x].recover_inst /\ r2[x].fu = rr[x].fu
    BY DEF Onward
  <2> QED
    BY <2>1 DEF Window, Kinded, Store
<1>2. Paired(r2, A)
  <2>1. \A x, y \in A : Half(r2, x, y) <=> Half(rr, x, y)
    BY DEF Onward, Half
  <2>2. \A x \in A : r2[x].ea_comp = rr[x].ea_comp
    BY DEF Onward
  <2> QED
    BY <2>1, <2>2 DEF Window, Paired
<1>3. Bounded(r2, A, FALSE)
  <2>1. \A x \in A : ~Open(r2, x)
    <3> SUFFICES ASSUME NEW x \in A, Open(r2, x) PROVE FALSE
      OBVIOUS
    <3>1. x # b
      BY DEF Open
    <3>2. Open(rr, x)
      BY <3>1 DEF Open, Onward
    <3> QED
      BY <3>1, <3>2 DEF Window, Bounded
  <2>2. \A x \in A : ~r2[x].spec_mode
    BY DEF Onward
  <2> QED
    BY <2>1, <2>2 DEF Bounded
<1>4. LoadsOK(r2, A)
  <2> SUFFICES ASSUME NEW m \in A, r2[m].kind = "load", r2[m].queued \/ r2[m].issued
               PROVE  Clear(r2, A, m)
    BY DEF LoadsOK
  <2>1. rr[m].kind = "load"
    BY DEF Onward
  <2>2. Clear(rr, A, m)
    BY <2>1 DEF Window, LoadsOK
  <2> QED
    BY <2>2, ClearSteady
<1> QED
  BY <1>1, <1>2, <1>3, <1>4 DEF Window

\* The instructions N, younger than all of A, join them; a mispredicted
\* branch, outside speculation, joins alone.
Growing(rr, r2, A, N, sp, sq, sp2, sq2) ==
    /\ sp \in BOOLEAN /\ sp2 \in BOOLEAN /\ sq \in Nat /\ sq2 \in Nat /\ sq <= sq2
    /\ \A x \in A : /\ Onward(rr[x], r2[x]) /\ rr[x].seq \in Nat
                    /\ r2[x].queued = rr[x].queued /\ r2[x].issued = rr[x].issued
                    /\ r2[x].completed = rr[x].completed
    /\ Kinded(r2, N, sq2) /\ Paired(r2, N)
    /\ \A x \in N : /\ r2[x].seq > sq /\ ~r2[x].completed /\ r2[x].spec_mode = sp
                    /\ r2[x].kind = "load" => ~r2[x].queued /\ ~r2[x].issued
                    /\ r2[x].recover_inst => ~sp /\ N = {x}
    /\ sp2 = (sp \/ \E x \in N : r2[x].recover_inst)

\* What the stations hold stays right.
LEMMA WindowGrow ==
    ASSUME NEW rr, NEW r2, NEW A, NEW N, NEW sp, NEW sq, NEW sp2, NEW sq2,
           Window(rr, A, sp, sq), Growing(rr, r2, A, N, sp, sq, sp2, sq2)
    PROVE  Window(r2, A \cup N, sp2, sq2)
<1> DEFINE B == A \cup N
<1>1. /\ \A x \in A : /\ r2[x].seq = rr[x].seq /\ r2[x].kind = rr[x].kind
                      /\ r2[x].ea_comp = rr[x].ea_comp /\ r2[x].onames = rr[x].onames
                      /\ r2[x].recover_inst = rr[x].recover_inst /\ r2[x].fu = rr[x].fu
                      /\ r2[x].spec_mode = rr[x].spec_mode
                      /\ r2[x].completed = rr[x].completed
                      /\ r2[x].queued = rr[x].queued /\ r2[x].issued = rr[x].issued
      /\ sq \in Nat /\ sq2 \in Nat /\ sq <= sq2
  BY DEF Growing, Onward
<1>2. \A x \in A : rr[x].seq \in 1..sq
  BY DEF Window, Kinded
<1>3. \A x \in N : r2[x].seq \in 1..sq2 /\ r2[x].seq > sq
  BY DEF Growing, Kinded
<1>4. Kinded(r2, B, sq2)
  <2>1. ASSUME NEW s \in A
        PROVE  /\ r2[s].seq \in 1..sq2
               /\ in_LSQ(s) => r2[s].kind \in {"load", "store"}
               /\ ~in_LSQ(s) => r2[s].kind \in {"alu", "ctrl", "trap", "agen"}
               /\ r2[s].ea_comp <=> r2[s].kind = "agen"
               /\ r2[s].recover_inst => r2[s].kind = "ctrl"
               /\ Store(r2[s]) => /\ r2[s].onames[1] = NA /\ r2[s].onames[2] = NA
                                  /\ r2[s].fu # NA
    <3>1. r2[s].seq \in 1..sq2
      BY <1>1, <1>2
    <3> QED
      BY <1>1, <3>1 DEF Window, Kinded, Store
  <2>2. Kinded(r2, N, sq2)
    BY DEF Growing
  <2> QED
    BY <2>1, <2>2 DEF Kinded
<1>5. Paired(r2, B)
  <2>1. \A x, y \in A : Half(r2, x, y) <=> Half(rr, x, y)
    BY <1>1 DEF Half
  <2>2. Paired(r2, N)
    BY DEF Growing
  <2> QED
    BY <1>1, <2>1, <2>2 DEF Window, Paired
<1>6. Bounded(r2, B, sp2)
  <2>1. \A x \in A : Open(r2, x) <=> Open(rr, x)
    BY <1>1 DEF Open
  <2>2. \A x \in N : Open(r2, x) <=> r2[x].recover_inst
    BY DEF Growing, Open
  <2>3. sp <=> \E b \in A : Open(rr, b)
    BY DEF Window, Bounded
  <2>4. \A x \in N : r2[x].recover_inst => ~sp /\ N = {x}
    BY DEF Growing
  <2>5. \A x \in N : r2[x].spec_mode = sp
    BY DEF Growing
  <2>6. sp2 = (sp \/ \E x \in N : r2[x].recover_inst) /\ sp \in BOOLEAN /\ sp2 \in BOOLEAN
    BY DEF Growing
  <2>7. sp2 <=> \E b \in B : Open(r2, b)
    BY <2>1, <2>2, <2>3, <2>6
  <2>8. ASSUME NEW b \in B, NEW c \in B, Open(r2, b), Open(r2, c) PROVE b = c
    <3>1. CASE b \in A /\ c \in A
      BY <2>1, <2>8, <3>1 DEF Window, Bounded
    <3>2. CASE b \in N
      BY <2>1, <2>2, <2>3, <2>4, <2>8, <3>2
    <3>3. CASE c \in N
      BY <2>1, <2>2, <2>3, <2>4, <2>8, <3>3
    <3> QED
      BY <3>1, <3>2, <3>3
  <2>9. ASSUME NEW s \in B
        PROVE  r2[s].spec_mode <=> \E b \in B : Open(r2, b) /\ r2[b].seq < r2[s].seq
    <3>1. CASE s \in A
      <4>1. \A b \in N : ~(r2[b].seq < r2[s].seq)
        BY <1>1, <1>2, <1>3, <3>1
      <4>2. rr[s].spec_mode <=> \E b \in A : Open(rr, b) /\ rr[b].seq < rr[s].seq
        BY <3>1 DEF Window, Bounded
      <4> QED
        BY <1>1, <2>1, <3>1, <4>1, <4>2
    <3>2. CASE s \in N
      <4>1. r2[s].spec_mode <=> sp
        BY <2>5, <2>6, <3>2
      <4>2. \A b \in A : r2[b].seq < r2[s].seq
        BY <1>1, <1>2, <1>3, <3>2
      <4>3. ASSUME NEW b \in N, Open(r2, b), r2[b].seq < r2[s].seq PROVE FALSE
        <5>1. s = b
          BY <2>2, <2>4, <3>2, <4>3
        <5> QED
          BY <1>3, <3>2, <4>3, <5>1
      <4> QED
        BY <2>1, <2>3, <4>1, <4>2, <4>3
    <3> QED
      BY <3>1, <3>2
  <2> QED
    BY <2>7, <2>8, <2>9 DEF Bounded
<1>7. LoadsOK(r2, B)
  <2> SUFFICES ASSUME NEW m \in B, r2[m].kind = "load", r2[m].queued \/ r2[m].issued
               PROVE  Clear(r2, B, m)
    BY DEF LoadsOK
  <2>1. m \in A
    BY DEF Growing
  <2>2. Clear(rr, A, m)
    BY <1>1, <2>1 DEF Window, LoadsOK
  <2>3. \A x \in A : Onward(rr[x], r2[x])
    BY DEF Growing
  <2>4. Clear(r2, A, m)
    BY <2>1, <2>2, <2>3, ClearSteady
  <2>5. \A j \in N : ~(r2[j].seq < r2[m].seq)
    BY <1>1, <1>2, <1>3, <2>1
  <2>6. \A j \in A : Hidden(r2, B, j, m) <=> Hidden(r2, A, j, m)
    BY <2>5 DEF Hidden
  <2> QED
    BY <2>4, <2>5, <2>6 DEF Clear
<1> QED
  BY <1>4, <1>5, <1>6, <1>7 DEF Window

-----------------------------------------------------------------------------
\* A station that executes.
Executes(rr, x) == rr[x].issued /\ ~rr[x].completed

\* The first event is taken off, and its station does not execute any more.
Firing(rr, r2, ev) ==
    /\ ev \in Seq(Event) /\ ev # <<>> /\ EventOnce(rr, ev)
    /\ \A x \in Stations :
          /\ r2[x].tag = rr[x].tag
          /\ Executes(r2, x) <=> Executes(rr, x) /\ ~Ref(rr, ev, 1, x)

\* The others are still those that execute.
LEMMA EventFired ==
    ASSUME NEW rr, NEW r2, NEW ev, Firing(rr, r2, ev)
    PROVE  EventOnce(r2, Tail(ev)) /\ Tail(ev) \in Seq(Event)
<1> DEFINE r == Tail(ev)
<1>1. /\ ev \in Seq(Event) /\ ev # <<>> /\ EventOnce(rr, ev)
      /\ \A x \in Stations :
            /\ r2[x].tag = rr[x].tag
            /\ Executes(r2, x) <=> Executes(rr, x) /\ ~Ref(rr, ev, 1, x)
  BY DEF Firing
<1>2. Len(ev) \in Nat \ {0} /\ DOMAIN ev = 1..Len(ev) /\ DOMAIN r = 1..Len(ev)-1
      /\ \A k \in DOMAIN r : k + 1 \in DOMAIN ev /\ r[k] = ev[k+1]
  BY <1>1
<1>3. 1 \in DOMAIN ev /\ \A k \in DOMAIN ev : k # 1 => k - 1 \in DOMAIN r /\ ev[k] = r[k-1]
  BY <1>2
<1>4. r \in Seq(Event)
  BY <1>1
<1> HIDE DEF r
<1>5. ASSUME NEW x \in Stations
      PROVE /\ \A j, k \in DOMAIN r : Ref(r2, r, j, x) /\ Ref(r2, r, k, x) => j = k
            /\ Executes(r2, x) <=> \E k \in DOMAIN r : Ref(r2, r, k, x)
  <2>1. /\ \A j, k \in DOMAIN ev : Ref(rr, ev, j, x) /\ Ref(rr, ev, k, x) => j = k
        /\ Executes(rr, x) <=> \E k \in DOMAIN ev : Ref(rr, ev, k, x)
    BY <1>1 DEF EventOnce, Executes
  <2>2. \A k \in DOMAIN r : Ref(r2, r, k, x) <=> Ref(rr, ev, k+1, x)
    BY <1>1, <1>2 DEF Ref
  <2>3. \A j, k \in DOMAIN r : (j + 1 = k + 1 => j = k) /\ k + 1 # 1
    BY <1>2
  <2>4. (\E k \in DOMAIN r : Ref(r2, r, k, x)) <=>
           \E k \in DOMAIN ev : k # 1 /\ Ref(rr, ev, k, x)
    <3>1. ASSUME NEW k \in DOMAIN ev, k # 1, Ref(rr, ev, k, x)
          PROVE  \E j \in DOMAIN r : Ref(r2, r, j, x)
      <4>1. k - 1 \in DOMAIN r /\ (k - 1) + 1 = k
        BY <1>2, <1>3, <3>1
      <4> QED
        BY <2>2, <3>1, <4>1
    <3> QED
      BY <1>2, <2>2, <2>3, <3>1
  <2>5. \A j, k \in DOMAIN r : Ref(r2, r, j, x) /\ Ref(r2, r, k, x) => j = k
    BY <1>2, <2>1, <2>2, <2>3
  <2>6. Executes(r2, x) <=> \E k \in DOMAIN r : Ref(r2, r, k, x)
    BY <1>1, <1>3, <2>1, <2>4
  <2> QED
    BY <2>5, <2>6
<1>6. EventOnce(r2, r)
  BY <1>5 DEF EventOnce, Executes
<1> QED
  BY <1>4, <1>6 DEF r

\* The event l of a station that did not execute is scheduled.
Scheduling(rr, r2, ev, r, l) ==
    /\ ev \in Seq(Event) /\ l \in Event /\ EventOnce(rr, ev) /\ Inserted(ev, l, r)
    /\ l.tag = rr[l.rs].tag /\ ~Executes(rr, l.rs)
    /\ \A x \in Stations : /\ r2[x].tag = rr[x].tag
                           /\ Executes(r2, x) <=> Executes(rr, x) \/ x = l.rs

\* It is the only one of its station.
LEMMA EventScheduled ==
    ASSUME NEW rr, NEW r2, NEW ev, NEW r, NEW l, Scheduling(rr, r2, ev, r, l)
    PROVE  EventOnce(r2, r) /\ r \in Seq(Event)
<1> DEFINE s == l.rs
<1>0. /\ ev \in Seq(Event) /\ l \in Event /\ s \in Stations
      /\ EventOnce(rr, ev) /\ Inserted(ev, l, r)
      /\ l.tag = rr[s].tag /\ ~Executes(rr, s)
      /\ \A x \in Stations : /\ r2[x].tag = rr[x].tag
                             /\ Executes(r2, x) <=> Executes(rr, x) \/ x = s
  BY DEF Scheduling, Event
<1> HIDE DEF s
<1>1. PICK m \in 1..Len(ev)+1 :
         r = [j \in 1..Len(ev)+1 |-> IF j < m THEN ev[j]
                                     ELSE IF j = m THEN l ELSE ev[j-1]]
  BY <1>0 DEF Inserted
<1> DEFINE Old(j) == IF j < m THEN j ELSE j - 1
           Now(j) == IF j < m THEN j ELSE j + 1
<1>2. Len(ev) \in Nat /\ DOMAIN ev = 1..Len(ev) /\ DOMAIN r = 1..Len(ev)+1
      /\ m \in DOMAIN r
  BY <1>0, <1>1
<1>3. \A j \in DOMAIN r : j # m => Old(j) \in DOMAIN ev /\ r[j] = ev[Old(j)]
  BY <1>1, <1>2
<1>4. \A j \in DOMAIN ev : Now(j) \in DOMAIN r /\ Now(j) # m /\ r[Now(j)] = ev[j]
  BY <1>1, <1>2
<1>5. \A i, j \in DOMAIN r : i # m /\ j # m /\ Old(i) = Old(j) => i = j
  BY <1>2
<1>6. r[m] = l
  BY <1>1
<1> HIDE DEF Old, Now
<1>7. ASSUME NEW x \in Stations
      PROVE /\ \A j, k \in DOMAIN r : Ref(r2, r, j, x) /\ Ref(r2, r, k, x) => j = k
            /\ Executes(r2, x) <=> \E k \in DOMAIN r : Ref(r2, r, k, x)
  <2>1. \A j \in DOMAIN r : j # m => (Ref(r2, r, j, x) <=> Ref(rr, ev, Old(j), x))
    BY <1>0, <1>3 DEF Ref
  <2>2. Ref(r2, r, m, x) <=> x = s
    BY <1>0, <1>6 DEF Ref, s
  <2>3. \A j \in DOMAIN ev : Ref(rr, ev, j, x) <=> Ref(r2, r, Now(j), x)
    BY <1>0, <1>4 DEF Ref
  <2>4. /\ \A j, k \in DOMAIN ev : Ref(rr, ev, j, x) /\ Ref(rr, ev, k, x) => j = k
        /\ Executes(rr, x) <=> \E k \in DOMAIN ev : Ref(rr, ev, k, x)
    BY <1>0 DEF EventOnce, Executes
  <2>5. x = s => \A k \in DOMAIN ev : ~Ref(rr, ev, k, x)
    BY <1>0, <2>4
  <2>6. \A j, k \in DOMAIN r : Ref(r2, r, j, x) /\ Ref(r2, r, k, x) => j = k
    BY <1>3, <1>5, <2>1, <2>2, <2>4, <2>5
  <2>7. (\E k \in DOMAIN r : Ref(r2, r, k, x)) <=>
           (x = s \/ \E k \in DOMAIN ev : Ref(rr, ev, k, x))
    BY <1>2, <1>3, <1>4, <2>1, <2>2, <2>3
  <2>8. Executes(r2, x) <=> \E k \in DOMAIN r : Ref(r2, r, k, x)
    BY <1>0, <2>4, <2>7
  <2> QED
    BY <2>6, <2>8
<1>8. EventOnce(r2, r)
  BY <1>7 DEF EventOnce, Executes
<1>9. r \in Seq(Event)
  BY <1>0, InsertedType
<1> QED
  BY <1>8, <1>9

\* A list without its first link has no other links.
LEMMA TailLinks ==
    ASSUME NEW rr, NEW A, NEW S, NEW q \in Seq(S), q # <<>>, LinksOK(rr, A, q)
    PROVE  LinksOK(rr, A, Tail(q))
<1>1. \A k \in DOMAIN Tail(q) : k + 1 \in DOMAIN q /\ Tail(q)[k] = q[k+1]
  OBVIOUS
<1> QED
  BY <1>1 DEF LinksOK

\* The links of a list with one more, after the stations changed.
LEMMA InsertLinks ==
    ASSUME NEW rr, NEW A, NEW S, NEW q \in Seq(S), NEW l \in S, NEW r,
           Inserted(q, l, r), LinksOK(rr, A, q), l.tag = rr[l.rs].tag, l.rs \in A
    PROVE  LinksOK(rr, A, r)
<1>1. LinkOK(rr, A, l)
  BY DEF LinkOK
<1> QED
  BY <1>1, InsertedLinks

-----------------------------------------------------------------------------
\* The links that a Core knows, of the right types.
LEMMA CoreFacts ==
    ASSUME NEW w, NEW A, NEW nd, NEW ev, Core(w, A, nd, ev)
    PROVE  /\ w \in Worlds /\ A \subseteq Stations /\ w.rs \in [Stations -> RSType]
           /\ w.ready_queue \in Seq(RLink) /\ nd \in Seq(RLink) /\ ev \in Seq(Event)
           /\ LinksOK(w.rs, A, w.ready_queue) /\ LinksOK(w.rs, A, nd)
           /\ LinksOK(w.rs, A, ev) /\ StatusOK(w.rs)
           /\ ReadyOnce(w.rs, w.ready_queue, nd) /\ EventOnce(w.rs, ev)
           /\ Structure(w, A) /\ Queues(w, A, nd, ev)
BY DEF Core, Structure, Queues, Worlds

\* A valid link is to a station in use.
LEMMA ValidLive ==
    ASSUME NEW rr, NEW A, NEW q, LinksOK(rr, A, q), NEW k \in DOMAIN q, NEW s,
           Ref(rr, q, k, s), rr[s].tag \in Nat
    PROVE  s \in A
BY DEF LinksOK, LinkOK, Ref

\* ruu_writeback() of an event that a squash has left behind.
LEMMA DropEvent ==
    ASSUME NEW w, NEW A, NEW nd, NEW ev, Core(w, A, nd, ev), ev # <<>>,
           ~RSLINK_VALID(w.rs, Head(ev))
    PROVE  Core(w, A, nd, Tail(ev))
<1>1. /\ w.rs \in [Stations -> RSType] /\ ev \in Seq(Event) /\ LinksOK(w.rs, A, ev)
      /\ EventOnce(w.rs, ev) /\ Structure(w, A) /\ Queues(w, A, nd, ev)
  BY CoreFacts
<1>2. Head(ev) = ev[1]
  BY <1>1
<1>3. \A x \in Stations : ~Ref(w.rs, ev, 1, x)
  BY <1>2 DEF Ref, RSLINK_VALID
<1>4. Firing(w.rs, w.rs, ev)
  BY <1>1, <1>3 DEF Firing
<1>5. EventOnce(w.rs, Tail(ev)) /\ Tail(ev) \in Seq(Event)
  BY <1>4, EventFired
<1>6. LinksOK(w.rs, A, Tail(ev))
  BY <1>1, TailLinks
<1>7. Queues(w, A, nd, Tail(ev))
  BY <1>1, <1>5, <1>6 DEF Queues
<1> QED
  BY <1>1, <1>7 DEF Core

\* Nothing but status bits of station s and the ready queue change.
Marked(w, v, s) ==
    /\ v \in Worlds
    /\ v.create_vector = w.create_vector /\ v.use_spec_cv = w.use_spec_cv
    /\ v.spec_create_vector = w.spec_create_vector
    /\ \A x \in Stations : x # s => v.rs[x] = w.rs[x]
    /\ Onward(w.rs[s], v.rs[s]) /\ v.rs[s].idep_ready = w.rs[s].idep_ready
    /\ v.rs[s].odep_list = w.rs[s].odep_list /\ v.rs[s].tag = w.rs[s].tag

\* The chains do not see that.
LEMMA MarkedChains ==
    ASSUME NEW w, NEW v, NEW A, NEW s \in Stations, Structure(w, A), Marked(w, v, s)
    PROVE  ChainsOK(v.rs, A, {})
<1>1. A \subseteq Stations /\ w.rs \in [Stations -> RSType] /\ ChainsOK(w.rs, A, {})
  BY DEF Structure, Worlds
<1>2. ASSUME NEW x \in Stations
      PROVE  /\ v.rs[x].tag = w.rs[x].tag /\ v.rs[x].seq = w.rs[x].seq
             /\ v.rs[x].odep_list = w.rs[x].odep_list
             /\ v.rs[x].onames = w.rs[x].onames
             /\ v.rs[x].idep_ready = w.rs[x].idep_ready
  <2>1. CASE x = s
    BY <2>1 DEF Marked, Onward
  <2>2. CASE x # s
    BY <2>2 DEF Marked
  <2> QED
    BY <2>1, <2>2
<1>3. ChainsLike(w.rs, v.rs, A, {}, {})
  BY <1>1, <1>2 DEF ChainsLike
<1> QED
  BY <1>1, <1>3, ChainsFrame

\* v is w with station s complete.
Finishing(w, v, s) ==
    /\ Marked(w, v, s) /\ v.ready_queue = w.ready_queue
    /\ v.rs[s].queued = w.rs[s].queued /\ v.rs[s].issued = w.rs[s].issued
    /\ v.rs[s].completed = TRUE

\* The outputs of a station that completes have still to be broadcast.
LEMMA Finish ==
    ASSUME NEW w, NEW v, NEW A, NEW nd, NEW ev, NEW s, Core(w, A, nd, ev), ev # <<>>,
           s \in Stations, Ref(w.rs, ev, 1, s), Finishing(w, v, s)
    PROVE  Completing(v, A, nd, Tail(ev), s, {s} \X (1..2))
<1> DEFINE due == {s} \X (1..2)
<1>1. /\ w \in Worlds /\ A \subseteq Stations /\ w.rs \in [Stations -> RSType]
      /\ nd \in Seq(RLink) /\ ev \in Seq(Event) /\ w.ready_queue \in Seq(RLink)
      /\ LinksOK(w.rs, A, w.ready_queue) /\ LinksOK(w.rs, A, nd)
      /\ LinksOK(w.rs, A, ev) /\ StatusOK(w.rs)
      /\ ReadyOnce(w.rs, w.ready_queue, nd) /\ EventOnce(w.rs, ev)
      /\ Structure(w, A)
  BY CoreFacts
<1>2. 1 \in DOMAIN ev
  BY <1>1
<1>3. s \in A /\ Executes(w.rs, s)
  <2>1. w.rs[s].tag \in Nat
    <3>1. w.rs[s] \in RSType
      BY <1>1
    <3> QED
      BY <3>1 DEF RSType
  <2>2. s \in A
    BY <1>1, <1>2, <2>1, ValidLive
  <2> QED
    BY <1>1, <1>2, <2>2 DEF EventOnce, Executes
<1>4. Marked(w, v, s) /\ v.ready_queue = w.ready_queue /\ v \in Worlds
      /\ v.rs[s].queued = w.rs[s].queued /\ v.rs[s].issued = w.rs[s].issued
      /\ v.rs[s].completed = TRUE
  BY DEF Finishing, Marked
<1>5. \A x \in Stations :
         /\ v.rs[x].tag = w.rs[x].tag /\ v.rs[x].queued = w.rs[x].queued
         /\ v.rs[x].issued = w.rs[x].issued /\ v.rs[x].onames = w.rs[x].onames
         /\ v.rs[x].seq = w.rs[x].seq /\ v.rs[x].spec_mode = w.rs[x].spec_mode
         /\ v.rs[x].odep_list = w.rs[x].odep_list
         /\ v.rs[x].idep_ready = w.rs[x].idep_ready
         /\ x # s => v.rs[x].completed = w.rs[x].completed
  <2> SUFFICES ASSUME NEW x \in Stations
               PROVE  /\ v.rs[x].tag = w.rs[x].tag /\ v.rs[x].queued = w.rs[x].queued
                      /\ v.rs[x].issued = w.rs[x].issued /\ v.rs[x].onames = w.rs[x].onames
                      /\ v.rs[x].seq = w.rs[x].seq /\ v.rs[x].spec_mode = w.rs[x].spec_mode
                      /\ v.rs[x].odep_list = w.rs[x].odep_list
                      /\ v.rs[x].idep_ready = w.rs[x].idep_ready
                      /\ x # s => v.rs[x].completed = w.rs[x].completed
    OBVIOUS
  <2>1. CASE x = s
    BY <1>4, <2>1 DEF Marked, Onward
  <2>2. CASE x # s
    BY <1>4, <2>2 DEF Marked
  <2> QED
    BY <2>1, <2>2
<1>6. ChainsOK(v.rs, A, {})
  BY <1>1, <1>4, MarkedChains
<1>7. RenamesOK(v, A, due)
  <2>1. \A reg, sp : Writes(v.rs, A, reg, sp) = Writes(w.rs, A, reg, sp)
    BY <1>1, <1>5 DEF Writes
  <2>2. \A reg, sp : Writes(w.rs, A, reg, sp) \subseteq A
    BY DEF Writes
  <2>3. ASSUME NEW reg, NEW c, NEW sp, Names(w.rs, A, reg, c, sp, {})
        PROVE  Names(v.rs, A, reg, c, sp, due)
    <3> DEFINE W == Writes(w.rs, A, reg, sp)
    <3>1. \A t \in W : t \in Stations
      BY <1>1, <2>2
    <3>2. c # CVLINK_NULL =>
             /\ c.rs \in W /\ c.odep_num \in 1..2
             /\ v.rs[c.rs].completed => <<c.rs, c.odep_num>> \in due
             /\ v.rs[c.rs].onames[c.odep_num] = reg
             /\ \A t \in W : v.rs[t].seq <= v.rs[c.rs].seq
      <4> SUFFICES ASSUME c # CVLINK_NULL
                   PROVE  /\ c.rs \in W /\ c.odep_num \in 1..2
                          /\ v.rs[c.rs].completed => <<c.rs, c.odep_num>> \in due
                          /\ v.rs[c.rs].onames[c.odep_num] = reg
                          /\ \A t \in W : v.rs[t].seq <= v.rs[c.rs].seq
        OBVIOUS
      <4>1. /\ c.rs \in W /\ c.odep_num \in 1..2 /\ ~w.rs[c.rs].completed
            /\ w.rs[c.rs].onames[c.odep_num] = reg
            /\ \A t \in W : w.rs[t].seq <= w.rs[c.rs].seq
        BY <2>3 DEF Names
      <4>2. v.rs[c.rs].completed => c.rs = s
        BY <1>5, <3>1, <4>1
      <4> QED
        BY <1>5, <3>1, <4>1, <4>2
    <3>3. c = CVLINK_NULL =>
             \A t \in W : ~v.rs[t].completed =>
                \E u \in W : v.rs[u].completed /\ v.rs[t].seq < v.rs[u].seq
      <4> SUFFICES ASSUME c = CVLINK_NULL, NEW t \in W, ~v.rs[t].completed
                   PROVE  \E u \in W : v.rs[u].completed /\ v.rs[t].seq < v.rs[u].seq
        OBVIOUS
      <4>1. ~w.rs[t].completed
        BY <1>4, <1>5, <3>1
      <4>2. PICK u \in W : w.rs[u].completed /\ w.rs[t].seq < w.rs[u].seq
        BY <2>3, <4>1 DEF Names
      <4>3. v.rs[u].completed
        BY <1>4, <1>5, <3>1, <4>2
      <4> QED
        BY <1>5, <3>1, <4>2, <4>3
    <3>4. Writes(v.rs, A, reg, sp) = W
      BY <2>1
    <3> HIDE DEF W, due
    <3> QED
      BY <3>2, <3>3, <3>4 DEF Names
  <2>4. RenamesOK(w, A, {}) /\ v.create_vector = w.create_vector
        /\ v.use_spec_cv = w.use_spec_cv /\ v.spec_create_vector = w.spec_create_vector
    BY <1>1, <1>4 DEF Structure, Marked
  <2> HIDE DEF due
  <2> QED
    BY <2>1, <2>3, <2>4 DEF RenamesOK
<1>8. Queues(v, A, nd, Tail(ev))
  <2>1. Firing(w.rs, v.rs, ev)
    <3>1. \A x \in Stations : Ref(w.rs, ev, 1, x) <=> x = s
      BY DEF Ref
    <3> QED
      BY <1>1, <1>3, <1>4, <1>5, <3>1 DEF Firing, Executes
  <2>2. EventOnce(v.rs, Tail(ev)) /\ Tail(ev) \in Seq(Event)
    BY <2>1, EventFired
  <2>3. LinksOK(w.rs, A, Tail(ev))
    BY <1>1, TailLinks
  <2>4. /\ \A l \in RLink : l.rs \in Stations
        /\ \A l \in Event : l.rs \in Stations
        /\ \A x \in Stations : v.rs[x].tag = w.rs[x].tag
    BY <1>5 DEF RLink, Event
  <2>5. LinksOK(v.rs, A, w.ready_queue)
    BY <1>1, <2>4, LinksGrow
  <2>6. LinksOK(v.rs, A, nd)
    BY <1>1, <2>4, LinksGrow
  <2>7. LinksOK(v.rs, A, Tail(ev))
    BY <2>2, <2>3, <2>4, LinksGrow
  <2>8. ReadyOnce(v.rs, w.ready_queue, nd)
    BY <1>1, <1>5 DEF ReadyOnce, Ref
  <2>9. StatusOK(v.rs)
    <3>1. \A x \in Stations : OPERANDS_READY(v.rs[x]) <=> OPERANDS_READY(w.rs[x])
      BY <1>5 DEF OPERANDS_READY
    <3> QED
      BY <1>1, <1>3, <1>4, <1>5, <3>1 DEF StatusOK, Executes
  <2> QED
    BY <1>1, <1>4, <2>2, <2>5, <2>6, <2>7, <2>8, <2>9 DEF Queues
<1>9. \A p \in Stations, o \in 1..2 :
         v.rs[p].completed /\ <<p, o>> \notin due => v.rs[p].odep_list[o] = <<>>
  <2> SUFFICES ASSUME NEW p \in Stations, NEW o \in 1..2,
                      v.rs[p].completed, <<p, o>> \notin due
               PROVE  v.rs[p].odep_list[o] = <<>>
    OBVIOUS
  <2>1. p # s
    OBVIOUS
  <2>2. w.rs[p].completed /\ v.rs[p].odep_list = w.rs[p].odep_list
    BY <1>5, <2>1
  <2>3. ChainsDone(w.rs)
    BY <1>1 DEF Structure
  <2> QED
    BY <2>2, <2>3 DEF ChainsDone
<1>10. \A x \in Stations \ A : Freed(v.rs[x])
  BY <1>1, <1>3, <1>4 DEF Structure, Marked
<1>11. \A x, y \in A : v.rs[x].seq = v.rs[y].seq => x = y
  BY <1>1, <1>5 DEF Structure
<1> HIDE DEF due
<1>12. Completing(v, A, nd, Tail(ev), s, due)
  BY <1>1, <1>3, <1>4, <1>6, <1>7, <1>8, <1>9, <1>10, <1>11 DEF Completing
<1> QED
  BY <1>12 DEF due

-----------------------------------------------------------------------------
\* The station s of the first link of nd leaves the ready list.
Leaving(w, v, nd, s) ==
    /\ Marked(w, v, s) /\ v.ready_queue = w.ready_queue
    /\ nd # <<>> /\ s \in Stations /\ Ref(w.rs, nd, 1, s)
    /\ v.rs[s].queued = FALSE /\ v.rs[s].issued = TRUE

\* The lists of ready links agree with that.
LEMMA Leave ==
    ASSUME NEW w, NEW v, NEW A, NEW nd, NEW ev, NEW s, Core(w, A, nd, ev),
           Leaving(w, v, nd, s)
    PROVE  /\ s \in A /\ w.rs[s].queued /\ ~w.rs[s].issued /\ ~w.rs[s].completed
           /\ OPERANDS_READY(w.rs[s])
           /\ Tail(nd) \in Seq(RLink) /\ ReadyOnce(v.rs, v.ready_queue, Tail(nd))
           /\ LinksOK(v.rs, A, v.ready_queue) /\ LinksOK(v.rs, A, Tail(nd))
           /\ LinksOK(v.rs, A, ev) /\ StatusOK(v.rs)
           /\ \A x \in Stations : v.rs[x].tag = w.rs[x].tag
<1>1. /\ w.rs \in [Stations -> RSType] /\ A \subseteq Stations
      /\ nd \in Seq(RLink) /\ ev \in Seq(Event) /\ w.ready_queue \in Seq(RLink)
      /\ LinksOK(w.rs, A, w.ready_queue) /\ LinksOK(w.rs, A, nd)
      /\ LinksOK(w.rs, A, ev) /\ StatusOK(w.rs)
      /\ ReadyOnce(w.rs, w.ready_queue, nd)
  BY CoreFacts
<1>2. /\ Marked(w, v, s) /\ v.ready_queue = w.ready_queue
      /\ nd # <<>> /\ s \in Stations /\ Ref(w.rs, nd, 1, s)
      /\ v.rs[s].queued = FALSE /\ v.rs[s].issued = TRUE
  BY DEF Leaving
<1>3. 1 \in DOMAIN nd
  BY <1>1, <1>2
<1>4. s \in A
  <2>1. w.rs[s] \in RSType
    BY <1>1, <1>2
  <2>2. w.rs[s].tag \in Nat
    BY <2>1 DEF RSType
  <2> QED
    BY <1>1, <1>2, <1>3, <2>2, ValidLive
<1>5. /\ w.rs[s].queued /\ ~w.rs[s].issued /\ ~w.rs[s].completed
      /\ OPERANDS_READY(w.rs[s])
  BY <1>1, <1>2, <1>3 DEF ReadyOnce, StatusOK
<1>6. ASSUME NEW x \in Stations
      PROVE  /\ v.rs[x].tag = w.rs[x].tag /\ v.rs[x].idep_ready = w.rs[x].idep_ready
             /\ v.rs[x].queued <=> w.rs[x].queued /\ x # s
             /\ x # s => v.rs[x] = w.rs[x]
  <2>1. CASE x = s
    BY <1>2, <2>1 DEF Marked
  <2>2. CASE x # s
    BY <1>2, <2>2 DEF Marked
  <2> QED
    BY <2>1, <2>2
<1>7. ReadyOnce(v.rs, w.ready_queue, Tail(nd))
  <2>1. \A x \in Stations : Ref(w.rs, nd, 1, x) <=> x = s
    BY <1>2 DEF Ref
  <2>2. Dequeueing(w.rs, v.rs, w.ready_queue, nd)
    BY <1>1, <1>2, <1>6, <2>1 DEF Dequeueing
  <2> QED
    BY <2>2, ReadyDequeued
<1>8. /\ \A l \in RLink : l.rs \in Stations
      /\ \A l \in Event : l.rs \in Stations
      /\ \A x \in Stations : v.rs[x].tag = w.rs[x].tag
  BY <1>6 DEF RLink, Event
<1>9. LinksOK(w.rs, A, Tail(nd)) /\ Tail(nd) \in Seq(RLink)
  BY <1>1, <1>2, TailLinks
<1>10. LinksOK(v.rs, A, w.ready_queue)
  BY <1>1, <1>8, LinksGrow
<1>11. LinksOK(v.rs, A, Tail(nd))
  BY <1>8, <1>9, LinksGrow
<1>12. LinksOK(v.rs, A, ev)
  BY <1>1, <1>8, LinksGrow
<1>13. StatusOK(v.rs)
  <2> SUFFICES ASSUME NEW x \in Stations
               PROVE  /\ v.rs[x].queued => OPERANDS_READY(v.rs[x]) /\ ~v.rs[x].issued
                      /\ v.rs[x].issued => OPERANDS_READY(v.rs[x])
                      /\ v.rs[x].completed => v.rs[x].issued
    BY DEF StatusOK
  <2>1. CASE x = s
    BY <1>2, <1>5, <1>6, <2>1 DEF OPERANDS_READY
  <2>2. CASE x # s
    BY <1>1, <1>6, <2>2 DEF StatusOK
  <2> QED
    BY <2>1, <2>2
<1> QED
  BY <1>2, <1>4, <1>5, <1>7, <1>8, <1>9, <1>10, <1>11, <1>12, <1>13

\* ruu_issue() of an operation that executes: its event l is scheduled.
LEMMA IssueCore ==
    ASSUME NEW w, NEW v, NEW A, NEW nd, NEW ev, NEW s, NEW l, NEW e2, Core(w, A, nd, ev),
           Leaving(w, v, nd, s), v.rs[s].completed = w.rs[s].completed,
           l \in Event, l.rs = s, l.tag = w.rs[s].tag, Inserted(ev, l, e2)
    PROVE  Core(v, A, Tail(nd), e2)
<1>1. /\ w \in Worlds /\ w.rs \in [Stations -> RSType] /\ A \subseteq Stations
      /\ ev \in Seq(Event) /\ EventOnce(w.rs, ev) /\ Structure(w, A)
  BY CoreFacts
<1>2. /\ s \in A /\ w.rs[s].queued /\ ~w.rs[s].issued /\ ~w.rs[s].completed
      /\ Tail(nd) \in Seq(RLink) /\ ReadyOnce(v.rs, v.ready_queue, Tail(nd))
      /\ LinksOK(v.rs, A, v.ready_queue) /\ LinksOK(v.rs, A, Tail(nd))
      /\ LinksOK(v.rs, A, ev) /\ StatusOK(v.rs)
      /\ \A x \in Stations : v.rs[x].tag = w.rs[x].tag
  BY Leave
<1>3. Marked(w, v, s) /\ v.rs[s].issued = TRUE /\ s \in Stations
  BY DEF Leaving
<1>4. Scheduling(w.rs, v.rs, ev, e2, l)
  <2>1. \A x \in Stations : Executes(v.rs, x) <=> Executes(w.rs, x) \/ x = s
    BY <1>2, <1>3 DEF Marked, Executes
  <2> QED
    BY <1>1, <1>2, <2>1 DEF Scheduling, Executes
<1>5. EventOnce(v.rs, e2) /\ e2 \in Seq(Event)
  BY <1>4, EventScheduled
<1>6. LinksOK(v.rs, A, e2)
  <2>1. LinkOK(v.rs, A, l)
    BY <1>2, <1>3 DEF LinkOK
  <2> QED
    BY <1>1, <1>2, <2>1, InsertedLinks
<1>7. StructureLike(w, v, A)
  <2>1. ASSUME NEW x \in Stations
        PROVE  /\ v.rs[x].tag = w.rs[x].tag /\ v.rs[x].seq = w.rs[x].seq
               /\ v.rs[x].onames = w.rs[x].onames
               /\ v.rs[x].odep_list = w.rs[x].odep_list
               /\ v.rs[x].idep_ready = w.rs[x].idep_ready
               /\ v.rs[x].spec_mode = w.rs[x].spec_mode
               /\ v.rs[x].completed = w.rs[x].completed
    <3>1. CASE x = s
      BY <1>3, <3>1 DEF Marked, Onward
    <3>2. CASE x # s
      BY <1>3, <3>2 DEF Marked
    <3> QED
      BY <3>1, <3>2
  <2>2. \A x \in Stations \ A : v.rs[x] = w.rs[x]
    BY <1>2, <1>3 DEF Marked
  <2> QED
    BY <1>3, <2>1, <2>2 DEF StructureLike, Marked
<1>8. Structure(v, A)
  BY <1>1, <1>7, StructureFrame
<1> QED
  BY <1>2, <1>5, <1>6, <1>8 DEF Core, Queues

\* ruu_issue() of a store: it is complete at once, and nobody waits for it.
LEMMA StoreCore ==
    ASSUME NEW w, NEW v, NEW A, NEW nd, NEW ev, NEW s, Core(w, A, nd, ev),
           Leaving(w, v, nd, s), v.rs[s].completed = TRUE,
           w.rs[s].onames[1] = NA, w.rs[s].onames[2] = NA
    PROVE  Core(v, A, Tail(nd), ev)
<1>1. /\ w \in Worlds /\ w.rs \in [Stations -> RSType] /\ A \subseteq Stations
      /\ ev \in Seq(Event) /\ EventOnce(w.rs, ev) /\ Structure(w, A)
  BY CoreFacts
<1>2. /\ s \in A /\ w.rs[s].queued /\ ~w.rs[s].issued /\ ~w.rs[s].completed
      /\ Tail(nd) \in Seq(RLink) /\ ReadyOnce(v.rs, v.ready_queue, Tail(nd))
      /\ LinksOK(v.rs, A, v.ready_queue) /\ LinksOK(v.rs, A, Tail(nd))
      /\ LinksOK(v.rs, A, ev) /\ StatusOK(v.rs)
      /\ \A x \in Stations : v.rs[x].tag = w.rs[x].tag
  BY Leave
<1>3. Marked(w, v, s) /\ s \in Stations /\ v \in Worlds
  BY DEF Leaving, Marked
<1>4. ASSUME NEW x \in Stations
      PROVE  /\ v.rs[x].seq = w.rs[x].seq
             /\ v.rs[x].onames = w.rs[x].onames
             /\ v.rs[x].odep_list = w.rs[x].odep_list
             /\ v.rs[x].spec_mode = w.rs[x].spec_mode
             /\ x # s => v.rs[x] = w.rs[x]
  <2>1. CASE x = s
    BY <1>3, <2>1 DEF Marked, Onward
  <2>2. CASE x # s
    BY <1>3, <2>2 DEF Marked
  <2> QED
    BY <2>1, <2>2
<1>5. EventOnce(v.rs, ev)
  <2>1. \A x \in Stations : (v.rs[x].issued /\ ~v.rs[x].completed)
                               <=> (w.rs[x].issued /\ ~w.rs[x].completed)
    BY <1>2, <1>4
  <2>2. \A x \in Stations, k \in DOMAIN ev : Ref(v.rs, ev, k, x) <=> Ref(w.rs, ev, k, x)
    BY <1>2 DEF Ref
  <2> QED
    BY <1>1, <2>1, <2>2 DEF EventOnce
<1>6. ChainsOK(v.rs, A, {})
  BY <1>1, <1>3, MarkedChains
<1>7. ChainsDone(v.rs)
  <2> SUFFICES ASSUME NEW p \in Stations, NEW o \in 1..2, v.rs[p].completed
               PROVE  v.rs[p].odep_list[o] = <<>>
    BY DEF ChainsDone
  <2>1. CASE p = s
    <3>1. w.rs[s].onames[o] = NA
      OBVIOUS
    <3>2. w.rs[s].odep_list[o] = <<>>
      BY <1>1, <1>3, <3>1 DEF Structure, ChainsOK, ChainsClean
    <3> QED
      BY <1>4, <2>1, <3>2
  <2>2. CASE p # s
    BY <1>1, <1>4, <2>2 DEF Structure, ChainsDone
  <2> QED
    BY <2>1, <2>2
<1>8. RenamesOK(v, A, {})
  <2>1. \A reg \in Regs, sp \in BOOLEAN : Writes(v.rs, A, reg, sp) = Writes(w.rs, A, reg, sp)
    BY <1>1, <1>4 DEF Writes
  <2>2. \A reg \in Regs : reg # NA
    BY DEF Regs
  <2>3. ASSUME NEW reg \in Regs, NEW sp \in BOOLEAN, NEW x \in Writes(w.rs, A, reg, sp)
        PROVE  v.rs[x] = w.rs[x]
    <3>1. x \in Stations /\ x # s
      <4>1. \A k \in 1..2 : w.rs[s].onames[k] = NA
        OBVIOUS
      <4> QED
        BY <1>1, <2>2, <4>1 DEF Writes
    <3> QED
      BY <1>4, <3>1
  <2>4. ASSUME NEW reg \in Regs, NEW sp \in BOOLEAN, NEW c, Names(w.rs, A, reg, c, sp, {})
        PROVE  Names(v.rs, A, reg, c, sp, {})
    <3> DEFINE W == Writes(w.rs, A, reg, sp)
    <3>1. Writes(v.rs, A, reg, sp) = W /\ \A x \in W : v.rs[x] = w.rs[x]
      BY <2>1, <2>3
    <3>2. Writes(w.rs, A, reg, sp) = W
      OBVIOUS
    <3> HIDE DEF W
    <3> QED
      BY <2>4, <3>1, <3>2 DEF Names
  <2>5. /\ RenamesOK(w, A, {}) /\ v.create_vector = w.create_vector
        /\ v.use_spec_cv = w.use_spec_cv /\ v.spec_create_vector = w.spec_create_vector
        /\ w.use_spec_cv \subseteq Regs
    BY <1>1, <1>3 DEF Structure, Marked, Worlds
  <2>6. TRUE \in BOOLEAN /\ FALSE \in BOOLEAN
    OBVIOUS
  <2> QED
    BY <2>1, <2>4, <2>5, <2>6 DEF RenamesOK
<1>9. Structure(v, A)
  BY <1>1, <1>2, <1>3, <1>4, <1>6, <1>7, <1>8 DEF Structure
<1> QED
  BY <1>1, <1>2, <1>5, <1>9 DEF Core, Queues

-----------------------------------------------------------------------------
\* Two worlds that differ in the panics at most.
Agree(w, v) ==
    /\ v \in Worlds /\ v.rs = w.rs /\ v.ready_queue = w.ready_queue
    /\ v.create_vector = w.create_vector /\ v.use_spec_cv = w.use_spec_cv
    /\ v.spec_create_vector = w.spec_create_vector

\* A panic does not change anything else.
LEMMA AgreeCore ==
    ASSUME NEW w, NEW v, NEW A, NEW nd, NEW ev, Core(w, A, nd, ev), Agree(w, v)
    PROVE  Core(v, A, nd, ev)
<1>1. RenamesOK(v, A, {})
  BY DEF Core, Structure, Agree, RenamesOK
<1>2. Structure(v, A)
  BY <1>1 DEF Core, Structure, Agree
<1>3. Queues(v, A, nd, ev)
  BY DEF Core, Queues, Agree
<1> QED
  BY <1>2, <1>3 DEF Core

\* v is w with other lists of ready links, n2 the ones ruu_issue() visits.
Relisting(w, v, A, n2) ==
    /\ v \in Worlds /\ v.rs = w.rs
    /\ v.create_vector = w.create_vector /\ v.use_spec_cv = w.use_spec_cv
    /\ v.spec_create_vector = w.spec_create_vector
    /\ n2 \in Seq(RLink) /\ ReadyOnce(w.rs, v.ready_queue, n2)
    /\ LinksOK(w.rs, A, v.ready_queue) /\ LinksOK(w.rs, A, n2)

\* The rest of the state does not see that.
LEMMA RelistCore ==
    ASSUME NEW w, NEW v, NEW A, NEW nd, NEW n2, NEW ev, Core(w, A, nd, ev),
           Relisting(w, v, A, n2)
    PROVE  Core(v, A, n2, ev)
<1>1. RenamesOK(v, A, {})
  BY DEF Core, Structure, Relisting, RenamesOK
<1>2. Structure(v, A)
  BY <1>1 DEF Core, Structure, Relisting
<1>3. Queues(v, A, n2, ev)
  BY DEF Core, Queues, Relisting
<1> QED
  BY <1>2, <1>3 DEF Core

\* ruu_issue() of a link that is stale, or of an operation without a unit.
LEMMA RequeueFirst ==
    ASSUME NEW w, NEW v, NEW A, NEW nd, NEW ev, Core(w, A, nd, ev), nd # <<>>,
           v \in Worlds, v.rs = Requeue(w, nd[1]).rs,
           v.ready_queue = Requeue(w, nd[1]).ready_queue,
           v.create_vector = w.create_vector, v.use_spec_cv = w.use_spec_cv,
           v.spec_create_vector = w.spec_create_vector
    PROVE  Core(v, A, Tail(nd), ev) /\ v.rs = w.rs
<1> DEFINE u == Requeue(w, nd[1])
<1>1. /\ w \in Worlds /\ nd \in Seq(RLink) /\ LinksOK(w.rs, A, w.ready_queue)
      /\ LinksOK(w.rs, A, nd) /\ ReadyOnce(w.rs, w.ready_queue, nd)
  BY CoreFacts
<1>2. /\ 0 \in Nat /\ 0 < Len(nd) /\ 0 + 1 = 1
  BY <1>1
<1>3. Rest(nd, 0) = nd
  <2>1. Len(nd) \in Nat /\ nd = [k \in 1..Len(nd) |-> nd[k]] /\ Len(nd) - 0 = Len(nd)
        /\ \A k \in 1..Len(nd) : k + 0 = k
    BY <1>1
  <2> QED
    BY <2>1 DEF Rest
<1>4. RequeueGood(w, w, A, nd, 0)
  BY <1>1, <1>3 DEF RequeueGood
<1>5. RequeueGood(w, Requeue(w, nd[0+1]), A, nd, 0+1)
  BY <1>1, <1>2, <1>4, RequeueGoodStep
<1>6. RequeueGood(w, u, A, nd, 1)
  BY <1>2, <1>5
<1>7. Rest(nd, 1) = Tail(nd)
  <2>1. 0 + 1 = 1 /\ Tail(Rest(nd, 0)) = Rest(nd, 0+1)
    BY <1>1, <1>2, RestTail
  <2> QED
    BY <1>3, <2>1
<1> HIDE DEF u
<1>8. /\ u \in Worlds /\ u.rs = w.rs /\ ReadyOnce(w.rs, u.ready_queue, Tail(nd))
      /\ LinksOK(w.rs, A, u.ready_queue)
  BY <1>6, <1>7 DEF RequeueGood
<1>9. LinksOK(w.rs, A, Tail(nd)) /\ Tail(nd) \in Seq(RLink)
  BY <1>1, TailLinks
<1>10. v.rs = u.rs /\ v.ready_queue = u.ready_queue
  BY DEF u
<1>11. Relisting(w, v, A, Tail(nd))
  BY <1>8, <1>9, <1>10 DEF Relisting
<1> QED
  BY <1>8, <1>10, <1>11, RelistCore

\* The rest of ruu_issue(): the links beyond the bandwidth go back.
LEMMA RequeueRest ==
    ASSUME NEW w, NEW v, NEW A, NEW nd, NEW ev, Core(w, A, nd, ev),
           v = RequeueAll(w, nd)
    PROVE  /\ v \in Worlds /\ v.rs = w.rs /\ v.panics = w.panics
           /\ ReadyOnce(w.rs, v.ready_queue, <<>>) /\ LinksOK(w.rs, A, v.ready_queue)
<1>1. /\ w \in Worlds /\ nd \in Seq(RLink) /\ LinksOK(w.rs, A, w.ready_queue)
      /\ LinksOK(w.rs, A, nd) /\ ReadyOnce(w.rs, w.ready_queue, nd)
  BY CoreFacts
<1> QED
  BY <1>1, RequeueAllEffect

\* The events come one cycle nearer.
Ticking(ev, e2) ==
    /\ e2 \in Seq(Event) /\ DOMAIN e2 = DOMAIN ev
    /\ \A k \in DOMAIN ev : e2[k].rs = ev[k].rs /\ e2[k].tag = ev[k].tag

\* They are the same events.
LEMMA TickCore ==
    ASSUME NEW w, NEW A, NEW nd, NEW ev, NEW e2, Core(w, A, nd, ev), Ticking(ev, e2)
    PROVE  Core(w, A, nd, e2)
<1>1. \A k \in DOMAIN ev, x \in Stations : Ref(w.rs, e2, k, x) <=> Ref(w.rs, ev, k, x)
  BY DEF Ticking, Ref
<1>2. EventOnce(w.rs, e2)
  <2>1. EventOnce(w.rs, ev) /\ DOMAIN e2 = DOMAIN ev
    BY DEF Core, Queues, Ticking
  <2> QED
    BY <1>1, <2>1 DEF EventOnce
<1>3. LinksOK(w.rs, A, e2)
  <2>1. LinksOK(w.rs, A, ev)
    BY DEF Core, Queues
  <2> QED
    BY <2>1 DEF LinksOK, LinkOK, Ticking
<1> QED
  BY <1>2, <1>3 DEF Core, Queues, Ticking

\* What lsq_refresh() makes of the world w with the LSQ entries q: the ready
\* links are the ones ruu_issue() visits next.
Refreshing(w, v, A, q, n2) ==
    /\ v \in Worlds /\ v.ready_queue = <<>>
    /\ v.create_vector = w.create_vector /\ v.use_spec_cv = w.use_spec_cv
    /\ v.spec_create_vector = w.spec_create_vector
    /\ v.rs = RefreshAll(w, q).w.rs /\ n2 = RefreshAll(w, q).w.ready_queue
    /\ q \in Seq(Stations) /\ \A m \in DOMAIN q : q[m] \in A

\* Only loads that are clear are queued.
LEMMA RefreshCore ==
    ASSUME NEW w, NEW v, NEW A, NEW q, NEW n2, NEW ev, Core(w, A, <<>>, ev),
           Refreshing(w, v, A, q, n2)
    PROVE  /\ Core(v, A, n2, ev) /\ Refreshed(w.rs, v.rs, q, Len(q))
           /\ Len(q) <= MAX_STD_UNKNOWNS => RefreshAll(w, q).w.panics = w.panics
<1> DEFINE a == RefreshAll(w, q)
<1>1. /\ w \in Worlds /\ A \subseteq Stations /\ w.rs \in [Stations -> RSType]
      /\ <<>> \in Seq(RLink) /\ ev \in Seq(Event)
      /\ LinksOK(w.rs, A, w.ready_queue) /\ LinksOK(w.rs, A, ev) /\ StatusOK(w.rs)
      /\ ReadyOnce(w.rs, w.ready_queue, <<>>) /\ EventOnce(w.rs, ev)
      /\ Structure(w, A)
  BY CoreFacts
<1>2. q \in Seq(Stations) /\ \A m \in DOMAIN q : q[m] \in A
  BY DEF Refreshing
<1>3. RefreshGood(w, a, A, <<>>, q, Len(q))
  BY <1>1, <1>2, RefreshAllEffect
<1> HIDE DEF a
<1>4. /\ v.rs = a.w.rs /\ n2 = a.w.ready_queue /\ v \in Worlds /\ v.ready_queue = <<>>
      /\ v.create_vector = w.create_vector /\ v.use_spec_cv = w.use_spec_cv
      /\ v.spec_create_vector = w.spec_create_vector
  BY DEF Refreshing, a
<1>5. /\ a.w \in Worlds /\ Refreshed(w.rs, v.rs, q, Len(q))
      /\ ReadyOnce(v.rs, n2, <<>>) /\ LinksOK(w.rs, A, n2)
      /\ Len(q) <= MAX_STD_UNKNOWNS => a.w.panics = w.panics
  BY <1>3, <1>4 DEF RefreshGood
<1>6. n2 \in Seq(RLink)
  BY <1>4, <1>5 DEF Worlds
<1>7. ASSUME NEW x \in Stations
      PROVE  /\ v.rs[x].tag = w.rs[x].tag /\ v.rs[x].seq = w.rs[x].seq
             /\ v.rs[x].onames = w.rs[x].onames
             /\ v.rs[x].odep_list = w.rs[x].odep_list
             /\ v.rs[x].idep_ready = w.rs[x].idep_ready
             /\ v.rs[x].spec_mode = w.rs[x].spec_mode
             /\ v.rs[x].issued = w.rs[x].issued
             /\ v.rs[x].completed = w.rs[x].completed
             /\ v.rs[x].queued /\ ~w.rs[x].queued =>
                  x \in A /\ OPERANDS_READY(w.rs[x]) /\ ~w.rs[x].issued
  <2>1. DOMAIN q = 1..Len(q)
    BY <1>2
  <2> QED
    BY <1>2, <1>5, <2>1 DEF Refreshed, Alike
<1>8. \A x \in Stations \ A : v.rs[x] = w.rs[x]
  <2> SUFFICES ASSUME NEW x \in Stations \ A PROVE v.rs[x] = w.rs[x]
    OBVIOUS
  <2>1. v.rs[x] \in RSType /\ w.rs[x] \in RSType
    BY <1>1, <1>4 DEF Worlds
  <2>2. v.rs[x].queued = w.rs[x].queued
    <3>1. v.rs[x].queued <=> w.rs[x].queued
      BY <1>5, <1>7 DEF Refreshed
    <3> QED
      BY <2>1, <3>1 DEF RSType
  <2>3. Alike(v.rs[x], w.rs[x])
    BY <1>5 DEF Refreshed
  <2>4. Kept(v.rs[x], w.rs[x]) /\ v.rs[x].odep_list = w.rs[x].odep_list
    BY <2>2, <2>3 DEF Kept, Alike
  <2> QED
    BY <1>7, <2>1, <2>4, SameStation
<1>9. Structure(v, A)
  <2>1. StructureLike(w, v, A)
    BY <1>4, <1>7, <1>8 DEF StructureLike
  <2> QED
    BY <1>1, <2>1, StructureFrame
<1>10. ReadyOnce(v.rs, <<>>, n2)
  <2>1. DOMAIN <<>> = {}
    OBVIOUS
  <2> QED
    BY <1>5, <2>1 DEF ReadyOnce
<1>11. /\ \A l \in RLink : l.rs \in Stations
       /\ \A l \in Event : l.rs \in Stations
       /\ \A x \in Stations : v.rs[x].tag = w.rs[x].tag
  BY <1>7 DEF RLink, Event
<1>12. LinksOK(v.rs, A, n2)
  BY <1>5, <1>6, <1>11, LinksGrow
<1>13. LinksOK(v.rs, A, ev)
  BY <1>1, <1>11, LinksGrow
<1>14. LinksOK(v.rs, A, <<>>)
  BY DEF LinksOK
<1>15. EventOnce(v.rs, ev)
  BY <1>1, <1>7 DEF EventOnce, Ref
<1>16. StatusOK(v.rs)
  <2>1. \A x \in Stations : OPERANDS_READY(v.rs[x]) <=> OPERANDS_READY(w.rs[x])
    BY <1>7 DEF OPERANDS_READY
  <2> QED
    BY <1>1, <1>7, <2>1 DEF StatusOK
<1>17. Core(v, A, n2, ev)
  BY <1>1, <1>4, <1>6, <1>9, <1>10, <1>12, <1>13, <1>14, <1>15, <1>16 DEF Core, Queues
<1> QED
  BY <1>5, <1>17 DEF a

-----------------------------------------------------------------------------
Slots(q, n) == {q[k] : k \in 1..n}
Ordered(rr, q, n) == \A j, k \in 1..n : j < k => rr[q[j]].seq < rr[q[k]].seq

\* The inductive invariant.
Inv ==
    /\ Types
    /\ Core(World, Live, node, event_queue)
    /\ Window(rs, Live, spec_mode, inst_seq)
    /\ Ordered(rs, RuuLive, RUU_num) /\ Ordered(rs, LsqLive, LSQ_num)
    /\ stage # "issue" => node = <<>>

\* The stations in use, from the heads and counts.
LEMMA LiveFacts ==
    ASSUME Types
    PROVE  /\ RUU_size \in Nat \ {0} /\ LSQ_size \in Nat \ {0}
           /\ RUU_num \in Nat /\ LSQ_num \in Nat /\ RUU_head \in Nat /\ LSQ_head \in Nat
           /\ Distinct(RuuLive, RUU_num) /\ Distinct(LsqLive, LSQ_num)
           /\ Range(RuuLive) = Slots(RuuLive, RUU_num)
           /\ Range(LsqLive) = Slots(LsqLive, LSQ_num)
           /\ Live = Slots(RuuLive, RUU_num) \cup Slots(LsqLive, LSQ_num)
           /\ \A s \in Live : /\ in_LSQ(s) <=> s \in Slots(LsqLive, LSQ_num)
                              /\ ~in_LSQ(s) <=> s \in Slots(RuuLive, RUU_num)
           /\ Live \subseteq Stations
           /\ RuuLive \in Seq(Stations) /\ Len(RuuLive) = RUU_num
           /\ LsqLive \in Seq(Stations) /\ Len(LsqLive) = LSQ_num
<1>1. /\ RUU_size \in Nat \ {0} /\ LSQ_size \in Nat \ {0}
      /\ RUU_head \in 0..RUU_size-1 /\ RUU_num \in 0..RUU_size
      /\ LSQ_head \in 0..LSQ_size-1 /\ LSQ_num \in 0..LSQ_size
  BY RuuAssumption DEF Types
<1>2. RUU_num \in Nat /\ LSQ_num \in Nat /\ RUU_head \in Nat /\ LSQ_head \in Nat
  BY <1>1
<1>3. Distinct(RuuLive, RUU_num) /\ Distinct(LsqLive, LSQ_num)
  BY <1>1, RingOnce, Buffers
<1>4. /\ Range(RuuLive) = Slots(RuuLive, RUU_num)
      /\ Range(LsqLive) = Slots(LsqLive, LSQ_num)
  BY DEF Range, Slots, RuuLive, LsqLive
<1>5. Live = Slots(RuuLive, RUU_num) \cup Slots(LsqLive, LSQ_num)
  BY <1>4 DEF Live
<1>6. /\ \A k \in 1..RUU_num : RUU_head + k - 1 \in Nat /\ RuuLive[k] = RUU(RUU_head + k - 1)
      /\ \A k \in 1..LSQ_num : LSQ_head + k - 1 \in Nat /\ LsqLive[k] = LSQ(LSQ_head + k - 1)
  BY <1>2 DEF RuuLive, LsqLive
<1>7. /\ \A k \in 1..RUU_num : RuuLive[k] \in Stations /\ ~in_LSQ(RuuLive[k])
      /\ \A k \in 1..LSQ_num : LsqLive[k] \in Stations /\ in_LSQ(LsqLive[k])
  BY <1>6, StationOf
<1>8. \A s \in Live : /\ in_LSQ(s) <=> s \in Slots(LsqLive, LSQ_num)
                      /\ ~in_LSQ(s) <=> s \in Slots(RuuLive, RUU_num)
  BY <1>5, <1>7 DEF Slots
<1>9. Live \subseteq Stations
  BY <1>5, <1>7 DEF Slots
<1>10. /\ RuuLive \in Seq(Stations) /\ Len(RuuLive) = RUU_num
       /\ LsqLive \in Seq(Stations) /\ Len(LsqLive) = LSQ_num
  <2>1. RuuLive = [k \in 1..RUU_num |-> RuuLive[k]] /\ LsqLive = [k \in 1..LSQ_num |-> LsqLive[k]]
    BY DEF RuuLive, LsqLive
  <2> QED
    BY <1>2, <1>7, <2>1
<1> QED
  BY <1>1, <1>2, <1>3, <1>4, <1>5, <1>8, <1>9, <1>10

\* What all actions know.
LEMMA InvFacts ==
    ASSUME Inv
    PROVE  /\ Types /\ World \in Worlds /\ rs \in [Stations -> RSType]
           /\ World.rs = rs /\ World.ready_queue = ready_queue /\ World.panics = panics
           /\ World.create_vector = create_vector /\ World.use_spec_cv = use_spec_cv
           /\ World.spec_create_vector = spec_create_vector
           /\ node \in Seq(RLink) /\ event_queue \in Seq(Event)
           /\ ready_queue \in Seq(RLink) /\ panics \subseteq Messages
           /\ Core(World, Live, node, event_queue) /\ Structure(World, Live)
           /\ Window(rs, Live, spec_mode, inst_seq)
           /\ LinksOK(rs, Live, node) /\ LinksOK(rs, Live, event_queue)
           /\ StatusOK(rs) /\ ReadyOnce(rs, ready_queue, node) /\ EventOnce(rs, event_queue)
<1>1. /\ World.rs = rs /\ World.ready_queue = ready_queue /\ World.panics = panics
      /\ World.create_vector = create_vector /\ World.use_spec_cv = use_spec_cv
      /\ World.spec_create_vector = spec_create_vector
  BY DEF World
<1>2. /\ Types /\ World \in Worlds /\ Core(World, Live, node, event_queue)
      /\ Window(rs, Live, spec_mode, inst_seq)
  BY DEF Inv, Types
<1>3. PICK w : w = World
  OBVIOUS
<1>4. /\ w \in Worlds /\ Core(w, Live, node, event_queue) /\ w.rs = rs
      /\ w.ready_queue = ready_queue /\ w.panics = panics
  BY <1>1, <1>2, <1>3
<1>5. /\ w.rs \in [Stations -> RSType] /\ w.ready_queue \in Seq(RLink)
      /\ w.panics \subseteq Messages
  BY <1>4 DEF Worlds
<1>6. /\ node \in Seq(RLink) /\ event_queue \in Seq(Event) /\ Structure(w, Live)
      /\ LinksOK(w.rs, Live, node) /\ LinksOK(w.rs, Live, event_queue)
      /\ StatusOK(w.rs) /\ ReadyOnce(w.rs, w.ready_queue, node)
      /\ EventOnce(w.rs, event_queue)
  BY <1>4, CoreFacts
<1> QED
  BY <1>1, <1>2, <1>3, <1>4, <1>5, <1>6

\* Init is one such state.
LEMMA InitInv == Init => Inv
<1> SUFFICES ASSUME Init PROVE Inv
  OBVIOUS
<1>1. /\ RUU_num = 0 /\ LSQ_num = 0 /\ 1..0 = {}
      /\ RUU_size \in Nat \ {0} /\ LSQ_size \in Nat \ {0}
  BY RuuAssumption DEF Init
<1>2. Live = {}
  BY <1>1 DEF Live, RuuLive, LsqLive, Range
<1>3. World \in Worlds
  <2>1. rs \in [Stations -> RSType]
    BY BlankType DEF Init
  <2>2. /\ create_vector \in [Regs -> CVLink] /\ spec_create_vector \in [Regs -> CVLink]
        /\ use_spec_cv \subseteq Regs /\ ready_queue \in Seq(RLink) /\ panics \subseteq Messages
    BY DEF Init, CVLink
  <2> QED
    BY <2>1, <2>2 DEF World, Worlds
<1>4. Types
  <2>1. busy \in [Units -> Nat]
    BY DEF Init
  <2>2. node \in Seq(RLink) /\ event_queue \in Seq(Event)
    BY DEF Init
  <2>3. /\ RUU_head \in 0..RUU_size-1 /\ RUU_num \in 0..RUU_size
        /\ LSQ_head \in 0..LSQ_size-1 /\ LSQ_num \in 0..LSQ_size
    BY <1>1 DEF Init
  <2>4. options \in Options /\ spec_mode \in BOOLEAN /\ inst_seq \in Nat /\ count \in Nat
    BY DEF Init
  <2> QED
    BY <1>3, <2>1, <2>2, <2>3, <2>4 DEF Types
<1>5. \A x \in Stations : rs[x] = Blank
  BY DEF Init
<1>6. Structure(World, Live)
  <2>1. World.rs = rs
    BY DEF World
  <2>2. \A x \in Stations : Freed(rs[x])
    BY <1>5 DEF Freed, Blank
  <2>3. ChainsOK(rs, {}, {}) /\ ChainsDone(rs)
    <3>1. \A p \in Stations, o \in 1..2 : rs[p].odep_list[o] = <<>>
      BY <1>5 DEF Blank
    <3>2. DOMAIN <<>> = {}
      OBVIOUS
    <3> QED
      BY <3>1, <3>2 DEF ChainsOK, ChainsDone, ChainsClean, ChainsExact, ChainsOnce,
                        ChainsOlder, LinksOK
  <2>4. RenamesOK(World, {}, {})
    <3>1. /\ World.create_vector = create_vector /\ World.use_spec_cv = {}
          /\ \A r \in Regs : create_vector[r] = CVLINK_NULL
      BY DEF World, Init
    <3>2. \A reg, sp : Writes(World.rs, {}, reg, sp) = {}
      BY DEF Writes
    <3> QED
      BY <3>1, <3>2 DEF RenamesOK, Names
  <2> QED
    BY <1>2, <1>3, <2>1, <2>2, <2>3, <2>4 DEF Structure
<1>7. Queues(World, Live, node, event_queue)
  <2>1. /\ World.rs = rs /\ World.ready_queue = <<>> /\ node = <<>> /\ event_queue = <<>>
        /\ DOMAIN <<>> = {}
    BY DEF World, Init
  <2>2. \A x \in Stations : rs[x].queued = FALSE /\ rs[x].issued = FALSE /\ rs[x].completed = FALSE
    BY <1>5 DEF Blank
  <2> QED
    BY <2>1, <2>2 DEF Queues, LinksOK, ReadyOnce, EventOnce, StatusOK
<1>8. Window(rs, Live, spec_mode, inst_seq)
  BY <1>2 DEF Window, Kinded, Paired, Bounded, LoadsOK, Init
<1>9. Ordered(rs, RuuLive, RUU_num) /\ Ordered(rs, LsqLive, LSQ_num)
  BY <1>1 DEF Ordered
<1> QED
  BY <1>4, <1>6, <1>7, <1>8, <1>9 DEF Inv, Core, Init

\* A step that fills and frees no station and resolves no branch.
LEMMA SteadyInv ==
    ASSUME Inv, UNCHANGED <<RUU_head, RUU_num, LSQ_head, LSQ_num, spec_mode, inst_seq>>,
           Core(World', Live, node', event_queue'), Steady(rs, rs', Live),
           options' \in Options, busy' \in [Units -> Nat], count' \in Nat,
           stage' # "issue" => node' = <<>>
    PROVE  Inv'
<1>1. /\ RuuLive' = RuuLive /\ LsqLive' = LsqLive
  BY DEF RuuLive, LsqLive
<1>2. Live' = Live
  BY <1>1 DEF Live
<1>3. Types'
  <2>1. /\ World' \in Worlds /\ node' \in Seq(RLink) /\ event_queue' \in Seq(Event)
    BY CoreFacts
  <2> QED
    BY <2>1 DEF Inv, Types
<1>4. Window(rs', Live, spec_mode, inst_seq)
  BY WindowSteady DEF Inv
<1>5. \A x \in Live : rs'[x].seq = rs[x].seq
  BY DEF Steady, Onward
<1>6. /\ \A k \in 1..RUU_num : RuuLive[k] \in Live
      /\ \A k \in 1..LSQ_num : LsqLive[k] \in Live
  BY LiveFacts DEF Inv, Slots
<1>7. Ordered(rs', RuuLive, RUU_num) /\ Ordered(rs', LsqLive, LSQ_num)
  BY <1>5, <1>6 DEF Inv, Ordered
<1>8. /\ Core(World', Live', node', event_queue')
      /\ Window(rs', Live', spec_mode', inst_seq')
      /\ Ordered(rs', RuuLive', RUU_num') /\ Ordered(rs', LsqLive', LSQ_num')
  BY <1>1, <1>2, <1>4, <1>7
<1> QED
  BY <1>3, <1>8 DEF Inv

\* A station that does not change.
LEMMA Unmoved ==
    ASSUME NEW rr, NEW A
    PROVE  Steady(rr, rr, A)
BY DEF Steady, Onward

-----------------------------------------------------------------------------
\* The end of the commit loop.
LEMMA ReleaseInv ==
    ASSUME Inv, ruu_release_fu
    PROVE  Inv'
<1>1. World' = World /\ rs' = rs /\ node' = node /\ event_queue' = event_queue
      /\ UNCHANGED <<RUU_head, RUU_num, LSQ_head, LSQ_num, spec_mode, inst_seq, options>>
  BY DEF ruu_release_fu, World, machine, queues, renames, control
<1>2. busy' \in [Units -> Nat] /\ count' \in Nat
  BY DEF ruu_release_fu, Inv, Types
<1>3. stage # "issue" /\ node = <<>> /\ options \in Options
  BY DEF ruu_release_fu, Inv, Types
<1>4. Core(World', Live, node', event_queue') /\ Steady(rs, rs', Live)
  BY <1>1, Unmoved DEF Inv
<1> QED
  BY <1>1, <1>2, <1>3, <1>4, SteadyInv

\* The end of writeback.
LEMMA EndWritebackInv ==
    ASSUME Inv, EndWriteback
    PROVE  Inv'
<1>1. World' = World /\ rs' = rs /\ node' = node /\ event_queue' = event_queue
      /\ UNCHANGED <<RUU_head, RUU_num, LSQ_head, LSQ_num, spec_mode, inst_seq, options>>
  BY DEF EndWriteback, World, machine, queues, renames, control
<1>2. busy' \in [Units -> Nat] /\ count' \in Nat
  BY DEF EndWriteback, Inv, Types, units
<1>3. stage # "issue" /\ node = <<>> /\ options \in Options
  BY DEF EndWriteback, Inv, Types
<1>4. Core(World', Live, node', event_queue') /\ Steady(rs, rs', Live)
  BY <1>1, Unmoved DEF Inv
<1> QED
  BY <1>1, <1>2, <1>3, <1>4, SteadyInv

\* An event that comes a cycle nearer.
LEMMA Nearer ==
    ASSUME NEW e \in Event
    PROVE  /\ [e EXCEPT !.when = @ - 1] \in Event
           /\ [e EXCEPT !.when = @ - 1].rs = e.rs
           /\ [e EXCEPT !.when = @ - 1].tag = e.tag
<1>1. e.when \in Int /\ e.rs \in Stations /\ e.tag \in Nat
      /\ e = [rs |-> e.rs, tag |-> e.tag, when |-> e.when]
  BY DEF Event
<1>2. PICK n \in Int : n = e.when - 1
  BY <1>1
<1>3. [e EXCEPT !.when = @ - 1] = [rs |-> e.rs, tag |-> e.tag, when |-> n]
  BY <1>1, <1>2
<1> QED
  BY <1>1, <1>2, <1>3 DEF Event

\* In the next cycle the same events are scheduled.
LEMMA Tick ==
    ASSUME event_queue \in Seq(Event), NextCycle
    PROVE  Ticking(event_queue, event_queue')
<1> DEFINE e2 == [k \in DOMAIN event_queue |-> [event_queue[k] EXCEPT !.when = @ - 1]]
<1>1. PICK ev \in Seq(Event) : ev = event_queue
  OBVIOUS
<1>2. \A k \in DOMAIN ev : ev[k] \in Event
  BY <1>1
<1>3. \A k \in DOMAIN ev : [ev[k] EXCEPT !.when = @ - 1] \in Event
                           /\ [ev[k] EXCEPT !.when = @ - 1].rs = ev[k].rs
                           /\ [ev[k] EXCEPT !.when = @ - 1].tag = ev[k].tag
  BY <1>2, Nearer
<1>4. e2 = [k \in 1..Len(ev) |-> [ev[k] EXCEPT !.when = @ - 1]] /\ DOMAIN ev = 1..Len(ev)
      /\ Len(ev) \in Nat
  BY <1>1
<1>5. /\ DOMAIN e2 = DOMAIN ev /\ \A k \in DOMAIN ev : e2[k] \in Event /\ e2[k].rs = ev[k].rs
                                                       /\ e2[k].tag = ev[k].tag
      /\ e2 = [k \in 1..Len(ev) |-> e2[k]]
  BY <1>3, <1>4
<1> HIDE DEF e2
<1>6. e2 \in Seq(Event)
  BY <1>4, <1>5
<1>7. Ticking(ev, e2)
  BY <1>5, <1>6 DEF Ticking
<1>8. event_queue' = e2
  BY DEF NextCycle, e2
<1> QED
  BY <1>1, <1>7, <1>8

\* The end of dispatch.
LEMMA EndDispatchInv ==
    ASSUME Inv, EndDispatch
    PROVE  Inv'
<1>1. World' = World /\ rs' = rs /\ node' = node
      /\ UNCHANGED <<RUU_head, RUU_num, LSQ_head, LSQ_num, spec_mode, inst_seq, options>>
  BY DEF EndDispatch, World, machine, renames, control
<1>2. busy' \in [Units -> Nat] /\ count' \in Nat
  BY DEF EndDispatch, Inv, Types
<1>3. stage # "issue" /\ node = <<>> /\ options \in Options
  BY DEF EndDispatch, Inv, Types
<1>4. Steady(rs, rs', Live)
  BY <1>1, Unmoved
<1>5. Core(World, Live, node, event_queue')
  <2>1. CASE event_queue' = event_queue
    BY <2>1 DEF Inv
  <2>2. CASE NextCycle
    <3>1. Ticking(event_queue, event_queue')
      BY <2>2, Tick DEF Inv, Types
    <3> QED
      BY <3>1, TickCore DEF Inv
  <2> QED
    BY <2>1, <2>2 DEF EndDispatch
<1> QED
  BY <1>1, <1>2, <1>3, <1>4, <1>5, SteadyInv

\* The end of issue.
LEMMA EndIssueInv ==
    ASSUME Inv, EndIssue
    PROVE  Inv' /\ panics' = panics /\ Steady(rs, rs', Live)
<1>1. PICK v : v = RequeueAll(World, node)
  OBVIOUS
<1>2. /\ rs' = v.rs /\ ready_queue' = v.ready_queue /\ panics' = v.panics /\ node' = <<>>
      /\ UNCHANGED <<RUU_head, RUU_num, LSQ_head, LSQ_num, create_vector,
                     spec_create_vector, use_spec_cv, busy, spec_mode, inst_seq, options>>
      /\ count' = 0
  BY <1>1 DEF EndIssue, renames, control
<1>3. /\ v \in Worlds /\ v.rs = World.rs /\ v.panics = World.panics
      /\ ReadyOnce(World.rs, v.ready_queue, <<>>) /\ LinksOK(World.rs, Live, v.ready_queue)
  BY <1>1, RequeueRest DEF Inv
<1>4. World.rs = rs /\ World.panics = panics
  BY InvFacts
<1>5. /\ World'.rs = rs' /\ World'.ready_queue = ready_queue'
      /\ World'.create_vector = create_vector' /\ World'.use_spec_cv = use_spec_cv'
      /\ World'.spec_create_vector = spec_create_vector'
  BY DEF World
<1>6. World' \in Worlds
  <2>1. /\ create_vector \in [Regs -> CVLink] /\ spec_create_vector \in [Regs -> CVLink]
        /\ use_spec_cv \subseteq Regs
    BY InvFacts DEF Worlds
  <2> QED
    BY <1>2, <1>3, <2>1 DEF Worlds, World
<1>7. Relisting(World, World', Live, <<>>)
  <2>1. /\ World.create_vector = create_vector /\ World.use_spec_cv = use_spec_cv
        /\ World.spec_create_vector = spec_create_vector
    BY DEF World
  <2>2. <<>> \in Seq(RLink) /\ LinksOK(rs, Live, <<>>)
    BY DEF LinksOK
  <2> QED
    BY <1>2, <1>3, <1>4, <1>5, <1>6, <2>1, <2>2 DEF Relisting
<1>8. Core(World', Live, <<>>, event_queue)
  BY <1>7, RelistCore DEF Inv
<1>9. Core(World', Live, node', event_queue')
  <2>1. CASE event_queue' = event_queue
    BY <1>2, <1>8, <2>1
  <2>2. CASE NextCycle
    <3>1. Ticking(event_queue, event_queue')
      BY <2>2, Tick DEF Inv, Types
    <3> QED
      BY <1>2, <1>8, <3>1, TickCore
  <2> QED
    BY <2>1, <2>2 DEF EndIssue
<1>10. Steady(rs, rs', Live)
  BY <1>2, <1>3, <1>4, Unmoved
<1>11. options' \in Options /\ busy' \in [Units -> Nat] /\ count' \in Nat
  BY <1>2 DEF Inv, Types
<1>12. Inv'
  BY <1>2, <1>9, <1>10, <1>11, SteadyInv
<1> QED
  BY <1>2, <1>3, <1>4, <1>10, <1>12

-----------------------------------------------------------------------------
\* A load that the scan of the LSQ, q, finds clear is clear.
LEMMA ScanClear ==
    ASSUME NEW rr, NEW A, NEW q, NEW n \in Nat, NEW sq, Kinded(rr, A, sq),
           Ordered(rr, q, n), \A x \in A : in_LSQ(x) <=> x \in Slots(q, n),
           Slots(q, n) \subseteq A, NEW m \in 1..n, LoadClear(rr, q, m)
    PROVE  Clear(rr, A, q[m])
<1>1. \A k \in 1..n : q[k] \in A /\ rr[q[k]].seq \in 1..sq
  BY DEF Kinded, Slots
<1> SUFFICES ASSUME NEW j \in A, Store(rr[j]), rr[j].seq < rr[q[m]].seq
             PROVE  /\ STORE_ADDR_READY(rr[j])
                    /\ rr[j].addr = rr[q[m]].addr /\ ~Hidden(rr, A, j, q[m])
                          => OPERANDS_READY(rr[j])
  BY DEF Clear
<1>2. in_LSQ(j)
  BY DEF Kinded, Store
<1>3. PICK a \in 1..n : j = q[a]
  BY <1>2 DEF Slots
<1>4. a < m
  <2>1. PICK x \in Int, y \in Int : x = rr[q[a]].seq /\ y = rr[q[m]].seq
    BY <1>1
  <2>2. x < y
    BY <1>3, <2>1
  <2>3. m < a => y < x
    BY <2>1 DEF Ordered
  <2>4. m = a => x = y
    BY <2>1
  <2> QED
    BY <2>2, <2>3, <2>4
<1>5. a \in 1..m-1
  BY <1>4
<1>6. STORE_ADDR_READY(rr[j])
  BY <1>3, <1>5 DEF LoadClear
<1>7. ASSUME rr[j].addr = rr[q[m]].addr, ~Hidden(rr, A, j, q[m])
      PROVE  OPERANDS_READY(rr[j])
  <2>1. ASSUME NEW k \in a+1..m-1, Store(rr[q[k]]), rr[q[k]].addr = rr[q[m]].addr
        PROVE  FALSE
    <3>1. k \in 1..n /\ a < k /\ k < m
      OBVIOUS
    <3>2. rr[q[a]].seq < rr[q[k]].seq /\ rr[q[k]].seq < rr[q[m]].seq /\ q[k] \in A
      BY <1>1, <3>1 DEF Ordered
    <3> QED
      BY <1>3, <1>7, <2>1, <3>2 DEF Hidden
  <2> QED
    BY <1>3, <1>5, <1>7, <2>1 DEF LoadClear
<1> QED
  BY <1>6, <1>7

\* lsq_refresh(), with the array large enough for the LSQ.
LEMMA RefreshInv ==
    ASSUME Inv, lsq_refresh
    PROVE  /\ Inv' /\ Steady(rs, rs', Live)
           /\ LSQ_size <= MAX_STD_UNKNOWNS => panics' = panics
<1>1. PICK a : a = RefreshAll(World, LsqLive)
  OBVIOUS
<1>2. /\ rs' = a.w.rs /\ panics' = a.w.panics /\ node' = a.w.ready_queue
      /\ ready_queue' = <<>> /\ stage' = "issue" /\ count' = 0 /\ stage = "refresh"
      /\ UNCHANGED <<RUU_head, RUU_num, LSQ_head, LSQ_num, event_queue, create_vector,
                     spec_create_vector, use_spec_cv, busy, spec_mode, inst_seq, options>>
  BY <1>1 DEF lsq_refresh, renames, control, units
<1>3. /\ LsqLive \in Seq(Stations) /\ Len(LsqLive) = LSQ_num /\ LSQ_num \in Nat
      /\ \A x \in Live : in_LSQ(x) <=> x \in Slots(LsqLive, LSQ_num)
      /\ Slots(LsqLive, LSQ_num) \subseteq Live
  BY LiveFacts DEF Inv
<1>4. \A m \in DOMAIN LsqLive : LsqLive[m] \in Live
  BY <1>3 DEF Slots
<1>5. node = <<>> /\ Core(World, Live, <<>>, event_queue) /\ World \in Worlds
      /\ World.rs = rs /\ World.panics = panics
  BY <1>2, InvFacts DEF Inv
<1>6. RefreshGood(World, a, Live, <<>>, LsqLive, Len(LsqLive))
  <2>1. /\ LinksOK(World.rs, Live, World.ready_queue) /\ <<>> \in Seq(RLink)
        /\ ReadyOnce(World.rs, World.ready_queue, <<>>)
    BY <1>5, CoreFacts
  <2> QED
    BY <1>1, <1>3, <1>4, <1>5, <2>1, RefreshAllEffect
<1>7. a.w \in Worlds /\ (Len(LsqLive) <= MAX_STD_UNKNOWNS => a.w.panics = panics)
      /\ Refreshed(rs, rs', LsqLive, LSQ_num)
  BY <1>2, <1>3, <1>5, <1>6 DEF RefreshGood
<1>8. World' \in Worlds
  <2>1. /\ create_vector \in [Regs -> CVLink] /\ spec_create_vector \in [Regs -> CVLink]
        /\ use_spec_cv \subseteq Regs
    BY InvFacts DEF Worlds
  <2>2. /\ a.w.rs \in [Stations -> RSType] /\ a.w.panics \subseteq Messages
        /\ <<>> \in Seq(RLink)
    BY <1>7 DEF Worlds
  <2> QED
    BY <1>2, <2>1, <2>2 DEF Worlds, World
<1>9. Refreshing(World, World', Live, LsqLive, node')
  <2>1. /\ World'.rs = rs' /\ World'.ready_queue = ready_queue'
        /\ World'.create_vector = create_vector' /\ World'.use_spec_cv = use_spec_cv'
        /\ World'.spec_create_vector = spec_create_vector'
        /\ World.create_vector = create_vector /\ World.use_spec_cv = use_spec_cv
        /\ World.spec_create_vector = spec_create_vector
    BY DEF World
  <2> QED
    BY <1>1, <1>2, <1>3, <1>4, <1>8, <2>1 DEF Refreshing
<1>10. Core(World', Live, node', event_queue')
  BY <1>2, <1>5, <1>9, RefreshCore
<1>11. Steady(rs, rs', Live)
  <2> SUFFICES ASSUME NEW x \in Live
               PROVE  /\ Onward(rs[x], rs'[x])
                      /\ rs[x].recover_inst => rs'[x].completed = rs[x].completed
                      /\ rs[x].kind = "load" /\ (rs'[x].queued \/ rs'[x].issued) =>
                            rs[x].queued \/ rs[x].issued \/ Clear(rs, Live, x)
    BY DEF Steady
  <2>1. x \in Stations
    BY LiveFacts DEF Inv
  <2>2. /\ Alike(rs'[x], rs[x]) /\ rs'[x].idep_ready = rs[x].idep_ready
        /\ rs'[x].queued /\ ~rs[x].queued =>
             \E m \in 1..LSQ_num : x = LsqLive[m] /\ LoadClear(rs, LsqLive, m)
    BY <1>7, <2>1 DEF Refreshed
  <2>3. ASSUME rs'[x].queued, ~rs[x].queued PROVE Clear(rs, Live, x)
    <3>1. PICK m \in 1..LSQ_num : x = LsqLive[m] /\ LoadClear(rs, LsqLive, m)
      BY <2>2, <2>3
    <3>2. Kinded(rs, Live, inst_seq) /\ Ordered(rs, LsqLive, LSQ_num)
      BY DEF Inv, Window
    <3> QED
      BY <1>3, <3>1, <3>2, ScanClear
  <2> QED
    BY <2>2, <2>3 DEF Alike, Onward
<1>12. options' \in Options /\ busy' \in [Units -> Nat] /\ count' \in Nat
  BY <1>2 DEF Inv, Types
<1>13. Inv'
  BY <1>2, <1>10, <1>11, <1>12, SteadyInv
<1>14. LSQ_size <= MAX_STD_UNKNOWNS => Len(LsqLive) <= MAX_STD_UNKNOWNS
  <2>1. LSQ_num \in 0..LSQ_size /\ LSQ_size \in Nat /\ MAX_STD_UNKNOWNS \in Nat
    BY RuuAssumption DEF Inv, Types
  <2> QED
    BY <1>3, <2>1
<1> QED
  BY <1>2, <1>7, <1>11, <1>13, <1>14

-----------------------------------------------------------------------------
\* res_get() finds a template of the class, or none.
LEMMA TemplateFound ==
    ASSUME NEW c \in DOMAIN FuTable
    PROVE  /\ res_get(c) \in 0..Len(FuTable[c])
           /\ res_get(c) # 0 =>
                /\ FuTable[c][res_get(c)].unit \in Units
                /\ FuTable[c][res_get(c)].oplat \in Nat \ {0}
                /\ FuTable[c][res_get(c)].issuelat \in Nat \ {0}
<1>1. PICK q : q = FuTable[c]
  OBVIOUS
<1>2. q \in Seq([unit : STRING, oplat : Nat \ {0}, issuelat : Nat \ {0}])
  BY <1>1, RuuAssumption
<1>3. Len(q) \in Nat /\ DOMAIN q = 1..Len(q)
  BY <1>2
<1> DEFINE I == {i \in 1..Len(q) : busy[q[i].unit] = 0}
<1>4. res_get(c) = IF I # {} THEN Min(I) ELSE 0
  BY <1>1 DEF res_get, SelectInSeq
<1>5. I # {} => Min(I) \in I
  BY <1>3, MinIndex
<1>6. I \subseteq 1..Len(q)
  OBVIOUS
<1> HIDE DEF I
<1>7. res_get(c) \in 0..Len(q) /\ (res_get(c) # 0 => res_get(c) \in 1..Len(q))
  <2>1. PICK m, g : m = Min(I) /\ g = res_get(c)
    OBVIOUS
  <2>2. (I # {} => g = m /\ m \in 1..Len(q)) /\ (I = {} => g = 0)
    BY <1>4, <1>5, <1>6, <2>1
  <2> QED
    BY <1>3, <2>1, <2>2
<1>8. \A k \in 1..Len(q) : q[k] \in [unit : STRING, oplat : Nat \ {0}, issuelat : Nat \ {0}]
  <2>1. PICK S : S = [unit : STRING, oplat : Nat \ {0}, issuelat : Nat \ {0}]
    OBVIOUS
  <2>2. q \in Seq(S)
    BY <1>2, <2>1
  <2>3. \A k \in 1..Len(q) : q[k] \in S
    BY <2>2
  <2> QED
    BY <2>1, <2>3
<1>9. \A k \in 1..Len(q) : q[k].unit \in Units
  BY <1>1, <1>3 DEF Units
<1> QED
  BY <1>1, <1>7, <1>8, <1>9

\* Reserving a unit keeps the times natural numbers.
LEMMA ReserveType ==
    ASSUME busy \in [Units -> Nat], NEW c \in DOMAIN FuTable, res_get(c) # 0,
           Reserve(FuTable[c][res_get(c)])
    PROVE  busy' \in [Units -> Nat]
<1>1. PICK t : t = FuTable[c][res_get(c)]
  OBVIOUS
<1>2. t.unit \in Units /\ t.issuelat \in Nat
  BY <1>1, TemplateFound
<1>3. busy' = [busy EXCEPT ![t.unit] = t.issuelat]
  BY <1>1 DEF Reserve
<1> QED
  BY <1>2, <1>3

\* A valid link of ruu_issue() is to an instruction that waits for a unit.
LEMMA NodeReady ==
    ASSUME Inv, node # <<>>, RSLINK_VALID(rs, Head(node))
    PROVE  LET s == Head(node).rs
           IN  /\ s \in Live /\ s \in Stations /\ Ref(rs, node, 1, s)
               /\ OPERANDS_READY(rs[s]) /\ rs[s].queued /\ ~rs[s].issued
               /\ ~rs[s].completed /\ Head(node) = node[1] /\ 1 \in DOMAIN node
<1>1. PICK l : l = Head(node)
  OBVIOUS
<1>2. node \in Seq(RLink) /\ rs \in [Stations -> RSType] /\ LinksOK(rs, Live, node)
      /\ StatusOK(rs) /\ ReadyOnce(rs, ready_queue, node)
  BY InvFacts
<1>3. l = node[1] /\ 1 \in DOMAIN node /\ l \in RLink
  BY <1>1, <1>2
<1>4. PICK s : s = l.rs
  OBVIOUS
<1>5. s \in Stations /\ Ref(rs, node, 1, s)
  BY <1>1, <1>3, <1>4 DEF RLink, RSLINK_VALID, Ref
<1>6. rs[s].tag \in Nat
  <2>1. rs[s] \in RSType
    BY <1>2, <1>5
  <2> QED
    BY <2>1 DEF RSType
<1>7. s \in Live
  BY <1>2, <1>3, <1>5, <1>6, ValidLive
<1>8. rs[s].queued
  BY <1>2, <1>3, <1>5 DEF ReadyOnce
<1>9. OPERANDS_READY(rs[s]) /\ ~rs[s].issued /\ ~rs[s].completed
  BY <1>2, <1>5, <1>8 DEF StatusOK
<1> QED
  BY <1>1, <1>3, <1>4, <1>5, <1>7, <1>8, <1>9

\* So ruu_issue() finds nothing to panic about.
LEMMA NoIssuePanic ==
    ASSUME Inv, NEW r, OPERANDS_READY(r), r.queued, ~r.issued, ~r.completed,
           NEW lat \in Nat \ {0}
    PROVE  IssuePanics(r, lat) = panics
<1>1. World \in Worlds /\ World.panics = panics
  BY InvFacts
<1>2. ~(lat <= 0) /\ panics \cup {} = panics
  OBVIOUS
<1>3. Panic(World, ~OPERANDS_READY(r) \/ ~r.queued \/ r.issued \/ r.completed,
            "issued inst !ready") = [World EXCEPT !.panics = panics]
  BY DEF Panic, World
<1>4. [World EXCEPT !.panics = panics] = World
  BY DEF World
<1>5. Panic(World, lat <= 0, "event occurred in the past") = [World EXCEPT !.panics = panics]
  BY <1>2 DEF Panic, World
<1> QED
  BY <1>1, <1>3, <1>4, <1>5 DEF IssuePanics

\* What ruu_issue() writes into a station; c is its completed bit then.
Issuing(rr, r2, s, c) ==
    /\ r2 \in [Stations -> RSType]
    /\ \A x \in Stations : x # s => r2[x] = rr[x]
    /\ Onward(rr[s], r2[s]) /\ r2[s].idep_ready = rr[s].idep_ready
    /\ r2[s].odep_list = rr[s].odep_list /\ r2[s].tag = rr[s].tag
    /\ r2[s].queued = FALSE /\ r2[s].issued = TRUE /\ r2[s].completed = c

\* A station that issues is a station.
LEMMA IssuedStation ==
    ASSUME NEW r \in RSType
    PROVE  LET y == [r EXCEPT !.queued = FALSE, !.issued = TRUE]
           IN  /\ y \in RSType /\ Onward(r, y) /\ y.idep_ready = r.idep_ready
               /\ y.odep_list = r.odep_list /\ y.tag = r.tag
               /\ y.queued = FALSE /\ y.issued = TRUE /\ y.completed = r.completed
BY DEF RSType, Onward

\* So is a store that is complete at once.
LEMMA DoneStation ==
    ASSUME NEW r \in RSType
    PROVE  LET y == [r EXCEPT !.queued = FALSE, !.issued = TRUE, !.completed = TRUE]
           IN  /\ y \in RSType /\ Onward(r, y) /\ y.idep_ready = r.idep_ready
               /\ y.odep_list = r.odep_list /\ y.tag = r.tag
               /\ y.queued = FALSE /\ y.issued = TRUE /\ y.completed = TRUE
BY DEF RSType, Onward

\* The stations after either.
LEMMA IssueMarks ==
    ASSUME NEW rr \in [Stations -> RSType], NEW s \in Stations
    PROVE  /\ Issuing(rr, [rr EXCEPT ![s].queued = FALSE, ![s].issued = TRUE], s,
                      rr[s].completed)
           /\ Issuing(rr, [rr EXCEPT ![s].queued = FALSE, ![s].issued = TRUE,
                                     ![s].completed = TRUE], s, TRUE)
<1>1. PICK r : r = rr[s]
  OBVIOUS
<1>2. PICK y, z : /\ y = [r EXCEPT !.queued = FALSE, !.issued = TRUE]
                  /\ z = [r EXCEPT !.queued = FALSE, !.issued = TRUE, !.completed = TRUE]
  OBVIOUS
<1>3. r \in RSType
  BY <1>1
<1>4. /\ y \in RSType /\ Onward(r, y) /\ y.idep_ready = r.idep_ready
      /\ y.odep_list = r.odep_list /\ y.tag = r.tag
      /\ y.queued = FALSE /\ y.issued = TRUE /\ y.completed = r.completed
  BY <1>2, <1>3, IssuedStation
<1>5. /\ z \in RSType /\ Onward(r, z) /\ z.idep_ready = r.idep_ready
      /\ z.odep_list = r.odep_list /\ z.tag = r.tag
      /\ z.queued = FALSE /\ z.issued = TRUE /\ z.completed = TRUE
  BY <1>2, <1>3, DoneStation
<1>6. [rr EXCEPT ![s].queued = FALSE, ![s].issued = TRUE] = [rr EXCEPT ![s] = y]
  BY <1>1, <1>2
<1>7. [rr EXCEPT ![s].queued = FALSE, ![s].issued = TRUE, ![s].completed = TRUE]
         = [rr EXCEPT ![s] = z]
  BY <1>1, <1>2
<1>8. Issuing(rr, [rr EXCEPT ![s] = y], s, rr[s].completed)
  BY <1>1, <1>4 DEF Issuing
<1>9. Issuing(rr, [rr EXCEPT ![s] = z], s, TRUE)
  BY <1>1, <1>5 DEF Issuing
<1> QED
  BY <1>6, <1>7, <1>8, <1>9

\* Then the station leaves the ready list.
LEMMA IssueLeaves ==
    ASSUME Inv, node # <<>>, RSLINK_VALID(rs, Head(node)), NEW c,
           Issuing(rs, rs', Head(node).rs, c), panics' = panics,
           UNCHANGED <<ready_queue, create_vector, spec_create_vector, use_spec_cv>>
    PROVE  Leaving(World, World', node, Head(node).rs)
<1>1. /\ World \in Worlds /\ World.rs = rs /\ World.ready_queue = ready_queue
      /\ World.create_vector = create_vector /\ World.use_spec_cv = use_spec_cv
      /\ World.spec_create_vector = spec_create_vector /\ World.panics = panics
  BY InvFacts
<1>2. /\ World'.rs = rs' /\ World'.ready_queue = ready_queue'
      /\ World'.create_vector = create_vector' /\ World'.use_spec_cv = use_spec_cv'
      /\ World'.spec_create_vector = spec_create_vector'
  BY DEF World
<1>3. World' \in Worlds
  <2>1. /\ create_vector \in [Regs -> CVLink] /\ spec_create_vector \in [Regs -> CVLink]
        /\ use_spec_cv \subseteq Regs /\ ready_queue \in Seq(RLink) /\ panics \subseteq Messages
    BY <1>1 DEF Worlds
  <2>2. rs' \in [Stations -> RSType]
    BY DEF Issuing
  <2> QED
    BY <2>1, <2>2 DEF Worlds, World
<1>4. PICK s : s = Head(node).rs
  OBVIOUS
<1>5. s \in Stations /\ Ref(rs, node, 1, s)
  BY <1>4, NodeReady
<1>6. Issuing(rs, rs', s, c)
  BY <1>4
<1>7. Marked(World, World', s)
  BY <1>1, <1>2, <1>3, <1>6 DEF Marked, Issuing
<1> QED
  BY <1>1, <1>2, <1>4, <1>5, <1>6, <1>7 DEF Leaving, Issuing

\* An instruction that was queued and issues.
LEMMA IssueSteady ==
    ASSUME NEW rr, NEW r2, NEW A \in SUBSET Stations, NEW s, NEW c, Issuing(rr, r2, s, c),
           rr[s].queued, rr[s].recover_inst => c = rr[s].completed
    PROVE  Steady(rr, r2, A)
<1>1. ASSUME NEW x \in A, x # s PROVE r2[x] = rr[x]
  BY <1>1 DEF Issuing
<1> QED
  BY <1>1 DEF Steady, Issuing, Onward

\* The event of an operation is put in its place.
LEMMA EventInserted ==
    ASSUME event_queue \in Seq(Event), NEW l \in RLink, NEW lat \in Nat,
           eventq_queue_event(l, lat)
    PROVE  LET e == [rs |-> l.rs, tag |-> l.tag, when |-> lat]
           IN  e \in Event /\ Inserted(event_queue, e, event_queue')
<1> DEFINE e == [rs |-> l.rs, tag |-> l.tag, when |-> lat]
           I == {i \in 1..Len(event_queue) : event_queue[i].when >= lat}
           i == IF I # {} THEN Min(I) ELSE 0
<1>1. e \in Event
  BY DEF Event, RLink
<1>2. Len(event_queue) \in Nat
  OBVIOUS
<1>3. I # {} => Min(I) \in I
  BY <1>2, MinIndex
<1>4. i \in 0..Len(event_queue)
  <2>1. PICK m : m = Min(I)
    OBVIOUS
  <2>2. I # {} => m \in 1..Len(event_queue)
    BY <1>3, <2>1
  <2> HIDE DEF I
  <2> QED
    BY <1>2, <2>1, <2>2
<1>5. event_queue' = Insert(event_queue, e, i)
  BY DEF eventq_queue_event, SelectInSeq
<1> HIDE DEF e, i
<1>6. Inserted(event_queue, e, Insert(event_queue, e, i))
  BY <1>1, <1>4, InsertInserts
<1> QED
  BY <1>1, <1>5, <1>6 DEF e

\* ruu_issue() of a store.
LEMMA IssueStoreInv ==
    ASSUME Inv, node # <<>>, RSLINK_VALID(rs, Head(node)), Store(rs[Head(node).rs]),
           Issuing(rs, rs', Head(node).rs, TRUE), panics' = panics,
           UNCHANGED <<ready_queue, create_vector, spec_create_vector, use_spec_cv>>
    PROVE  Core(World', Live, Tail(node), event_queue) /\ Steady(rs, rs', Live)
<1>1. PICK s : s = Head(node).rs
  OBVIOUS
<1>2. /\ s \in Live /\ s \in Stations /\ rs[s].queued
  BY <1>1, NodeReady
<1>3. Leaving(World, World', node, s)
  BY <1>1, IssueLeaves
<1>4. World.rs = rs /\ World'.rs = rs'
  BY DEF World
<1>5. Kinded(rs, Live, inst_seq) /\ Live \subseteq Stations
  BY LiveFacts DEF Inv, Window
<1>6. /\ rs[s].onames[1] = NA /\ rs[s].onames[2] = NA /\ ~rs[s].recover_inst
  BY <1>1, <1>2, <1>5 DEF Kinded, Store
<1>7. rs'[s].completed = TRUE /\ Issuing(rs, rs', s, TRUE)
  BY <1>1 DEF Issuing
<1>8. Core(World', Live, Tail(node), event_queue)
  <2>1. PICK w, v : w = World /\ v = World'
    OBVIOUS
  <2>2. /\ Core(w, Live, node, event_queue) /\ Leaving(w, v, node, s)
        /\ v.rs[s].completed = TRUE /\ w.rs[s].onames[1] = NA /\ w.rs[s].onames[2] = NA
    BY <1>3, <1>4, <1>6, <1>7, <2>1 DEF Inv
  <2>3. Core(v, Live, Tail(node), event_queue)
    BY <2>2, StoreCore
  <2> QED
    BY <2>1, <2>3
<1>9. Steady(rs, rs', Live)
  BY <1>2, <1>5, <1>6, <1>7, IssueSteady
<1> QED
  BY <1>8, <1>9

\* ruu_issue() of any other operation.
LEMMA IssueExecInv ==
    ASSUME Inv, node # <<>>, RSLINK_VALID(rs, Head(node)),
           Issuing(rs, rs', Head(node).rs, rs[Head(node).rs].completed), panics' = panics,
           UNCHANGED <<ready_queue, create_vector, spec_create_vector, use_spec_cv>>,
           NEW lat \in Nat, eventq_queue_event(Head(node), lat)
    PROVE  Core(World', Live, Tail(node), event_queue') /\ Steady(rs, rs', Live)
<1>1. PICK l, s : l = Head(node) /\ s = l.rs
  OBVIOUS
<1>2. /\ s \in Live /\ s \in Stations /\ rs[s].queued /\ Ref(rs, node, 1, s)
      /\ l = node[1] /\ 1 \in DOMAIN node
  BY <1>1, NodeReady
<1>3. Leaving(World, World', node, s)
  BY <1>1, IssueLeaves
<1>4. World.rs = rs /\ World'.rs = rs'
  BY DEF World
<1>5. Live \subseteq Stations
  BY LiveFacts DEF Inv
<1>6. l \in RLink /\ event_queue \in Seq(Event) /\ l.tag = rs[s].tag
  BY <1>2, InvFacts DEF Ref
<1>7. PICK e : e = [rs |-> l.rs, tag |-> l.tag, when |-> lat]
  OBVIOUS
<1>8. e \in Event /\ Inserted(event_queue, e, event_queue')
  BY <1>1, <1>6, <1>7, EventInserted
<1>9. e.rs = s /\ e.tag = rs[s].tag
  BY <1>1, <1>6, <1>7
<1>10. Issuing(rs, rs', s, rs[s].completed)
  BY <1>1
<1>11. Core(World', Live, Tail(node), event_queue')
  <2>1. PICK w, v, e2 : w = World /\ v = World' /\ e2 = event_queue'
    OBVIOUS
  <2>2. /\ Core(w, Live, node, event_queue) /\ Leaving(w, v, node, s)
        /\ v.rs[s].completed = w.rs[s].completed /\ e.tag = w.rs[s].tag
        /\ Inserted(event_queue, e, e2)
    BY <1>3, <1>4, <1>8, <1>9, <1>10, <2>1 DEF Inv, Issuing
  <2>3. Core(v, Live, Tail(node), e2)
    BY <1>8, <1>9, <2>2, IssueCore
  <2> QED
    BY <2>1, <2>3
<1>12. Steady(rs, rs', Live)
  BY <1>2, <1>5, <1>10, IssueSteady
<1> QED
  BY <1>11, <1>12

\* ruu_issue() of a link that is stale, or of an operation without a unit.
LEMMA IssueBackInv ==
    ASSUME Inv, node # <<>>, rs' = Requeue(World, Head(node)).rs,
           ready_queue' = Requeue(World, Head(node)).ready_queue, panics' = panics,
           UNCHANGED <<create_vector, spec_create_vector, use_spec_cv>>
    PROVE  Core(World', Live, Tail(node), event_queue) /\ Steady(rs, rs', Live)
<1>1. /\ World \in Worlds /\ World.rs = rs /\ World.ready_queue = ready_queue
      /\ World.create_vector = create_vector /\ World.use_spec_cv = use_spec_cv
      /\ World.spec_create_vector = spec_create_vector /\ World.panics = panics
      /\ node \in Seq(RLink) /\ Core(World, Live, node, event_queue)
  BY InvFacts
<1>2. /\ World'.rs = rs' /\ World'.ready_queue = ready_queue'
      /\ World'.create_vector = create_vector' /\ World'.use_spec_cv = use_spec_cv'
      /\ World'.spec_create_vector = spec_create_vector'
  BY DEF World
<1>3. Head(node) = node[1] /\ node[1] \in RLink
  BY <1>1
<1>4. PICK w, l : w = World /\ l = node[1]
  OBVIOUS
<1>5. /\ Requeue(w, l).rs \in [Stations -> RSType]
      /\ Requeue(w, l).ready_queue \in Seq(RLink)
  <2>1. CASE ~RSLINK_VALID(w.rs, l)
    BY <1>1, <1>4, <2>1 DEF Requeue, Worlds
  <2>2. CASE RSLINK_VALID(w.rs, l)
    <3>1. l.rs \in Stations /\ w \in Worlds
      BY <1>1, <1>3, <1>4 DEF RLink
    <3>2. PICK y : y = [w EXCEPT !.rs[l.rs].queued = FALSE]
      OBVIOUS
    <3>3. y \in Worlds
      <4>1. w.rs \in [Stations -> RSType] /\ w.rs[l.rs] \in RSType
        BY <3>1 DEF Worlds
      <4>2. [w.rs[l.rs] EXCEPT !.queued = FALSE] \in RSType
        BY <4>1 DEF RSType
      <4>3. [w.rs EXCEPT ![l.rs].queued = FALSE] \in [Stations -> RSType]
        BY <4>1, <4>2
      <4>4. y = [w EXCEPT !.rs = [w.rs EXCEPT ![l.rs].queued = FALSE]]
        BY <3>1, <3>2 DEF Worlds
      <4> QED
        BY <3>1, <4>3, <4>4 DEF Worlds
    <3>4. readyq_enqueue(y, l.rs) \in Worlds
      BY <3>1, <3>3, Enqueue
    <3>5. Requeue(w, l) = readyq_enqueue(y, l.rs)
      BY <2>2, <3>2 DEF Requeue
    <3> QED
      BY <3>4, <3>5 DEF Worlds
  <2> QED
    BY <2>1, <2>2
<1>6. World' \in Worlds
  <2>1. /\ create_vector \in [Regs -> CVLink] /\ spec_create_vector \in [Regs -> CVLink]
        /\ use_spec_cv \subseteq Regs /\ panics \subseteq Messages
    BY <1>1 DEF Worlds
  <2>2. rs' \in [Stations -> RSType] /\ ready_queue' \in Seq(RLink)
    BY <1>3, <1>4, <1>5
  <2> QED
    BY <2>1, <2>2 DEF Worlds, World
<1>7. PICK v : v = World'
  OBVIOUS
<1>8. Core(v, Live, Tail(node), event_queue) /\ v.rs = w.rs
  <2>1. /\ v \in Worlds /\ v.rs = Requeue(w, node[1]).rs
        /\ v.ready_queue = Requeue(w, node[1]).ready_queue
        /\ v.create_vector = w.create_vector /\ v.use_spec_cv = w.use_spec_cv
        /\ v.spec_create_vector = w.spec_create_vector /\ Core(w, Live, node, event_queue)
    BY <1>1, <1>2, <1>3, <1>4, <1>6, <1>7
  <2> QED
    BY <2>1, RequeueFirst
<1>9. rs' = rs
  BY <1>1, <1>2, <1>4, <1>7, <1>8
<1> QED
  BY <1>7, <1>8, <1>9, Unmoved

\* ruu_issue().
LEMMA IssueInv ==
    ASSUME Inv, ruu_issue
    PROVE  Inv' /\ panics' = panics /\ Steady(rs, rs', Live)
<1> DEFINE l == Head(node)
           s == l.rs
           r == rs[s]
<1>1. /\ node # <<>> /\ node' = Tail(node) /\ stage = "issue" /\ stage' = stage
      /\ UNCHANGED <<RUU_head, RUU_num, LSQ_head, LSQ_num, create_vector,
                     spec_create_vector, use_spec_cv, spec_mode, inst_seq, options>>
  BY DEF ruu_issue, renames, control
<1>2. options \in Options /\ busy \in [Units -> Nat] /\ count \in Nat
      /\ count + 1 \in Nat /\ rs \in [Stations -> RSType] /\ World.rs = rs
      /\ World.ready_queue = ready_queue
  BY InvFacts DEF Types
<1>3. RSLINK_VALID(rs, l) => /\ s \in Stations /\ s \in Live /\ OPERANDS_READY(r)
                             /\ r.queued /\ ~r.issued /\ ~r.completed
  BY <1>1, NodeReady
<1>4. SUFFICES Core(World', Live, node', event_queue') /\ Steady(rs, rs', Live)
               /\ busy' \in [Units -> Nat] /\ count' \in Nat /\ panics' = panics
  BY <1>1, <1>2, <1>4, SteadyInv
<1>5. CASE /\ ~RSLINK_VALID(rs, l)
           /\ UNCHANGED <<rs, ready_queue, event_queue, units, count, panics>>
  <2>1. Requeue(World, l) = World
    BY <1>2, <1>5 DEF Requeue
  <2>2. rs' = Requeue(World, l).rs /\ ready_queue' = Requeue(World, l).ready_queue
    BY <1>2, <1>5, <2>1
  <2> QED
    BY <1>1, <1>2, <1>5, <2>2, IssueBackInv DEF units
<1>6. CASE /\ RSLINK_VALID(rs, l) /\ in_LSQ(s) /\ Store(r)
           /\ rs' = [rs EXCEPT ![s].queued = FALSE, ![s].issued = TRUE,
                               ![s].completed = TRUE]
           /\ panics' = IssuePanics(r, 1)
           /\ count' = count + 1
           /\ UNCHANGED <<ready_queue, event_queue, units>>
  <2>1. panics' = panics
    <3>1. 1 \in Nat \ {0}
      OBVIOUS
    <3> QED
      BY <1>3, <1>6, <3>1, NoIssuePanic
  <2>2. Issuing(rs, rs', s, TRUE)
    BY <1>2, <1>3, <1>6, IssueMarks
  <2> QED
    BY <1>1, <1>2, <1>6, <2>1, <2>2, IssueStoreInv DEF units
<1>7. CASE /\ RSLINK_VALID(rs, l) /\ ~Store(r) /\ ~NoUnit(r)
           /\ rs' = [rs EXCEPT ![s].queued = FALSE, ![s].issued = TRUE]
           /\ LET t == FuTable[r.fu][res_get(r.fu)] IN
              \E lat \in IF r.fu = NA THEN {1}
                         ELSE IF ~in_LSQ(s) THEN {t.oplat}
                         ELSE IF Forwards(s) THEN {1} \cup LoadLats
                         ELSE LoadLats :
                 /\ eventq_queue_event(l, lat)
                 /\ panics' = IssuePanics(r, lat)
           /\ IF r.fu = NA THEN UNCHANGED units
                           ELSE Reserve(FuTable[r.fu][res_get(r.fu)])
           /\ count' = count + 1
           /\ UNCHANGED ready_queue
  <2>1. r.fu = NA \/ (r.fu \in DOMAIN FuTable /\ res_get(r.fu) # 0)
    <3>1. r \in RSType
      BY <1>2, <1>3, <1>7
    <3>2. r.fu \in DOMAIN FuTable \cup {NA}
      BY <3>1 DEF RSType
    <3> QED
      BY <1>7, <3>2 DEF NoUnit
  <2>2. PICK lat \in IF r.fu = NA THEN {1}
                     ELSE IF ~in_LSQ(s) THEN {FuTable[r.fu][res_get(r.fu)].oplat}
                     ELSE IF Forwards(s) THEN {1} \cup LoadLats
                     ELSE LoadLats :
                 /\ eventq_queue_event(l, lat)
                 /\ panics' = IssuePanics(r, lat)
    BY <1>7
  <2>3. lat \in Nat \ {0}
    <3>1. 1 \in Nat \ {0} /\ LoadLats \subseteq Nat \ {0}
      BY RuuAssumption
    <3>2. r.fu # NA => FuTable[r.fu][res_get(r.fu)].oplat \in Nat \ {0}
      BY <2>1, TemplateFound
    <3> QED
      BY <2>2, <3>1, <3>2
  <2>4. panics' = panics
    BY <1>3, <1>7, <2>2, <2>3, NoIssuePanic
  <2>5. busy' \in [Units -> Nat]
    BY <1>2, <1>7, <2>1, ReserveType DEF units
  <2>6. Issuing(rs, rs', s, r.completed)
    BY <1>2, <1>3, <1>7, IssueMarks
  <2>7. Core(World', Live, Tail(node), event_queue') /\ Steady(rs, rs', Live)
    <3>1. lat \in Nat
      BY <2>3
    <3> QED
      BY <1>1, <1>7, <2>2, <3>1, <2>4, <2>6, IssueExecInv
  <2> QED
    BY <1>1, <1>2, <1>7, <2>4, <2>5, <2>7
<1>8. CASE /\ RSLINK_VALID(rs, l) /\ NoUnit(r)
           /\ LET w == readyq_enqueue([World EXCEPT !.rs[s].queued = FALSE], s)
              IN  rs' = w.rs /\ ready_queue' = w.ready_queue
           /\ panics' = IssuePanics(r, 1)
           /\ UNCHANGED <<event_queue, units, count>>
  <2>1. panics' = panics
    <3>1. 1 \in Nat \ {0}
      OBVIOUS
    <3> QED
      BY <1>3, <1>8, <3>1, NoIssuePanic
  <2>2. Requeue(World, l) = readyq_enqueue([World EXCEPT !.rs[s].queued = FALSE], s)
    BY <1>2, <1>8 DEF Requeue
  <2>3. rs' = Requeue(World, l).rs /\ ready_queue' = Requeue(World, l).ready_queue
    BY <1>8, <2>2
  <2> QED
    BY <1>1, <1>2, <1>8, <2>1, <2>3, IssueBackInv DEF units
<1> QED
  BY <1>5, <1>6, <1>7, <1>8 DEF ruu_issue

-----------------------------------------------------------------------------
\* A buffer without its oldest entry.
LEMMA SlotsTail ==
    ASSUME NEW q, NEW q2, NEW n \in Nat \ {0}, \A k \in 1..n-1 : q2[k] = q[k + 1],
           Distinct(q, n), NEW rr, NEW r2, Ordered(rr, q, n),
           \A k \in 1..n-1 : r2[q2[k]].seq = rr[q2[k]].seq
    PROVE  Slots(q2, n - 1) = Slots(q, n) \ {q[1]} /\ Ordered(r2, q2, n - 1)
<1>1. \A k \in 1..n-1 : k + 1 \in 1..n /\ k + 1 # 1
  OBVIOUS
<1>2. 1 \in 1..n /\ \A k \in 1..n : k # 1 => k - 1 \in 1..n-1 /\ (k - 1) + 1 = k
  OBVIOUS
<1>3. ASSUME NEW x \in Slots(q2, n - 1) PROVE x \in Slots(q, n) \ {q[1]}
  <2>1. PICK k \in 1..n-1 : x = q2[k]
    BY DEF Slots
  <2>2. x = q[k + 1]
    BY <2>1
  <2>3. x # q[1]
    BY <1>1, <1>2, <2>2 DEF Distinct
  <2> QED
    BY <1>1, <2>2, <2>3 DEF Slots
<1>4. ASSUME NEW x \in Slots(q, n) \ {q[1]} PROVE x \in Slots(q2, n - 1)
  <2>1. PICK k \in 1..n : x = q[k]
    BY DEF Slots
  <2>2. k # 1
    BY <2>1
  <2>3. PICK j \in 1..n-1 : j + 1 = k
    BY <1>2, <2>2
  <2>4. x = q2[j]
    BY <2>1, <2>3
  <2> QED
    BY <2>4 DEF Slots
<1>5. Ordered(r2, q2, n - 1)
  <2> SUFFICES ASSUME NEW j \in 1..n-1, NEW k \in 1..n-1, j < k
               PROVE  r2[q2[j]].seq < r2[q2[k]].seq
    BY DEF Ordered
  <2>1. rr[q[j + 1]].seq < rr[q[k + 1]].seq
    <3>1. PICK a \in 1..n, b \in 1..n : a = j + 1 /\ b = k + 1
      BY <1>1
    <3>2. a < b
      BY <3>1
    <3>3. rr[q[a]].seq < rr[q[b]].seq
      BY <3>2 DEF Ordered
    <3> QED
      BY <3>1, <3>3
  <2>2. q2[j] = q[j + 1] /\ q2[k] = q[k + 1]
    OBVIOUS
  <2> QED
    BY <2>1, <2>2
<1> QED
  BY <1>3, <1>4, <1>5

\* The stations that ruu_commit() frees: r, and l if r computes an address.
Retiring(rr, r, l) == {r} \cup (IF rr[r].ea_comp THEN {l} ELSE {})

\* They are the oldest instructions, complete and not speculative.
Oldest(rr, A, gone) ==
    /\ gone \subseteq A
    /\ \A p \in gone : rr[p].completed /\ ~rr[p].spec_mode
    /\ \A p \in gone, x \in A \ gone : rr[p].seq < rr[x].seq

\* All sequence numbers of the stations in use are numbers.
LEMMA SeqNat ==
    ASSUME Inv
    PROVE  \A x \in Live : rs[x].seq \in Nat
<1>1. inst_seq \in Nat /\ Kinded(rs, Live, inst_seq)
  BY DEF Inv, Types, Window
<1> QED
  BY <1>1 DEF Kinded

\* The head of the RUU is the oldest instruction.
LEMMA HeadOldest ==
    ASSUME Inv, RUU_num > 0
    PROVE  /\ RUU(RUU_head) = RuuLive[1] /\ RUU(RUU_head) \in Live /\ ~in_LSQ(RUU(RUU_head))
           /\ \A x \in Live : x # RUU(RUU_head) => rs[RUU(RUU_head)].seq < rs[x].seq
<1>1. Types
  BY DEF Inv
<1>2. /\ RUU_num \in Nat /\ RUU_head \in Nat /\ Live = Slots(RuuLive, RUU_num) \cup Slots(LsqLive, LSQ_num)
      /\ \A x \in Live : /\ in_LSQ(x) <=> x \in Slots(LsqLive, LSQ_num)
                         /\ ~in_LSQ(x) <=> x \in Slots(RuuLive, RUU_num)
  BY <1>1, LiveFacts
<1>3. PICK r : r = RuuLive[1]
  OBVIOUS
<1>4. 1 \in 1..RUU_num /\ RUU_head + 1 - 1 = RUU_head
  BY <1>2
<1>5. RUU(RUU_head) = r
  BY <1>3, <1>4 DEF RuuLive
<1>6. r \in Slots(RuuLive, RUU_num)
  BY <1>3, <1>4 DEF Slots
<1>7. r \in Live /\ ~in_LSQ(r)
  BY <1>2, <1>6
<1>8. ASSUME NEW x \in Live, ~in_LSQ(x), x # r PROVE rs[r].seq < rs[x].seq
  <2>1. PICK k \in 1..RUU_num : x = RuuLive[k]
    BY <1>2, <1>8 DEF Slots
  <2>2. k # 1
    BY <1>3, <1>8, <2>1
  <2>3. 1 < k
    BY <2>2
  <2>4. Ordered(rs, RuuLive, RUU_num)
    BY DEF Inv
  <2> QED
    BY <1>3, <1>4, <2>1, <2>3, <2>4 DEF Ordered
<1>9. ASSUME NEW x \in Live, in_LSQ(x) PROVE rs[r].seq < rs[x].seq
  <2>1. Paired(rs, Live)
    BY DEF Inv, Window
  <2>2. PICK a \in Live : Half(rs, a, x)
    BY <1>9, <2>1 DEF Paired
  <2>3. ~in_LSQ(a) /\ rs[x].seq = rs[a].seq + 1
    BY <2>2 DEF Half
  <2>4. a = r \/ rs[r].seq < rs[a].seq
    BY <1>8, <2>3
  <2>5. rs[a].seq \in Nat /\ rs[r].seq \in Nat
    BY <1>7, SeqNat
  <2>6. PICK m \in Nat, n \in Nat : m = rs[a].seq /\ n = rs[r].seq
    BY <2>5
  <2> QED
    BY <2>3, <2>4, <2>6
<1> QED
  BY <1>3, <1>5, <1>7, <1>8, <1>9

\* The head of the LSQ is the memory half of an address computation that is
\* the head of the RUU.
LEMMA HeadHalf ==
    ASSUME Inv, RUU_num > 0, rs[RUU(RUU_head)].ea_comp
    PROVE  /\ LSQ_num > 0 /\ LSQ(LSQ_head) = LsqLive[1] /\ LSQ(LSQ_head) \in Live
           /\ Half(rs, RUU(RUU_head), LSQ(LSQ_head))
<1>1. PICK r : r = RUU(RUU_head)
  OBVIOUS
<1>2. r \in Live /\ \A x \in Live : x # r => rs[r].seq < rs[x].seq
  BY <1>1, HeadOldest
<1>3. /\ LSQ_num \in Nat /\ LSQ_head \in Nat
      /\ Live = Slots(RuuLive, RUU_num) \cup Slots(LsqLive, LSQ_num)
      /\ \A x \in Live : in_LSQ(x) <=> x \in Slots(LsqLive, LSQ_num)
  BY LiveFacts DEF Inv
<1>4. PICK l \in Live : Half(rs, r, l)
  BY <1>1, <1>2 DEF Inv, Window, Paired
<1>5. in_LSQ(l) /\ ~in_LSQ(r) /\ rs[l].seq = rs[r].seq + 1
  BY <1>4 DEF Half
<1>6. PICK k \in 1..LSQ_num : l = LsqLive[k]
  BY <1>3, <1>4, <1>5 DEF Slots
<1>7. LSQ_num > 0 /\ 1 \in 1..LSQ_num /\ LSQ_head + 1 - 1 = LSQ_head
  BY <1>3
<1>8. LSQ(LSQ_head) = LsqLive[1]
  BY <1>7 DEF LsqLive
<1>9. PICK m : m = LsqLive[1]
  OBVIOUS
<1>10. m \in Live /\ m # r
  BY <1>3, <1>5, <1>7, <1>9 DEF Slots
<1>11. m = l
  <2>1. k = 1 => m = l
    BY <1>6, <1>9
  <2>2. ASSUME k # 1 PROVE FALSE
    <3>1. 1 < k
      BY <2>2
    <3>2. rs[m].seq < rs[l].seq
      BY <1>6, <1>7, <1>9, <3>1 DEF Inv, Ordered
    <3>3. rs[r].seq < rs[m].seq
      BY <1>2, <1>10
    <3>4. PICK a \in Nat, b \in Nat : a = rs[r].seq /\ b = rs[m].seq
      BY <1>2, <1>10, SeqNat
    <3> QED
      BY <1>5, <3>2, <3>3, <3>4
  <2> QED
    BY <2>1, <2>2
<1> QED
  BY <1>1, <1>4, <1>7, <1>8, <1>9, <1>10, <1>11

\* What ruu_commit() frees may leave.
LEMMA CommitOldest ==
    ASSUME Inv, CanCommit
    PROVE  Oldest(rs, Live, Retiring(rs, RUU(RUU_head), LSQ(LSQ_head)))
<1> DEFINE r == RUU(RUU_head)
           l == LSQ(LSQ_head)
<1>1. RUU_num > 0 /\ rs[r].completed
  BY DEF CanCommit, CommitHead
<1>2. r \in Live /\ \A x \in Live : x # r => rs[r].seq < rs[x].seq
  BY <1>1, HeadOldest
<1>3. rs[r].ea_comp => /\ l \in Live /\ Half(rs, r, l) /\ rs[l].completed
  <2> SUFFICES ASSUME rs[r].ea_comp PROVE l \in Live /\ Half(rs, r, l) /\ rs[l].completed
    OBVIOUS
  <2>1. LSQ_num > 0 /\ l \in Live /\ Half(rs, r, l) /\ LSQ_num \in Nat
    BY <1>1, HeadHalf, LiveFacts DEF Inv
  <2>2. LSQ_num # 0
    BY <2>1
  <2> QED
    BY <2>1, <2>2 DEF CanCommit, CommitHead, CommitMem
<1>4. \A x \in Live : rs[x].seq \in Nat
  BY SeqNat
<1> HIDE DEF r, l
<1>5. \A x, y \in Live : rs[x].seq = rs[y].seq => x = y
  BY InvFacts DEF Structure
<1>6. ASSUME NEW x \in Live, rs[r].ea_comp, x # r, x # l PROVE rs[l].seq < rs[x].seq
  <2>1. rs[l].seq = rs[r].seq + 1 /\ l \in Live
    BY <1>3, <1>6 DEF Half
  <2>2. rs[r].seq < rs[x].seq /\ rs[x].seq # rs[l].seq
    BY <1>2, <1>5, <1>6, <2>1
  <2>3. PICK a \in Nat, b \in Nat : a = rs[r].seq /\ b = rs[x].seq
    BY <1>2, <1>4
  <2> QED
    BY <2>1, <2>2, <2>3
<1>7. ASSUME NEW b \in Live, Open(rs, b) PROVE b # r
  BY <1>1, <1>7 DEF Open
<1>8. \A x \in Live : rs[x].spec_mode <=>
                          \E b \in Live : Open(rs, b) /\ rs[b].seq < rs[x].seq
  BY DEF Inv, Window, Bounded
<1>9. ~rs[r].spec_mode
  <2> SUFFICES ASSUME NEW b \in Live, Open(rs, b), rs[b].seq < rs[r].seq PROVE FALSE
    BY <1>2, <1>8
  <2>1. rs[r].seq < rs[b].seq
    BY <1>2, <1>7
  <2>2. PICK m \in Nat, n \in Nat : m = rs[r].seq /\ n = rs[b].seq
    BY <1>2, <1>4
  <2> QED
    BY <2>1, <2>2
<1>10. rs[r].ea_comp => ~rs[l].spec_mode
  <2> SUFFICES ASSUME rs[r].ea_comp, NEW b \in Live, Open(rs, b), rs[b].seq < rs[l].seq
               PROVE  FALSE
    BY <1>3, <1>8
  <2>1. rs[r].seq < rs[b].seq /\ rs[l].seq = rs[r].seq + 1
    BY <1>2, <1>3, <1>7 DEF Half
  <2>2. PICK m \in Nat, n \in Nat : m = rs[r].seq /\ n = rs[b].seq
    BY <1>2, <1>4
  <2> QED
    BY <2>1, <2>2
<1>11. Oldest(rs, Live, Retiring(rs, r, l))
  BY <1>1, <1>2, <1>3, <1>6, <1>9, <1>10 DEF Oldest, Retiring
<1> QED
  BY <1>11 DEF r, l

\* The fields of a station without consumers; retiring it is squashing it.
LEMMA RetiredSquashed ==
    ASSUME NEW r \in RSType, r.odep_list[1] = <<>>, r.odep_list[2] = <<>>
    PROVE  Retired(r) = Squashed(r)
<1>1. r.odep_list \in [1..2 -> Seq(OLink)] /\ r.tag \in Nat
  BY DEF RSType
<1>2. r.odep_list = << <<>>, <<>> >>
  <2>1. PICK f, S : f = r.odep_list /\ S = Seq(OLink)
    OBVIOUS
  <2>2. f \in [1..2 -> S] /\ f[1] = <<>> /\ f[2] = <<>>
    BY <1>1, <2>1
  <2>3. PICK e : e = <<>>
    OBVIOUS
  <2>4. f = <<e, e>>
    BY <2>2, <2>3
  <2> QED
    BY <2>1, <2>3, <2>4
<1>3. PICK n, o : n = r.tag + 1 /\ o = << <<>>, <<>> >>
  OBVIOUS
<1>4. Retired(r) = [Blank EXCEPT !.tag = n, !.odep_list = o]
  BY <1>2, <1>3 DEF Retired
<1>5. Squashed(r) = [Blank EXCEPT !.tag = n]
  BY <1>3 DEF Squashed
<1>6. Blank.odep_list = o
  BY <1>3 DEF Blank
<1>7. [Blank EXCEPT !.tag = n, !.odep_list = o] = [Blank EXCEPT !.tag = n]
  <2>1. PICK b \in RSType : b = Blank
    BY BlankType
  <2>2. b = [kind |-> b.kind, fu |-> b.fu, longlat |-> b.longlat, addr |-> b.addr,
            ea_comp |-> b.ea_comp, recover_inst |-> b.recover_inst,
            spec_mode |-> b.spec_mode, tag |-> b.tag, seq |-> b.seq,
            queued |-> b.queued, issued |-> b.issued, completed |-> b.completed,
            onames |-> b.onames, odep_list |-> o, idep_ready |-> b.idep_ready]
    BY <1>6, <2>1 DEF RSType
  <2>3. [b EXCEPT !.odep_list = o] = b
    BY <1>6, <2>1, <2>2
  <2>4. [b EXCEPT !.tag = n, !.odep_list = o] = [[b EXCEPT !.odep_list = o] EXCEPT !.tag = n]
    BY <2>2
  <2> QED
    BY <2>1, <2>3, <2>4
<1> QED
  BY <1>4, <1>5, <1>7

\* What ruu_commit() does to the state that the helpers know.
LEMMA CommitCore ==
    ASSUME Inv, ruu_commit
    PROVE  LET gone == Retiring(rs, RUU(RUU_head), LSQ(LSQ_head))
           IN  /\ Core(World', Live \ gone, node', event_queue')
               /\ Window(rs', Live \ gone, spec_mode', inst_seq')
               /\ \A x \in Live \ gone : rs'[x] = rs[x]
               /\ panics' = panics
<1> DEFINE r == RUU(RUU_head)
           l == LSQ(LSQ_head)
           gone == Retiring(rs, r, l)
<1>1. CanCommit /\ RUU_num > 0
  BY DEF ruu_commit, CanCommit
<1>2. Oldest(rs, Live, gone) /\ (rs[r].ea_comp => LSQ_num > 0 /\ l \in Live /\ Half(rs, r, l))
      /\ r \in Live /\ ~in_LSQ(r)
  BY <1>1, CommitOldest, HeadHalf, HeadOldest
<1>3. /\ World \in Worlds /\ World.rs = rs /\ World.ready_queue = ready_queue
      /\ World.create_vector = create_vector /\ World.use_spec_cv = use_spec_cv
      /\ World.spec_create_vector = spec_create_vector /\ World.panics = panics
      /\ Core(World, Live, node, event_queue) /\ rs \in [Stations -> RSType]
      /\ Structure(World, Live) /\ panics \subseteq Messages
      /\ Window(rs, Live, spec_mode, inst_seq)
  BY InvFacts
<1>4. /\ World'.rs = rs' /\ World'.ready_queue = ready_queue'
      /\ World'.create_vector = create_vector' /\ World'.use_spec_cv = use_spec_cv'
      /\ World'.spec_create_vector = spec_create_vector'
  BY DEF World
<1>5. /\ rs' = [s \in Stations |-> IF s = r \/ (rs[r].ea_comp /\ s = l) THEN Retired(rs[s])
                                                                        ELSE rs[s]]
      /\ UNCHANGED <<ready_queue, event_queue, node, create_vector, spec_create_vector,
                     use_spec_cv, spec_mode, inst_seq>>
      /\ panics' = Panic(Panic(World, rs[r].ea_comp /\ LSQ_num = 0, "RUU out of sync with LSQ"),
                         \E k \in 1..2 : rs[r].odep_list[k] # <<>>,
                         "retired instruction has odeps").panics
  BY DEF ruu_commit, CommitHead, queues, renames, control
<1>6. Live \subseteq Stations /\ LSQ_num \in Nat
  BY LiveFacts DEF Inv
<1> HIDE DEF r, l
<1>7. \A s : s \in gone <=> s = r \/ (rs[r].ea_comp /\ s = l)
  BY DEF Retiring
<1>8. ChainsDone(rs)
  BY <1>3 DEF Structure
<1>9. \A p \in gone : p \in Stations /\ rs[p].odep_list[1] = <<>> /\ rs[p].odep_list[2] = <<>>
  <2>1. \A p \in gone : p \in Stations /\ rs[p].completed
    BY <1>2, <1>6 DEF Oldest
  <2> QED
    BY <1>8, <2>1 DEF ChainsDone
<1>10. panics' = panics
  <2>1. ~(rs[r].ea_comp /\ LSQ_num = 0)
    BY <1>2, <1>6
  <2>2. ~(\E k \in 1..2 : rs[r].odep_list[k] # <<>>)
    BY <1>7, <1>9
  <2>3. [World EXCEPT !.panics = panics] = World
    BY DEF World
  <2>4. Panic(World, rs[r].ea_comp /\ LSQ_num = 0, "RUU out of sync with LSQ")
           = [World EXCEPT !.panics = panics]
    BY <2>1 DEF Panic, World
  <2>5. Panic(World, \E k \in 1..2 : rs[r].odep_list[k] # <<>>, "retired instruction has odeps")
           = [World EXCEPT !.panics = panics]
    BY <2>2 DEF Panic, World
  <2> QED
    BY <1>3, <1>5, <2>3, <2>4, <2>5
<1>11. \A x \in Stations : rs'[x] = IF x \in gone THEN Squashed(rs[x]) ELSE rs[x]
  <2> SUFFICES ASSUME NEW x \in Stations
               PROVE  rs'[x] = IF x \in gone THEN Squashed(rs[x]) ELSE rs[x]
    OBVIOUS
  <2>1. rs'[x] = IF x \in gone THEN Retired(rs[x]) ELSE rs[x]
    BY <1>5, <1>7
  <2>2. x \in gone => Retired(rs[x]) = Squashed(rs[x])
    BY <1>3, <1>9, RetiredSquashed
  <2> QED
    BY <2>1, <2>2
<1>12. rs' \in [Stations -> RSType]
  <2>1. \A x \in Stations : rs'[x] \in RSType
    <3> SUFFICES ASSUME NEW x \in Stations PROVE rs'[x] \in RSType
      OBVIOUS
    <3>1. rs[x] \in RSType
      BY <1>3
    <3>2. Squashed(rs[x]) \in RSType
      BY <3>1, SquashedFields
    <3> QED
      BY <1>11, <3>1, <3>2
  <2>2. rs' = [x \in Stations |-> rs'[x]]
    BY <1>5
  <2> QED
    BY <2>1, <2>2
<1>13. World' \in Worlds
  <2>1. /\ create_vector \in [Regs -> CVLink] /\ spec_create_vector \in [Regs -> CVLink]
        /\ use_spec_cv \subseteq Regs /\ ready_queue \in Seq(RLink)
    BY <1>3 DEF Worlds
  <2> QED
    BY <1>3, <1>5, <1>10, <1>12, <2>1 DEF Worlds, World
<1>14. Freeing(World, World', Live, gone)
  BY <1>2, <1>3, <1>4, <1>5, <1>11, <1>13 DEF Freeing, Oldest
<1>15. MayFree(World, World', Live, gone)
  BY <1>2, <1>3, <1>4, <1>5 DEF MayFree, Oldest
<1>16. Core(World', Live \ gone, node, event_queue)
  BY <1>3, <1>14, <1>15, FreeCore
<1>17. \A x \in Live \ gone : rs'[x] = rs[x]
  BY <1>6, <1>11
<1>18. Separable(rs, rs', Live, gone)
  <2>1. \A x \in Live : rs[x].seq \in Nat
    BY SeqNat
  <2>2. ASSUME NEW a \in Live, NEW b \in Live, Half(rs, a, b) PROVE a \in gone <=> b \in gone
    <3>1. \A x, y \in Live : rs[x].seq = rs[y].seq => x = y
      BY <1>3 DEF Structure
    <3>2. ~in_LSQ(a) /\ in_LSQ(b) /\ rs[a].ea_comp /\ rs[b].seq = rs[a].seq + 1
      BY <2>2 DEF Half
    <3>3. rs[r].ea_comp => in_LSQ(l) /\ rs[l].seq = rs[r].seq + 1 /\ l \in Live
      BY <1>2 DEF Half
    <3>4. a = r => b \in gone
      <4> SUFFICES ASSUME a = r PROVE b \in gone
        OBVIOUS
      <4>1. rs[b].seq = rs[l].seq /\ l \in Live
        BY <3>2, <3>3
      <4>2. b = l
        BY <3>1, <4>1
      <4> QED
        BY <1>7, <3>2, <4>2
    <3>5. ASSUME rs[r].ea_comp, b = l PROVE a = r
      <4>1. rs[a].seq + 1 = rs[r].seq + 1
        BY <3>2, <3>3, <3>5
      <4>2. PICK m \in Nat, n \in Nat : m = rs[a].seq /\ n = rs[r].seq
        BY <1>2, <2>1
      <4>3. rs[a].seq = rs[r].seq
        BY <4>1, <4>2
      <4> QED
        BY <1>2, <3>1, <4>3
    <3>6. a \in gone => a = r
      BY <1>7, <3>2, <3>3
    <3>7. b \in gone => rs[r].ea_comp /\ b = l
      BY <1>2, <1>7, <3>2
    <3> QED
      BY <1>7, <3>4, <3>5, <3>6, <3>7
  <2>3. \A p \in gone : ~Open(rs, p)
    BY <1>2 DEF Oldest, Open
  <2> QED
    BY <1>2, <1>17, <2>1, <2>2, <2>3 DEF Separable, Oldest
<1>19. Window(rs', Live \ gone, spec_mode, inst_seq)
  BY <1>3, <1>18, WindowFree
<1>20. /\ Core(World', Live \ gone, node', event_queue')
       /\ Window(rs', Live \ gone, spec_mode', inst_seq')
  BY <1>5, <1>16, <1>19
<1> QED
  BY <1>10, <1>17, <1>20 DEF r, l

\* ruu_commit().
LEMMA CommitInv ==
    ASSUME Inv, ruu_commit
    PROVE  /\ Inv' /\ panics' = panics
           /\ \A k \in 1..RUU_num-1 : /\ RuuLive'[k] = RuuLive[k + 1]
                                      /\ rs'[RuuLive'[k]] = rs[RuuLive'[k]]
<1> DEFINE r == RUU(RUU_head)
           l == LSQ(LSQ_head)
           gone == Retiring(rs, r, l)
<1>1. /\ Core(World', Live \ gone, node', event_queue')
      /\ Window(rs', Live \ gone, spec_mode', inst_seq')
      /\ \A x \in Live \ gone : rs'[x] = rs[x]
      /\ panics' = panics
  BY CommitCore
<1>2. CanCommit /\ RUU_num > 0 /\ stage = "commit" /\ stage' = stage
  BY DEF ruu_commit, CanCommit
<1>3. /\ r = RuuLive[1] /\ r \in Live /\ ~in_LSQ(r)
      /\ rs[r].ea_comp => LSQ_num > 0 /\ l = LsqLive[1] /\ l \in Live /\ Half(rs, r, l)
  BY <1>2, HeadHalf, HeadOldest
<1>4. /\ RUU_head' = (RUU_head + 1) % RUU_size /\ RUU_num' = RUU_num - 1
      /\ count' = count + 1
      /\ UNCHANGED <<node, spec_mode, inst_seq, options>>
      /\ rs[r].ea_comp => LSQ_head' = (LSQ_head + 1) % LSQ_size /\ LSQ_num' = LSQ_num - 1
      /\ ~rs[r].ea_comp => LSQ_head' = LSQ_head /\ LSQ_num' = LSQ_num
  BY <1>3 DEF ruu_commit, CommitHead, queues, control
<1>5. /\ RUU_size \in Nat \ {0} /\ LSQ_size \in Nat \ {0}
      /\ RUU_num \in Nat /\ LSQ_num \in Nat /\ RUU_head \in Nat /\ LSQ_head \in Nat
      /\ Distinct(RuuLive, RUU_num) /\ Distinct(LsqLive, LSQ_num)
      /\ Live = Slots(RuuLive, RUU_num) \cup Slots(LsqLive, LSQ_num)
      /\ \A x \in Live : /\ in_LSQ(x) <=> x \in Slots(LsqLive, LSQ_num)
                         /\ ~in_LSQ(x) <=> x \in Slots(RuuLive, RUU_num)
  BY LiveFacts DEF Inv
<1>6. /\ RUU_head \in 0..RUU_size-1 /\ RUU_num \in 1..RUU_size
      /\ LSQ_head \in 0..LSQ_size-1 /\ LSQ_num \in 0..LSQ_size
      /\ rs[r].ea_comp => LSQ_num \in 1..LSQ_size
  BY <1>2, <1>3, <1>5 DEF Inv, Types
<1>7. /\ Ordered(rs, RuuLive, RUU_num) /\ Ordered(rs, LsqLive, LSQ_num)
      /\ stage # "issue" => node = <<>>
  BY DEF Inv
<1>8. /\ RUU_head' \in 0..RUU_size-1 /\ \A k \in 1..RUU_num-1 : RuuLive'[k] = RuuLive[k + 1]
  <2>1. /\ RuuLive = Ring("RUU", RUU_size, RUU_head, RUU_num)
        /\ RuuLive' = Ring("RUU", RUU_size, (RUU_head + 1) % RUU_size, RUU_num - 1)
    BY <1>4 DEF RuuLive, RUU, Ring
  <2> QED
    BY <1>4, <1>5, <1>6, <2>1, RingTail
<1>9. rs[r].ea_comp =>
        /\ LSQ_head' \in 0..LSQ_size-1 /\ \A k \in 1..LSQ_num-1 : LsqLive'[k] = LsqLive[k + 1]
  <2> SUFFICES ASSUME rs[r].ea_comp
               PROVE  /\ LSQ_head' \in 0..LSQ_size-1
                      /\ \A k \in 1..LSQ_num-1 : LsqLive'[k] = LsqLive[k + 1]
    OBVIOUS
  <2>1. /\ LsqLive = Ring("LSQ", LSQ_size, LSQ_head, LSQ_num)
        /\ LsqLive' = Ring("LSQ", LSQ_size, (LSQ_head + 1) % LSQ_size, LSQ_num - 1)
    BY <1>4 DEF LsqLive, LSQ, Ring
  <2> QED
    BY <1>4, <1>5, <1>6, <2>1, RingTail
<1>10. ~rs[r].ea_comp => LsqLive' = LsqLive
  BY <1>4 DEF LsqLive
<1>11. Live' = Slots(RuuLive', RUU_num') \cup Slots(LsqLive', LSQ_num')
  BY DEF Live, Slots, Range, RuuLive, LsqLive
<1> HIDE DEF r, l
<1>12. \A s : s \in gone <=> s = r \/ (rs[r].ea_comp /\ s = l)
  BY DEF Retiring
<1>13. \A x : x \in Slots(RuuLive, RUU_num) => x \in Live /\ ~in_LSQ(x)
  BY <1>5
<1>14. \A x : x \in Slots(LsqLive, LSQ_num) => x \in Live /\ in_LSQ(x)
  BY <1>5
<1>15. rs[r].ea_comp => in_LSQ(l)
  BY <1>3 DEF Half
<1>16. \A k \in 1..RUU_num-1 : rs'[RuuLive'[k]] = rs[RuuLive'[k]]
  <2> SUFFICES ASSUME NEW k \in 1..RUU_num-1
               PROVE  rs'[RuuLive'[k]] = rs[RuuLive'[k]]
    OBVIOUS
  <2>1. PICK a \in 1..RUU_num : a = k + 1
    BY <1>6
  <2>2. RuuLive'[k] = RuuLive[a] /\ a # 1 /\ 1 \in 1..RUU_num
    BY <1>6, <1>8, <2>1
  <2>3. RuuLive[a] # r
    BY <1>3, <1>5, <2>2 DEF Distinct
  <2>4. RuuLive[a] \in Slots(RuuLive, RUU_num)
    BY DEF Slots
  <2>5. RuuLive[a] \in Live \ gone
    BY <1>12, <1>13, <1>15, <2>3, <2>4
  <2> QED
    BY <1>1, <2>2, <2>5
<1>17. Slots(RuuLive', RUU_num - 1) = Slots(RuuLive, RUU_num) \ {r}
       /\ Ordered(rs', RuuLive', RUU_num - 1)
  <2>1. PICK q, q2, n, r2 : q = RuuLive /\ q2 = RuuLive' /\ n = RUU_num /\ r2 = rs'
    OBVIOUS
  <2>2. n \in Nat \ {0}
    BY <1>6, <2>1
  <2>3. Slots(q2, n - 1) = Slots(q, n) \ {q[1]} /\ Ordered(r2, q2, n - 1)
    BY <1>5, <1>7, <1>8, <1>16, <2>1, <2>2, SlotsTail
  <2> QED
    BY <1>3, <2>1, <2>3
<1>18. /\ Slots(LsqLive', LSQ_num') = Slots(LsqLive, LSQ_num) \ gone
       /\ Ordered(rs', LsqLive', LSQ_num')
  <2>1. CASE ~rs[r].ea_comp
    <3>1. gone = {r}
      BY <1>12, <2>1
    <3>2. Slots(LsqLive, LSQ_num) \ gone = Slots(LsqLive, LSQ_num)
      BY <1>3, <1>14, <3>1
    <3>3. \A k \in 1..LSQ_num : LsqLive[k] \in Live \ gone
      BY <1>14, <3>2 DEF Slots
    <3>4. Ordered(rs', LsqLive, LSQ_num)
      BY <1>1, <1>7, <3>3 DEF Ordered
    <3> QED
      BY <1>4, <1>10, <2>1, <3>2, <3>4
  <2>2. CASE rs[r].ea_comp
    <3>1. Slots(LsqLive, LSQ_num) \ gone = Slots(LsqLive, LSQ_num) \ {l}
      BY <1>3, <1>12, <1>14, <2>2
    <3>2. \A k \in 1..LSQ_num-1 : rs'[LsqLive'[k]].seq = rs[LsqLive'[k]].seq
      <4> SUFFICES ASSUME NEW k \in 1..LSQ_num-1
                   PROVE  rs'[LsqLive'[k]].seq = rs[LsqLive'[k]].seq
        OBVIOUS
      <4>1. PICK a \in 1..LSQ_num : a = k + 1
        BY <1>5
      <4>2. LsqLive'[k] = LsqLive[a] /\ a # 1 /\ 1 \in 1..LSQ_num
        BY <1>5, <1>9, <2>2, <4>1
      <4>3. LsqLive[a] # l
        BY <1>3, <1>5, <2>2, <4>2 DEF Distinct
      <4>4. LsqLive[a] \in Slots(LsqLive, LSQ_num)
        BY DEF Slots
      <4>5. LsqLive[a] \in Live \ gone
        BY <1>3, <1>12, <1>14, <4>3, <4>4
      <4> QED
        BY <1>1, <4>2, <4>5
    <3>3. PICK q, q2, n, r2 : q = LsqLive /\ q2 = LsqLive' /\ n = LSQ_num /\ r2 = rs'
      OBVIOUS
    <3>4. n \in Nat \ {0}
      BY <1>6, <2>2, <3>3
    <3>5. Slots(q2, n - 1) = Slots(q, n) \ {q[1]} /\ Ordered(r2, q2, n - 1)
      BY <1>5, <1>7, <1>9, <2>2, <3>2, <3>3, <3>4, SlotsTail
    <3> QED
      BY <1>3, <1>4, <2>2, <3>1, <3>3, <3>5
  <2> QED
    BY <2>1, <2>2
<1>19. Slots(RuuLive, RUU_num) \ {r} = Slots(RuuLive, RUU_num) \ gone
  BY <1>12, <1>13, <1>15
<1>20. Live' = Live \ gone
  BY <1>4, <1>5, <1>11, <1>17, <1>18, <1>19
<1>21. busy' \in [Units -> Nat]
  <2>1. busy \in [Units -> Nat]
    BY DEF Inv, Types
  <2>2. CASE UNCHANGED units
    BY <2>1, <2>2 DEF units
  <2>3. CASE /\ rs[r].ea_comp /\ LSQ_num > 0 /\ Store(rs[l])
             /\ Reserve(FuTable[rs[l].fu][res_get(rs[l].fu)])
    <3>1. l \in Live /\ rs[r].ea_comp
      BY <1>3, <2>3
    <3>2. rs[l] \in RSType /\ Kinded(rs, Live, inst_seq)
      BY <3>1, InvFacts, LiveFacts DEF Window
    <3>3. rs[l].fu \in DOMAIN FuTable
      BY <2>3, <3>1, <3>2 DEF RSType, Kinded
    <3>4. res_get(rs[l].fu) # 0
      BY <1>2, <1>5, <2>3 DEF CanCommit, CommitHead, CommitMem, r, l
    <3> QED
      BY <2>1, <2>3, <3>3, <3>4, ReserveType
  <2> QED
    BY <2>2, <2>3 DEF ruu_commit, CommitHead, r, l
<1>22. Types'
  <2>1. /\ World' \in Worlds /\ node' \in Seq(RLink) /\ event_queue' \in Seq(Event)
    BY <1>1, CoreFacts
  <2>2. RUU_num' \in 0..RUU_size /\ LSQ_num' \in 0..LSQ_size /\ LSQ_head' \in 0..LSQ_size-1
    BY <1>4, <1>5, <1>6, <1>9
  <2>3. count' \in Nat /\ options' \in Options /\ spec_mode' \in BOOLEAN /\ inst_seq' \in Nat
    BY <1>4 DEF Inv, Types
  <2> QED
    BY <1>8, <1>21, <2>1, <2>2, <2>3 DEF Types
<1>23. /\ Core(World', Live', node', event_queue')
       /\ Window(rs', Live', spec_mode', inst_seq')
       /\ Ordered(rs', RuuLive', RUU_num') /\ Ordered(rs', LsqLive', LSQ_num')
       /\ stage' # "issue" => node' = <<>>
  BY <1>1, <1>2, <1>4, <1>7, <1>17, <1>18, <1>20
<1> QED
  BY <1>1, <1>8, <1>16, <1>22, <1>23 DEF Inv

-----------------------------------------------------------------------------
\* A relation that pairs the elements of a finite set with those of another
\* counts them.
Matched(S, T, f) ==
    /\ f \in [S -> T]
    /\ \A x, y \in S : f[x] = f[y] => x = y
    /\ \A z \in T : \E x \in S : f[x] = z

\* Sets that a one-to-one function matches have as many elements.
LEMMA MatchedCount ==
    ASSUME NEW S, NEW T, NEW f, IsFiniteSet(S), Matched(S, T, f)
    PROVE  IsFiniteSet(T) /\ Cardinality(T) = Cardinality(S)
<1>1. f \in Bijection(S, T)
  BY DEF Matched, Bijection, Injection, Surjection, IsInjective
<1>2. ExistsBijection(S, T)
  BY <1>1 DEF ExistsBijection
<1> QED
  BY <1>2, FS_Bijection

\* The entries of a buffer from position m + 1 on.
Above(q, m, n) == {q[k] : k \in m+1..n}

\* There are n - m of them.
LEMMA AboveCount ==
    ASSUME NEW q, NEW n \in Nat, NEW m \in 0..n, Distinct(q, n)
    PROVE  IsFiniteSet(Above(q, m, n)) /\ Cardinality(Above(q, m, n)) = n - m
<1> DEFINE f == [k \in m+1..n |-> q[k]]
<1>1. Matched(m+1..n, Above(q, m, n), f)
  <2>1. m+1..n \subseteq 1..n
    OBVIOUS
  <2>2. f \in [m+1..n -> Above(q, m, n)]
    BY DEF Above
  <2>3. \A x, y \in m+1..n : f[x] = f[y] => x = y
    BY <2>1 DEF Distinct
  <2>4. \A z \in Above(q, m, n) : \E x \in m+1..n : f[x] = z
    BY DEF Above
  <2> QED
    BY <2>2, <2>3, <2>4 DEF Matched
<1>2. PICK a \in Int, b \in Int : a = m + 1 /\ b = n
  OBVIOUS
<1>3. IsFiniteSet(a..b) /\ Cardinality(a..b) = IF a > b THEN 0 ELSE b-a+1
  BY FS_Interval
<1>4. IsFiniteSet(m+1..n) /\ Cardinality(m+1..n) = n - m
  BY <1>2, <1>3
<1> HIDE DEF f
<1> QED
  BY <1>1, <1>4, MatchedCount

\* The entries with a later sequence number than c are those from some
\* position on.
Cut(rr, q, n, c, m) ==
    /\ m \in 0..n
    /\ \A k \in 1..n : rr[q[k]].seq > c <=> k \in m+1..n

\* A squash takes a suffix of a buffer that is ordered by age.
LEMMA CutExists ==
    ASSUME NEW rr, NEW q, NEW n \in Nat, NEW c \in Nat, Ordered(rr, q, n),
           \A k \in 1..n : rr[q[k]].seq \in Nat
    PROVE  \E m \in 0..n : Cut(rr, q, n, c, m)
<1> DEFINE I == {k \in 1..n : rr[q[k]].seq > c}
<1>1. CASE I = {}
  <2>1. n \in 0..n /\ n+1..n = {}
    OBVIOUS
  <2>2. Cut(rr, q, n, c, n)
    BY <1>1, <2>1 DEF Cut
  <2> QED
    BY <2>1, <2>2
<1>2. CASE I # {}
  <2>1. I \in SUBSET Nat
    OBVIOUS
  <2>2. PICK a \in I : \A y \in I : a <= y
    BY <1>2, <2>1, Least
  <2>3. a \in 1..n /\ rr[q[a]].seq > c
    OBVIOUS
  <2>4. PICK m \in 0..n : m = a - 1
    BY <2>3
  <2>5. ASSUME NEW k \in 1..n, rr[q[k]].seq > c PROVE k \in m+1..n
    <3>1. a <= k
      BY <2>2, <2>5
    <3> QED
      BY <2>3, <2>4, <3>1
  <2>6. ASSUME NEW k \in m+1..n PROVE rr[q[k]].seq > c
    <3>1. a = k \/ a < k
      BY <2>3, <2>4
    <3>2. k \in 1..n
      BY <2>3, <2>4
    <3>3. a < k => rr[q[a]].seq < rr[q[k]].seq
      BY <2>3, <3>2 DEF Ordered
    <3>4. PICK x \in Nat, y \in Nat : x = rr[q[a]].seq /\ y = rr[q[k]].seq
      BY <2>3, <3>2
    <3>5. a < k => x < y
      BY <3>3, <3>4
    <3>6. x > c
      BY <2>3, <3>4
    <3> QED
      BY <3>1, <3>4, <3>5, <3>6
  <2>7. Cut(rr, q, n, c, m)
    BY <2>5, <2>6 DEF Cut
  <2> QED
    BY <2>7
<1> QED
  BY <1>1, <1>2

\* Then they are the entries above it.
LEMMA CutAbove ==
    ASSUME NEW rr, NEW q, NEW n \in Nat, NEW c, NEW m, Cut(rr, q, n, c, m)
    PROVE  /\ Above(q, m, n) = {x \in Slots(q, n) : rr[x].seq > c}
           /\ Slots(q, m) = {x \in Slots(q, n) : ~(rr[x].seq > c)}
<1>1. m \in 0..n /\ m+1..n \subseteq 1..n /\ 1..m \subseteq 1..n
      /\ \A k \in 1..n : k \in m+1..n <=> k \notin 1..m
  BY DEF Cut
<1> QED
  BY <1>1 DEF Cut, Above, Slots

\* The squash after the branch b: i stations of the RUU and m of the LSQ
\* stay, and those that go are the younger ones.
Squash(b, i, m) ==
    /\ Cut(rs, RuuLive, RUU_num, rs[b].seq, i) /\ Cut(rs, LsqLive, LSQ_num, rs[b].seq, m)
    /\ RUU_num - Cardinality(Younger(b)) = i /\ LSQ_num - SquashMem(b) = m
    /\ RecoverPanics(b) = {}
    /\ Younger(b) \cup {LsqLive[k] : k \in LSQ_num - SquashMem(b) + 1 .. LSQ_num}
         = {x \in Live : rs[x].seq > rs[b].seq}

\* What ruu_recover() finds younger in the RUU.
LEMMA YoungerSeq ==
    ASSUME Inv, NEW b \in Live, ~in_LSQ(b)
    PROVE  Younger(b) = {x \in Slots(RuuLive, RUU_num) : rs[x].seq > rs[b].seq}
<1>1. /\ RUU_num \in Nat /\ Range(RuuLive) = Slots(RuuLive, RUU_num)
      /\ b \in Slots(RuuLive, RUU_num)
      /\ \A x \in Slots(RuuLive, RUU_num) : x \in Live
  BY LiveFacts DEF Inv
<1>2. \A x \in Live : rs[x].seq \in Nat
  BY SeqNat
<1>3. Ordered(rs, RuuLive, RUU_num)
  BY DEF Inv
<1>4. PICK a \in 1..RUU_num : b = RuuLive[a]
  BY <1>1 DEF Slots
<1>5. ASSUME NEW x \in Younger(b)
      PROVE  x \in Slots(RuuLive, RUU_num) /\ rs[x].seq > rs[b].seq
  <2>1. PICK i \in 1..RUU_num, j \in 1..RUU_num : RuuLive[i] = b /\ RuuLive[j] = x /\ i < j
    BY DEF Younger
  <2>2. rs[b].seq < rs[x].seq /\ x \in Slots(RuuLive, RUU_num)
    BY <1>3, <2>1 DEF Ordered, Slots
  <2>3. PICK m \in Nat, n \in Nat : m = rs[b].seq /\ n = rs[x].seq
    BY <1>1, <1>2, <2>2
  <2> QED
    BY <2>2, <2>3
<1>6. ASSUME NEW x \in Slots(RuuLive, RUU_num), rs[x].seq > rs[b].seq
      PROVE  x \in Younger(b)
  <2>1. PICK j \in 1..RUU_num : x = RuuLive[j]
    BY DEF Slots
  <2>2. PICK m \in Nat, n \in Nat : m = rs[b].seq /\ n = rs[x].seq
    BY <1>1, <1>2
  <2>3. j < a => n < m
    BY <1>3, <1>4, <2>1, <2>2 DEF Ordered
  <2>4. j = a => n = m
    BY <1>4, <2>1, <2>2
  <2>5. n > m
    BY <1>6, <2>2
  <2>6. a < j
    BY <2>2, <2>3, <2>4, <2>5
  <2>7. x \in Range(RuuLive)
    BY <1>1
  <2> QED
    BY <1>4, <2>1, <2>6, <2>7 DEF Younger
<1> QED
  BY <1>5, <1>6

\* ruu_recover() frees the memory half of exactly the address computations
\* that it frees.
LEMMA SquashMemCount ==
    ASSUME Inv, NEW b \in Live, ~in_LSQ(b), ~rs[b].ea_comp,
           NEW G, G = {x \in Slots(LsqLive, LSQ_num) : rs[x].seq > rs[b].seq},
           IsFiniteSet(G)
    PROVE  SquashMem(b) = Cardinality(G)
<1> DEFINE E == {x \in Younger(b) : rs[x].ea_comp}
           f == [l \in G |-> CHOOSE r \in Live : Half(rs, r, l)]
<1>1. Younger(b) = {x \in Slots(RuuLive, RUU_num) : rs[x].seq > rs[b].seq}
  BY YoungerSeq
<1>2. /\ \A x \in Live : /\ in_LSQ(x) <=> x \in Slots(LsqLive, LSQ_num)
                         /\ ~in_LSQ(x) <=> x \in Slots(RuuLive, RUU_num)
      /\ Live = Slots(RuuLive, RUU_num) \cup Slots(LsqLive, LSQ_num)
  BY LiveFacts DEF Inv
<1>3. \A x \in Live : rs[x].seq \in Nat
  BY SeqNat
<1>4. \A x, y \in Live : rs[x].seq = rs[y].seq => x = y
  BY InvFacts DEF Structure
<1>5. Paired(rs, Live)
  BY DEF Inv, Window
<1>6. ASSUME NEW l \in G
      PROVE  /\ f[l] \in E /\ f[l] \in Live /\ Half(rs, f[l], l) /\ l \in Live
  <2>1. l \in Live /\ in_LSQ(l) /\ rs[l].seq > rs[b].seq
    BY <1>2
  <2>2. \E r \in Live : Half(rs, r, l)
    BY <1>5, <2>1 DEF Paired
  <2>3. PICK r : r = CHOOSE x \in Live : Half(rs, x, l)
    OBVIOUS
  <2>4. r \in Live /\ Half(rs, r, l)
    BY <2>2, <2>3
  <2>5. r = f[l]
    BY <2>3
  <2>6. ~in_LSQ(r) /\ rs[r].ea_comp /\ rs[l].seq = rs[r].seq + 1 /\ r # b
    BY <2>4 DEF Half
  <2>7. rs[r].seq # rs[b].seq
    BY <1>4, <2>4, <2>6
  <2>8. PICK m \in Nat, n \in Nat : m = rs[r].seq /\ n = rs[b].seq
    BY <1>3, <2>4
  <2>9. rs[r].seq > rs[b].seq
    BY <2>1, <2>6, <2>7, <2>8
  <2>10. r \in E
    BY <1>1, <1>2, <2>4, <2>6, <2>9
  <2> QED
    BY <2>1, <2>4, <2>5, <2>10
<1>7. f \in [G -> E]
  BY <1>6
<1>8. DOMAIN f = G
  OBVIOUS
<1> HIDE DEF f
<1>9. ASSUME NEW x \in G, NEW y \in G, f[x] = f[y] PROVE x = y
  <2>1. rs[x].seq = rs[f[x]].seq + 1 /\ rs[y].seq = rs[f[y]].seq + 1 /\ x \in Live /\ y \in Live
    BY <1>6 DEF Half
  <2>2. rs[x].seq = rs[y].seq
    BY <1>9, <2>1
  <2> QED
    BY <1>4, <2>1, <2>2
<1>10. ASSUME NEW r \in E PROVE \E l \in G : f[l] = r
  <2>1. r \in Live /\ rs[r].ea_comp /\ rs[r].seq > rs[b].seq
    BY <1>1, <1>2
  <2>2. PICK l \in Live : Half(rs, r, l)
    BY <1>5, <2>1 DEF Paired
  <2>3. in_LSQ(l) /\ rs[l].seq = rs[r].seq + 1
    BY <2>2 DEF Half
  <2>4. PICK m \in Nat, n \in Nat : m = rs[r].seq /\ n = rs[b].seq
    BY <1>3, <2>1
  <2>5. rs[l].seq > rs[b].seq
    BY <2>1, <2>3, <2>4
  <2>6. l \in G
    BY <1>2, <2>3, <2>5
  <2>7. f[l] \in Live /\ rs[l].seq = rs[f[l]].seq + 1
    BY <1>6, <2>6 DEF Half
  <2>8. PICK k \in Nat : k = rs[f[l]].seq
    BY <1>3, <2>7
  <2>9. rs[f[l]].seq = rs[r].seq
    BY <2>3, <2>4, <2>7, <2>8
  <2>10. f[l] = r
    BY <1>4, <2>1, <2>7, <2>9
  <2> QED
    BY <2>6, <2>10
<1> HIDE DEF E
<1>11. Matched(G, E, f)
  BY <1>7, <1>9, <1>10 DEF Matched
<1>12. Cardinality(E) = Cardinality(G)
  BY <1>11, MatchedCount
<1> QED
  BY <1>12 DEF SquashMem, E

\* The squash after an open branch.
LEMMA SquashFacts ==
    ASSUME Inv, NEW b \in Live, Open(rs, b)
    PROVE  \E i \in 0..RUU_num, m \in 0..LSQ_num : Squash(b, i, m)
<1>1. /\ RUU_num \in Nat /\ LSQ_num \in Nat
      /\ Range(RuuLive) = Slots(RuuLive, RUU_num)
      /\ Distinct(RuuLive, RUU_num) /\ Distinct(LsqLive, LSQ_num)
      /\ Live = Slots(RuuLive, RUU_num) \cup Slots(LsqLive, LSQ_num)
      /\ \A x \in Live : /\ in_LSQ(x) <=> x \in Slots(LsqLive, LSQ_num)
                         /\ ~in_LSQ(x) <=> x \in Slots(RuuLive, RUU_num)
  BY LiveFacts DEF Inv
<1>2. \A x \in Live : rs[x].seq \in Nat
  BY SeqNat
<1>3. ~in_LSQ(b) /\ ~rs[b].ea_comp
  <2>1. rs[b].recover_inst /\ Kinded(rs, Live, inst_seq)
    BY DEF Open, Inv, Window
  <2> QED
    BY <2>1 DEF Kinded
<1>4. /\ \A k \in 1..RUU_num : rs[RuuLive[k]].seq \in Nat
      /\ \A k \in 1..LSQ_num : rs[LsqLive[k]].seq \in Nat
  BY <1>1, <1>2 DEF Slots
<1>5. PICK c \in Nat : c = rs[b].seq
  BY <1>2
<1>6. PICK i \in 0..RUU_num : Cut(rs, RuuLive, RUU_num, c, i)
  BY <1>1, <1>4, CutExists DEF Inv
<1>7. PICK m \in 0..LSQ_num : Cut(rs, LsqLive, LSQ_num, c, m)
  BY <1>1, <1>4, CutExists DEF Inv
<1>8. Younger(b) = Above(RuuLive, i, RUU_num)
  <2>1. Above(RuuLive, i, RUU_num) = {x \in Slots(RuuLive, RUU_num) : rs[x].seq > c}
    BY <1>1, <1>6, CutAbove
  <2>2. Younger(b) = {x \in Slots(RuuLive, RUU_num) : rs[x].seq > rs[b].seq}
    BY <1>3, YoungerSeq
  <2> QED
    BY <1>5, <2>1, <2>2
<1>9. Cardinality(Younger(b)) = RUU_num - i
  BY <1>1, <1>8, AboveCount
<1>10. PICK G : G = Above(LsqLive, m, LSQ_num)
  OBVIOUS
<1>11. G = {x \in Slots(LsqLive, LSQ_num) : rs[x].seq > rs[b].seq}
  BY <1>1, <1>5, <1>7, <1>10, CutAbove
<1>12. IsFiniteSet(G) /\ Cardinality(G) = LSQ_num - m
  BY <1>1, <1>10, AboveCount
<1>13. SquashMem(b) = LSQ_num - m
  BY <1>3, <1>11, <1>12, SquashMemCount
<1>14. RUU_num - Cardinality(Younger(b)) = i /\ LSQ_num - SquashMem(b) = m
       /\ ~(SquashMem(b) > LSQ_num)
  <2>1. PICK y, z : y = Cardinality(Younger(b)) /\ z = SquashMem(b)
    OBVIOUS
  <2>2. y = RUU_num - i /\ z = LSQ_num - m
    BY <1>9, <1>13, <2>1
  <2>3. RUU_num - y = i /\ LSQ_num - z = m /\ ~(z > LSQ_num)
    BY <1>1, <2>2
  <2> QED
    BY <2>1, <2>3
<1>15. RecoverPanics(b) = {}
  <2>1. b \in Range(RuuLive)
    BY <1>1, <1>3
  <2>2. spec_mode
    BY DEF Inv, Window, Bounded
  <2> QED
    BY <1>3, <1>14, <2>1, <2>2 DEF RecoverPanics
<1>16. {LsqLive[k] : k \in LSQ_num - SquashMem(b) + 1 .. LSQ_num} = G
  BY <1>10, <1>14 DEF Above
<1>17. Younger(b) \cup G = {x \in Live : rs[x].seq > rs[b].seq}
  BY <1>1, <1>3, <1>11, YoungerSeq
<1> QED
  BY <1>5, <1>6, <1>7, <1>14, <1>15, <1>16, <1>17 DEF Squash

-----------------------------------------------------------------------------
\* A valid event is that of an instruction that executes.
LEMMA EventValid ==
    ASSUME Inv, event_queue # <<>>, RSLINK_VALID(rs, Head(event_queue))
    PROVE  LET s == Head(event_queue).rs
           IN  /\ s \in Live /\ s \in Stations /\ Ref(rs, event_queue, 1, s)
               /\ OPERANDS_READY(rs[s]) /\ ~rs[s].queued /\ rs[s].issued
               /\ ~rs[s].completed
<1>1. PICK l : l = Head(event_queue)
  OBVIOUS
<1>2. event_queue \in Seq(Event) /\ rs \in [Stations -> RSType] /\ LinksOK(rs, Live, event_queue)
      /\ StatusOK(rs) /\ EventOnce(rs, event_queue)
  BY InvFacts
<1>3. l = event_queue[1] /\ 1 \in DOMAIN event_queue /\ l \in Event
  BY <1>1, <1>2
<1>4. PICK s : s = l.rs
  OBVIOUS
<1>5. s \in Stations /\ Ref(rs, event_queue, 1, s)
  BY <1>1, <1>3, <1>4 DEF Event, RSLINK_VALID, Ref
<1>6. rs[s].tag \in Nat
  <2>1. rs[s] \in RSType
    BY <1>2, <1>5
  <2> QED
    BY <2>1 DEF RSType
<1>7. s \in Live
  BY <1>2, <1>3, <1>5, <1>6, ValidLive
<1>8. rs[s].issued /\ ~rs[s].completed
  BY <1>2, <1>3, <1>5 DEF EventOnce
<1>9. OPERANDS_READY(rs[s]) /\ ~rs[s].queued
  BY <1>2, <1>5, <1>8 DEF StatusOK
<1> QED
  BY <1>1, <1>4, <1>5, <1>7, <1>8, <1>9

\* A station that completes is a station.
LEMMA CompletedStation ==
    ASSUME NEW r \in RSType
    PROVE  LET y == [r EXCEPT !.completed = TRUE]
           IN  /\ y \in RSType /\ Onward(r, y) /\ y.idep_ready = r.idep_ready
               /\ y.odep_list = r.odep_list /\ y.tag = r.tag
               /\ y.queued = r.queued /\ y.issued = r.issued /\ y.completed = TRUE
BY DEF RSType, Onward

\* The world in which station s is complete.
Completed(w, s) == [w EXCEPT !.rs[s].completed = TRUE]

\* Setting the completed bit of a station changes nothing else.
LEMMA CompletedWorld ==
    ASSUME NEW w \in Worlds, NEW s \in Stations
    PROVE  /\ Finishing(w, Completed(w, s), s) /\ Completed(w, s).panics = w.panics
           /\ Completed(w, s).rs = [w.rs EXCEPT ![s] = [w.rs[s] EXCEPT !.completed = TRUE]]
<1>1. w.rs \in [Stations -> RSType] /\ w.rs[s] \in RSType
  BY DEF Worlds
<1>2. PICK y : y = [w.rs[s] EXCEPT !.completed = TRUE]
  OBVIOUS
<1>3. /\ y \in RSType /\ Onward(w.rs[s], y) /\ y.idep_ready = w.rs[s].idep_ready
      /\ y.odep_list = w.rs[s].odep_list /\ y.tag = w.rs[s].tag
      /\ y.queued = w.rs[s].queued /\ y.issued = w.rs[s].issued /\ y.completed = TRUE
  BY <1>1, <1>2, CompletedStation
<1>4. PICK r2 : r2 = [w.rs EXCEPT ![s] = y]
  OBVIOUS
<1>5. r2 \in [Stations -> RSType] /\ r2[s] = y /\ \A x \in Stations : x # s => r2[x] = w.rs[x]
  BY <1>1, <1>3, <1>4
<1>6. Completed(w, s) = [w EXCEPT !.rs = r2]
  BY <1>2, <1>4 DEF Completed, Worlds
<1>7. PICK v : v = [w EXCEPT !.rs = r2]
  OBVIOUS
<1>8. /\ v \in Worlds /\ v.rs = r2 /\ v.ready_queue = w.ready_queue /\ v.panics = w.panics
      /\ v.create_vector = w.create_vector /\ v.use_spec_cv = w.use_spec_cv
      /\ v.spec_create_vector = w.spec_create_vector
  BY <1>5, <1>7 DEF Worlds
<1>9. Finishing(w, v, s)
  BY <1>3, <1>5, <1>8 DEF Finishing, Marked
<1> QED
  BY <1>2, <1>4, <1>6, <1>7, <1>8, <1>9

\* ruu_writeback() finds nothing to panic about.
LEMMA NoWritebackPanic ==
    ASSUME Inv, NEW r, NEW s, OPERANDS_READY(r), ~r.queued, r.issued, ~r.completed
    PROVE  [Panic(World, ~OPERANDS_READY(r) \/ r.queued \/ ~r.issued \/ r.completed,
                  "inst completed and !ready") EXCEPT !.rs[s].completed = TRUE]
              = Completed(World, s)
<1>1. [World EXCEPT !.panics = panics] = World
  BY DEF World
<1>2. Panic(World, ~OPERANDS_READY(r) \/ r.queued \/ ~r.issued \/ r.completed,
            "inst completed and !ready") = [World EXCEPT !.panics = panics]
  BY DEF Panic, World
<1> QED
  BY <1>1, <1>2 DEF Completed

\* Wake-ups resolve no branch and queue no load.
LEMMA WokeSteady ==
    ASSUME NEW w, NEW v, NEW A \in SUBSET Stations, NEW sq, Kinded(w.rs, A, sq), Woke(w, v)
    PROVE  Steady(w.rs, v.rs, A)
<1> SUFFICES ASSUME NEW x \in A
             PROVE  /\ Onward(w.rs[x], v.rs[x])
                    /\ w.rs[x].recover_inst => v.rs[x].completed = w.rs[x].completed
                    /\ w.rs[x].kind = "load" /\ (v.rs[x].queued \/ v.rs[x].issued) =>
                          w.rs[x].queued \/ w.rs[x].issued \/ Clear(w.rs, A, x)
  BY DEF Steady
<1>1. /\ Same(v.rs[x], w.rs[x])
      /\ \A k \in 1..3 : w.rs[x].idep_ready[k] => v.rs[x].idep_ready[k]
      /\ v.rs[x].queued => w.rs[x].queued \/ (in_LSQ(x) => Store(w.rs[x]))
  BY DEF Woke
<1>2. w.rs[x].kind = "load" => in_LSQ(x) /\ ~Store(w.rs[x])
  BY DEF Kinded, Store
<1> QED
  BY <1>1, <1>2 DEF Same, Onward

\* ruu_writeback() of an instruction that is no mispredicted branch.
LEMMA DoneInv ==
    ASSUME Inv, event_queue # <<>>, RSLINK_VALID(rs, Head(event_queue)),
           NEW s, s = Head(event_queue).rs, ~rs[s].recover_inst,
           NEW v, v = Broadcast(Broadcast(Completed(World, s), s, 1), s, 2)
    PROVE  /\ Core(v, Live, node, Tail(event_queue)) /\ Steady(rs, v.rs, Live)
           /\ v.panics = panics
<1>1. /\ s \in Live /\ s \in Stations /\ Ref(rs, event_queue, 1, s)
  BY EventValid
<1>2. /\ World \in Worlds /\ World.rs = rs /\ World.panics = panics
      /\ Core(World, Live, node, event_queue) /\ Live \subseteq Stations
      /\ Kinded(rs, Live, inst_seq)
  BY InvFacts, LiveFacts DEF Window
<1>3. PICK u : u = Completed(World, s)
  OBVIOUS
<1>4. Finishing(World, u, s) /\ u.panics = panics
  BY <1>1, <1>2, <1>3, CompletedWorld
<1>5. Completing(u, Live, node, Tail(event_queue), s, {s} \X (1..2))
  BY <1>1, <1>2, <1>4, Finish
<1>6. /\ Core(Broadcast(Broadcast(u, s, 1), s, 2), Live, node, Tail(event_queue))
      /\ Woke(u, Broadcast(Broadcast(u, s, 1), s, 2))
  BY <1>5, CompleteEffect
<1>7. Core(v, Live, node, Tail(event_queue)) /\ Woke(u, v)
  BY <1>3, <1>6
<1>8. \A x \in Live : Onward(rs[x], u.rs[x]) /\ u.rs[x].queued = rs[x].queued
                      /\ u.rs[x].issued = rs[x].issued
                      /\ (x # s => u.rs[x].completed = rs[x].completed)
  BY <1>2, <1>4 DEF Finishing, Marked, Onward
<1>9. Steady(rs, v.rs, Live)
  <2> SUFFICES ASSUME NEW x \in Live
               PROVE  /\ Onward(rs[x], v.rs[x])
                      /\ rs[x].recover_inst => v.rs[x].completed = rs[x].completed
                      /\ rs[x].kind = "load" /\ (v.rs[x].queued \/ v.rs[x].issued) =>
                            rs[x].queued \/ rs[x].issued \/ Clear(rs, Live, x)
    BY DEF Steady
  <2>1. /\ Same(v.rs[x], u.rs[x])
        /\ \A k \in 1..3 : u.rs[x].idep_ready[k] => v.rs[x].idep_ready[k]
        /\ v.rs[x].queued => u.rs[x].queued \/ (in_LSQ(x) => Store(u.rs[x]))
    BY <1>2, <1>7 DEF Woke
  <2>2. /\ Onward(rs[x], u.rs[x]) /\ u.rs[x].queued = rs[x].queued
        /\ u.rs[x].issued = rs[x].issued
        /\ x # s => u.rs[x].completed = rs[x].completed
    BY <1>8
  <2>3. rs[x].kind = "load" => in_LSQ(x) /\ ~Store(u.rs[x])
    BY <1>2, <2>2 DEF Kinded, Store, Onward
  <2> QED
    BY <2>1, <2>2, <2>3 DEF Same, Onward
<1>10. v.panics = panics
  BY <1>4, <1>7 DEF Woke
<1> QED
  BY <1>7, <1>9, <1>10

\* The stations that ruu_recover() squashes after the branch b.
Recovering(b, gone) ==
    /\ RecoverPanics(b) = {}
    /\ gone = Younger(b) \cup {LsqLive[k] : k \in LSQ_num - SquashMem(b) + 1 .. LSQ_num}

\* v is w with the stations "gone" squashed.
Recovered(w, v, gone) ==
    /\ v \in Worlds /\ v.ready_queue = w.ready_queue /\ v.panics = w.panics
    /\ v.create_vector = w.create_vector /\ v.use_spec_cv = {}
    /\ v.spec_create_vector = w.spec_create_vector
    /\ \A x \in Stations : v.rs[x] = IF x \in gone THEN Squashed(w.rs[x]) ELSE w.rs[x]

\* ruu_recover(), in the world w in which branch b may be complete.
LEMMA RecoverWorld ==
    ASSUME NEW w \in Worlds, NEW b, NEW gone, Recovering(b, gone)
    PROVE  Recovered(w, ruu_recover(w, b), gone)
<1>1. PICK r2 : r2 = [s \in Stations |-> IF s \in gone THEN Squashed(w.rs[s]) ELSE w.rs[s]]
  OBVIOUS
<1>2. w.rs \in [Stations -> RSType]
  BY DEF Worlds
<1>3. \A s \in Stations : r2[s] \in RSType
  <2> SUFFICES ASSUME NEW s \in Stations PROVE r2[s] \in RSType
    OBVIOUS
  <2>1. w.rs[s] \in RSType
    BY <1>2
  <2>2. Squashed(w.rs[s]) \in RSType
    BY <2>1, SquashedFields
  <2> QED
    BY <1>1, <2>1, <2>2
<1>4. r2 \in [Stations -> RSType]
  BY <1>1, <1>3
<1>5. ruu_recover(w, b) = [w EXCEPT !.rs = r2, !.use_spec_cv = {},
                                    !.panics = @ \cup RecoverPanics(b)]
  BY <1>1 DEF ruu_recover, Recovering
<1>6. ruu_recover(w, b) = [w EXCEPT !.rs = r2, !.use_spec_cv = {}, !.panics = w.panics]
  BY <1>5 DEF Worlds, Recovering
<1>7. PICK v : v = [w EXCEPT !.rs = r2, !.use_spec_cv = {}, !.panics = w.panics]
  OBVIOUS
<1>8. /\ v \in Worlds /\ v.rs = r2 /\ v.ready_queue = w.ready_queue /\ v.panics = w.panics
      /\ v.create_vector = w.create_vector /\ v.use_spec_cv = {}
      /\ v.spec_create_vector = w.spec_create_vector
  BY <1>4, <1>7 DEF Worlds
<1> QED
  BY <1>1, <1>6, <1>7, <1>8 DEF Recovered

\* What a squash after the open branch b leaves.
Staying(b) == {x \in Live : ~(rs[x].seq > rs[b].seq)}

\* The squash is of everything speculative, and of whole memory operations.
LEMMA SquashParts ==
    ASSUME Inv, NEW b \in Live, Open(rs, b), NEW gone,
           gone = {x \in Live : rs[x].seq > rs[b].seq}
    PROVE  /\ Live \ gone = Staying(b) /\ b \in Staying(b)
           /\ \A x \in Live : x \in gone <=> rs[x].spec_mode
           /\ \A p \in gone, x \in Live \ gone : rs[x].seq < rs[p].seq
           /\ \A x, y \in Live : Half(rs, x, y) => (x \in gone <=> y \in gone)
           /\ \A p \in gone : ~Open(rs, p)
           /\ spec_mode = TRUE
<1>1. \A x \in Live : rs[x].seq \in Nat
  BY SeqNat
<1>2. /\ spec_mode <=> \E c \in Live : Open(rs, c)
      /\ \A c, d \in Live : Open(rs, c) /\ Open(rs, d) => c = d
      /\ \A x \in Live : rs[x].spec_mode <=>
                            \E c \in Live : Open(rs, c) /\ rs[c].seq < rs[x].seq
  BY DEF Inv, Window, Bounded
<1>3. \A x, y \in Live : rs[x].seq = rs[y].seq => x = y
  BY InvFacts DEF Structure
<1>4. Live \ gone = Staying(b)
  BY DEF Staying
<1>5. PICK n \in Nat : n = rs[b].seq
  BY <1>1
<1>6. b \in Staying(b)
  BY <1>5 DEF Staying
<1>7. ASSUME NEW x \in Live PROVE x \in gone <=> rs[x].spec_mode
  <2>1. rs[x].spec_mode <=> rs[b].seq < rs[x].seq
    BY <1>2
  <2>2. PICK m \in Nat : m = rs[x].seq
    BY <1>1
  <2> QED
    BY <1>5, <2>1, <2>2
<1>8. ASSUME NEW p \in gone, NEW x \in Live \ gone PROVE rs[x].seq < rs[p].seq
  <2>1. PICK m \in Nat, k \in Nat : m = rs[x].seq /\ k = rs[p].seq
    BY <1>1
  <2>2. k > n /\ ~(m > n)
    BY <1>5, <2>1
  <2> QED
    BY <2>1, <2>2
<1>9. ASSUME NEW x \in Live, NEW y \in Live, Half(rs, x, y) PROVE x \in gone <=> y \in gone
  <2>1. rs[x].ea_comp /\ rs[y].seq = rs[x].seq + 1
    BY <1>9 DEF Half
  <2>2. x # b
    <3>1. rs[b].recover_inst /\ Kinded(rs, Live, inst_seq)
      BY DEF Open, Inv, Window
    <3> QED
      BY <2>1, <3>1 DEF Kinded
  <2>3. rs[x].seq # rs[b].seq
    BY <1>3, <2>2
  <2>4. PICK m \in Nat : m = rs[x].seq
    BY <1>1
  <2>5. m # n /\ rs[y].seq = m + 1
    BY <1>5, <2>1, <2>3, <2>4
  <2>6. m > n <=> m + 1 > n
    BY <2>5
  <2> QED
    BY <1>5, <2>4, <2>5, <2>6
<1>10. ASSUME NEW p \in gone PROVE ~Open(rs, p)
  <2>1. p # b
    BY <1>4, <1>6
  <2> QED
    BY <1>2, <2>1
<1>11. spec_mode = TRUE
  BY <1>2 DEF Inv, Types
<1> QED
  BY <1>4, <1>6, <1>7, <1>8, <1>9, <1>10, <1>11

\* The state without the squashed stations, the branch still open.
LEMMA SquashCore ==
    ASSUME Inv, NEW b \in Live, Open(rs, b), NEW gone, NEW y,
           gone = {x \in Live : rs[x].seq > rs[b].seq},
           y \in Worlds, y.ready_queue = ready_queue, y.create_vector = create_vector,
           y.spec_create_vector = spec_create_vector, y.use_spec_cv = {},
           \A x \in Stations : y.rs[x] = IF x \in gone THEN Squashed(rs[x]) ELSE rs[x]
    PROVE  /\ Core(y, Staying(b), node, event_queue)
           /\ Window(y.rs, Staying(b), TRUE, inst_seq)
<1>1. /\ Live \ gone = Staying(b) /\ b \in Staying(b)
      /\ \A x \in Live : x \in gone <=> rs[x].spec_mode
      /\ \A p \in gone, x \in Live \ gone : rs[x].seq < rs[p].seq
      /\ \A x, z \in Live : Half(rs, x, z) => (x \in gone <=> z \in gone)
      /\ \A p \in gone : ~Open(rs, p)
      /\ spec_mode = TRUE
  BY SquashParts
<1>2. /\ World.rs = rs /\ World.ready_queue = ready_queue
      /\ World.create_vector = create_vector
      /\ World.spec_create_vector = spec_create_vector
      /\ Core(World, Live, node, event_queue) /\ Live \subseteq Stations
      /\ Window(rs, Live, spec_mode, inst_seq)
  BY InvFacts, LiveFacts
<1>3. gone \subseteq Live
  OBVIOUS
<1>4. Freeing(World, y, Live, gone)
  BY <1>2, <1>3 DEF Freeing
<1>5. MayFree(World, y, Live, gone)
  BY <1>1, <1>2 DEF MayFree
<1>6. Core(y, Live \ gone, node, event_queue)
  BY <1>2, <1>4, <1>5, FreeCore
<1>7. Separable(rs, y.rs, Live, gone)
  <2>1. \A x \in Live : rs[x].seq \in Nat
    BY SeqNat
  <2>2. \A x \in Live \ gone : y.rs[x] = rs[x]
    BY <1>2
  <2> QED
    BY <1>1, <1>3, <2>1, <2>2 DEF Separable
<1>8. Window(y.rs, Live \ gone, spec_mode, inst_seq)
  BY <1>2, <1>7, WindowFree
<1> QED
  BY <1>1, <1>6, <1>8

\* ruu_writeback() of a mispredicted branch.
LEMMA RecoverCore ==
    ASSUME Inv, event_queue # <<>>, RSLINK_VALID(rs, Head(event_queue)),
           NEW s, s = Head(event_queue).rs, rs[s].recover_inst,
           NEW i, NEW m, Squash(s, i, m),
           NEW v, v = Broadcast(Broadcast(ruu_recover(Completed(World, s), s), s, 1), s, 2)
    PROVE  /\ Core(v, Staying(s), node, Tail(event_queue))
           /\ Window(v.rs, Staying(s), FALSE, inst_seq)
           /\ \A x \in Staying(s) : v.rs[x].seq = rs[x].seq
           /\ v.panics = panics
<1>1. /\ s \in Live /\ s \in Stations /\ Ref(rs, event_queue, 1, s) /\ Open(rs, s)
  BY EventValid DEF Open
<1>2. PICK gone : gone = {x \in Live : rs[x].seq > rs[s].seq}
  OBVIOUS
<1>3. Recovering(s, gone)
  BY <1>2 DEF Squash, Recovering
<1>4. /\ World \in Worlds /\ World.rs = rs /\ World.panics = panics
      /\ World.ready_queue = ready_queue /\ World.create_vector = create_vector
      /\ World.spec_create_vector = spec_create_vector /\ Live \subseteq Stations
  BY InvFacts, LiveFacts
<1>5. PICK w : w = Completed(World, s)
  OBVIOUS
<1>6. Finishing(World, w, s) /\ w.panics = panics
  BY <1>1, <1>4, <1>5, CompletedWorld
<1>7. PICK y, u : y = ruu_recover(World, s) /\ u = ruu_recover(w, s)
  OBVIOUS
<1>8. /\ y \in Worlds /\ y.ready_queue = ready_queue
      /\ y.create_vector = create_vector /\ y.use_spec_cv = {}
      /\ y.spec_create_vector = spec_create_vector
      /\ \A x \in Stations : y.rs[x] = IF x \in gone THEN Squashed(rs[x]) ELSE rs[x]
  <2>1. Recovered(World, y, gone)
    BY <1>3, <1>4, <1>7, RecoverWorld
  <2> QED
    BY <1>4, <2>1 DEF Recovered
<1>9. w \in Worlds /\ w.ready_queue = ready_queue /\ w.create_vector = create_vector
      /\ w.spec_create_vector = spec_create_vector
      /\ \A x \in Stations : x # s => w.rs[x] = rs[x]
  BY <1>4, <1>6 DEF Finishing, Marked
<1>10. /\ u \in Worlds /\ u.ready_queue = ready_queue /\ u.panics = panics
       /\ u.create_vector = create_vector /\ u.use_spec_cv = {}
       /\ u.spec_create_vector = spec_create_vector
       /\ \A x \in Stations : u.rs[x] = IF x \in gone THEN Squashed(w.rs[x]) ELSE w.rs[x]
  <2>1. Recovered(w, u, gone)
    BY <1>3, <1>7, <1>9, RecoverWorld
  <2> QED
    BY <1>6, <1>9, <2>1 DEF Recovered
<1>11. /\ Core(y, Staying(s), node, event_queue)
       /\ Window(y.rs, Staying(s), TRUE, inst_seq)
  BY <1>1, <1>2, <1>8, SquashCore
<1>12. /\ Live \ gone = Staying(s) /\ s \in Staying(s)
       /\ \A x \in Live : x \in gone <=> rs[x].spec_mode
  BY <1>1, <1>2, SquashParts
<1>13. s \notin gone /\ Staying(s) \subseteq Stations
  BY <1>4, <1>12
<1>14. y.rs[s] = rs[s] /\ u.rs[s] = w.rs[s]
  BY <1>1, <1>8, <1>10, <1>13
<1>15. \A x \in Stations : x # s => u.rs[x] = y.rs[x]
  BY <1>8, <1>9, <1>10
<1>16. Finishing(y, u, s)
  <2>1. /\ Onward(rs[s], w.rs[s]) /\ w.rs[s].idep_ready = rs[s].idep_ready
        /\ w.rs[s].odep_list = rs[s].odep_list /\ w.rs[s].tag = rs[s].tag
        /\ w.rs[s].queued = rs[s].queued /\ w.rs[s].issued = rs[s].issued
        /\ w.rs[s].completed = TRUE
    BY <1>4, <1>6 DEF Finishing, Marked
  <2>2. Marked(y, u, s)
    BY <1>8, <1>10, <1>14, <1>15, <2>1 DEF Marked
  <2> QED
    BY <1>8, <1>10, <1>14, <2>1, <2>2 DEF Finishing
<1>17. Ref(y.rs, event_queue, 1, s)
  BY <1>1, <1>14 DEF Ref
<1>18. Completing(u, Staying(s), node, Tail(event_queue), s, {s} \X (1..2))
  BY <1>1, <1>11, <1>16, <1>17, Finish
<1>19. /\ Core(Broadcast(Broadcast(u, s, 1), s, 2), Staying(s), node, Tail(event_queue))
       /\ Woke(u, Broadcast(Broadcast(u, s, 1), s, 2))
  BY <1>18, CompleteEffect
<1>20. Core(v, Staying(s), node, Tail(event_queue)) /\ Woke(u, v)
  BY <1>5, <1>7, <1>19
<1>21. \A x \in Staying(s) : /\ Onward(y.rs[x], u.rs[x]) /\ u.rs[x].queued = y.rs[x].queued
                             /\ u.rs[x].issued = y.rs[x].issued
                             /\ x # s => u.rs[x].completed = y.rs[x].completed
                             /\ ~y.rs[x].spec_mode
                             /\ y.rs[x] = rs[x]
  <2> SUFFICES ASSUME NEW x \in Staying(s)
               PROVE  /\ Onward(y.rs[x], u.rs[x]) /\ u.rs[x].queued = y.rs[x].queued
                      /\ u.rs[x].issued = y.rs[x].issued
                      /\ x # s => u.rs[x].completed = y.rs[x].completed
                      /\ ~y.rs[x].spec_mode
                      /\ y.rs[x] = rs[x]
    OBVIOUS
  <2>1. x \in Stations /\ x \notin gone /\ x \in Live
    BY <1>4, <1>12
  <2>2. y.rs[x] = rs[x] /\ ~rs[x].spec_mode
    BY <1>8, <1>12, <2>1
  <2>3. x # s => u.rs[x] = y.rs[x]
    BY <1>15, <2>1
  <2>4. /\ Onward(y.rs[s], u.rs[s]) /\ u.rs[s].queued = y.rs[s].queued
        /\ u.rs[s].issued = y.rs[s].issued
    BY <1>16 DEF Finishing, Marked
  <2>5. Onward(y.rs[x], y.rs[x])
    BY DEF Onward
  <2> QED
    BY <2>2, <2>3, <2>4, <2>5
<1>22. Window(u.rs, Staying(s), FALSE, inst_seq)
  <2>1. Open(y.rs, s) /\ u.rs[s].completed
    BY <1>1, <1>14, <1>16 DEF Open, Finishing
  <2>2. PICK rr, r2, A : rr = y.rs /\ r2 = u.rs /\ A = Staying(s)
    OBVIOUS
  <2>3. /\ Window(rr, A, TRUE, inst_seq) /\ s \in A /\ Open(rr, s) /\ r2[s].completed
        /\ \A x \in A : Onward(rr[x], r2[x])
        /\ \A x \in A : /\ r2[x].queued = rr[x].queued /\ r2[x].issued = rr[x].issued
                        /\ ~rr[x].spec_mode
                        /\ x # s => r2[x].completed = rr[x].completed
    BY <1>11, <1>12, <1>21, <2>1, <2>2
  <2>4. Window(r2, A, FALSE, inst_seq)
    BY <2>3, WindowResolve
  <2> QED
    BY <2>2, <2>4
<1>23. Kinded(u.rs, Staying(s), inst_seq)
  BY <1>22 DEF Window
<1>24. Steady(u.rs, v.rs, Staying(s))
  BY <1>13, <1>20, <1>23, WokeSteady
<1>25. Window(v.rs, Staying(s), FALSE, inst_seq)
  BY <1>22, <1>24, WindowSteady
<1>26. \A x \in Staying(s) : v.rs[x].seq = rs[x].seq
  <2>1. \A x \in Staying(s) : v.rs[x].seq = u.rs[x].seq /\ u.rs[x].seq = y.rs[x].seq
    BY <1>21, <1>24 DEF Steady, Onward
  <2> QED
    BY <1>21, <2>1
<1>27. v.panics = panics
  BY <1>10, <1>20 DEF Woke
<1> QED
  BY <1>20, <1>25, <1>26, <1>27

\* The buffer q2 has the m entries of q up to the sequence number c.
Shorter(rr, r2, q, q2, n, c, m) ==
    /\ n \in Nat /\ Cut(rr, q, n, c, m) /\ Ordered(rr, q, n)
    /\ \A k \in 1..m : q2[k] = q[k] /\ r2[q[k]].seq = rr[q[k]].seq

\* They are still in order.
LEMMA CutStays ==
    ASSUME NEW rr, NEW r2, NEW q, NEW q2, NEW n, NEW c, NEW m,
           Shorter(rr, r2, q, q2, n, c, m)
    PROVE  /\ Slots(q2, m) = {x \in Slots(q, n) : ~(rr[x].seq > c)}
           /\ Ordered(r2, q2, m)
<1>1. n \in Nat /\ Cut(rr, q, n, c, m)
  BY DEF Shorter
<1>2. m \in 0..n /\ 1..m \subseteq 1..n
  BY <1>1 DEF Cut
<1>3. Slots(q2, m) = Slots(q, m)
  BY DEF Slots, Shorter
<1>4. Ordered(r2, q2, m)
  BY <1>2 DEF Ordered, Shorter
<1>5. Slots(q, m) = {x \in Slots(q, n) : ~(rr[x].seq > c)}
  BY <1>1, CutAbove
<1> QED
  BY <1>3, <1>4, <1>5

\* ruu_writeback() of a stale event, or of one that squashes nothing.
LEMMA WritebackSteady ==
    ASSUME Inv, ruu_writeback, Core(World', Live, node, Tail(event_queue)),
           Steady(rs, rs', Live), UNCHANGED <<RUU_num, LSQ_num, spec_mode>>
    PROVE  Inv'
<1>1. /\ UNCHANGED <<RUU_head, LSQ_head, node, busy, inst_seq, options, stage, count>>
      /\ event_queue' = Tail(event_queue)
  BY DEF ruu_writeback, units, machine
<1>2. options' \in Options /\ busy' \in [Units -> Nat] /\ count' \in Nat
      /\ (stage' # "issue" => node' = <<>>)
  BY <1>1 DEF Inv, Types
<1>3. Core(World', Live, node', event_queue')
  BY <1>1
<1>4. UNCHANGED <<RUU_head, RUU_num, LSQ_head, LSQ_num, spec_mode, inst_seq>>
  BY <1>1
<1> QED
  BY <1>2, <1>3, <1>4, SteadyInv

\* ruu_writeback() of a mispredicted branch.
LEMMA WritebackRecover ==
    ASSUME Inv, ruu_writeback, NEW s \in Live, Open(rs, s), NEW i, NEW m, Squash(s, i, m),
           Core(World', Staying(s), node, Tail(event_queue)),
           Window(rs', Staying(s), FALSE, inst_seq),
           \A x \in Staying(s) : rs'[x].seq = rs[x].seq,
           RUU_num' = RUU_num - Cardinality(Younger(s)), LSQ_num' = LSQ_num - SquashMem(s),
           spec_mode' = FALSE
    PROVE  Inv'
<1>1. /\ UNCHANGED <<RUU_head, LSQ_head, node, busy, inst_seq, options, stage, count>>
      /\ event_queue' = Tail(event_queue)
  BY DEF ruu_writeback, units, machine
<1>2. /\ RUU_num' = i /\ LSQ_num' = m
      /\ Cut(rs, RuuLive, RUU_num, rs[s].seq, i) /\ Cut(rs, LsqLive, LSQ_num, rs[s].seq, m)
  BY DEF Squash
<1>3. /\ i \in 0..RUU_num /\ m \in 0..LSQ_num
  BY <1>2 DEF Cut
<1>4. /\ RUU_num \in Nat /\ LSQ_num \in Nat
      /\ Live = Slots(RuuLive, RUU_num) \cup Slots(LsqLive, LSQ_num)
      /\ RUU_size \in Nat \ {0} /\ LSQ_size \in Nat \ {0}
  BY LiveFacts DEF Inv
<1>5. /\ RUU_num \in 0..RUU_size /\ LSQ_num \in 0..LSQ_size
      /\ RUU_head \in 0..RUU_size-1 /\ LSQ_head \in 0..LSQ_size-1
  BY DEF Inv, Types
<1>6. /\ \A k \in 1..i : RuuLive'[k] = RuuLive[k]
      /\ \A k \in 1..m : LsqLive'[k] = LsqLive[k]
  <2>1. (\A k \in 1..i : k \in 1..RUU_num) /\ (\A k \in 1..m : k \in 1..LSQ_num)
    BY <1>3, <1>4
  <2> QED
    BY <1>1, <1>2, <2>1 DEF RuuLive, LsqLive
<1>7. Live' = Slots(RuuLive', RUU_num') \cup Slots(LsqLive', LSQ_num')
  BY DEF Live, Slots, Range, RuuLive, LsqLive
<1>8. /\ Slots(RuuLive, i) = {x \in Slots(RuuLive, RUU_num) : ~(rs[x].seq > rs[s].seq)}
      /\ Slots(LsqLive, m) = {x \in Slots(LsqLive, LSQ_num) : ~(rs[x].seq > rs[s].seq)}
  BY <1>2, <1>4, CutAbove
<1>9. /\ \A k \in 1..i : rs'[RuuLive[k]].seq = rs[RuuLive[k]].seq
      /\ \A k \in 1..m : rs'[LsqLive[k]].seq = rs[LsqLive[k]].seq
  <2>1. \A x \in Slots(RuuLive, i) \cup Slots(LsqLive, m) : x \in Staying(s)
    BY <1>4, <1>8 DEF Staying
  <2> QED
    BY <2>1 DEF Slots
<1>10. Ordered(rs, RuuLive, RUU_num) /\ Ordered(rs, LsqLive, LSQ_num)
  BY DEF Inv
<1>11. /\ Slots(RuuLive', i) = {x \in Slots(RuuLive, RUU_num) : ~(rs[x].seq > rs[s].seq)}
       /\ Ordered(rs', RuuLive', i)
  <2>1. PICK q2, r2, c : q2 = RuuLive' /\ r2 = rs' /\ c = rs[s].seq
    OBVIOUS
  <2>2. Shorter(rs, r2, RuuLive, q2, RUU_num, c, i)
    BY <1>2, <1>4, <1>6, <1>9, <1>10, <2>1 DEF Shorter
  <2>3. /\ Slots(q2, i) = {x \in Slots(RuuLive, RUU_num) : ~(rs[x].seq > c)}
        /\ Ordered(r2, q2, i)
    BY <2>2, CutStays
  <2> QED
    BY <2>1, <2>3
<1>12. /\ Slots(LsqLive', m) = {x \in Slots(LsqLive, LSQ_num) : ~(rs[x].seq > rs[s].seq)}
       /\ Ordered(rs', LsqLive', m)
  <2>1. PICK q2, r2, c : q2 = LsqLive' /\ r2 = rs' /\ c = rs[s].seq
    OBVIOUS
  <2>2. Shorter(rs, r2, LsqLive, q2, LSQ_num, c, m)
    BY <1>2, <1>4, <1>6, <1>9, <1>10, <2>1 DEF Shorter
  <2>3. /\ Slots(q2, m) = {x \in Slots(LsqLive, LSQ_num) : ~(rs[x].seq > c)}
        /\ Ordered(r2, q2, m)
    BY <2>2, CutStays
  <2> QED
    BY <2>1, <2>3
<1>13. Live' = Staying(s)
  BY <1>2, <1>4, <1>7, <1>11, <1>12 DEF Staying
<1>14. Types'
  <2>1. /\ World' \in Worlds /\ node \in Seq(RLink) /\ Tail(event_queue) \in Seq(Event)
    BY CoreFacts
  <2>2. RUU_num' \in 0..RUU_size /\ LSQ_num' \in 0..LSQ_size
    BY <1>2, <1>3, <1>4, <1>5
  <2>3. spec_mode' \in BOOLEAN
    OBVIOUS
  <2> QED
    BY <1>1, <2>1, <2>2, <2>3 DEF Inv, Types
<1>15. /\ Core(World', Live', node', event_queue')
       /\ Window(rs', Live', spec_mode', inst_seq')
       /\ Ordered(rs', RuuLive', RUU_num') /\ Ordered(rs', LsqLive', LSQ_num')
       /\ stage' # "issue" => node' = <<>>
  <2>1. stage' # "issue" => node' = <<>>
    BY <1>1 DEF Inv
  <2> QED
    BY <1>1, <1>2, <1>11, <1>12, <1>13, <2>1
<1> QED
  BY <1>14, <1>15 DEF Inv

\* The stations up to the open branch s are left, none of them speculative.
Recovers(s) ==
    /\ s \in Live /\ Open(rs, s) /\ spec_mode' = FALSE
    /\ Cut(rs, RuuLive, RUU_num, rs[s].seq, RUU_num')
    /\ \A x \in Staying(s) : rs'[x].seq = rs[x].seq

\* ruu_writeback().
LEMMA WritebackInv ==
    ASSUME Inv, ruu_writeback
    PROVE  /\ Inv' /\ panics' = panics
           /\ \/ Steady(rs, rs', Live) /\ UNCHANGED RUU_num
              \/ \E s \in Live : Recovers(s)
<1> DEFINE ev == Head(event_queue)
           s == ev.rs
           w2 == IF rs[s].recover_inst THEN ruu_recover(Completed(World, s), s)
                                       ELSE Completed(World, s)
           v == Broadcast(Broadcast(w2, s, 1), s, 2)
<1>1. event_queue # <<>>
  BY DEF ruu_writeback, EventDue
<1>2. /\ World \in Worlds /\ World.rs = rs /\ Core(World, Live, node, event_queue)
  BY InvFacts
<1>3. /\ World'.rs = rs' /\ World'.ready_queue = ready_queue' /\ World'.panics = panics'
      /\ World'.create_vector = create_vector' /\ World'.use_spec_cv = use_spec_cv'
      /\ World'.spec_create_vector = spec_create_vector'
  BY DEF World
<1>4. CASE ~RSLINK_VALID(rs, ev)
  <2>1. UNCHANGED <<rs, ready_queue, create_vector, spec_create_vector, use_spec_cv, panics,
                    RUU_num, LSQ_num, spec_mode>>
    BY <1>4 DEF ruu_writeback, machine, renames
  <2>2. World' = World
    BY <2>1 DEF World
  <2>3. Core(World, Live, node, Tail(event_queue))
    BY <1>1, <1>2, <1>4, DropEvent
  <2>4. Steady(rs, rs', Live)
    BY <2>1, Unmoved
  <2>5. Core(World', Live, node, Tail(event_queue))
    BY <2>2, <2>3
  <2>6. Inv'
    BY <2>1, <2>4, <2>5, WritebackSteady
  <2> QED
    BY <2>1, <2>4, <2>6
<1>5. CASE RSLINK_VALID(rs, ev)
  <2>1. /\ s \in Live /\ s \in Stations
        /\ OPERANDS_READY(rs[s]) /\ ~rs[s].queued /\ rs[s].issued /\ ~rs[s].completed
    BY <1>1, <1>5, EventValid
  <2>2. [Panic(World, ~OPERANDS_READY(rs[s]) \/ rs[s].queued \/ ~rs[s].issued
                        \/ rs[s].completed, "inst completed and !ready")
           EXCEPT !.rs[s].completed = TRUE] = Completed(World, s)
    BY <2>1, NoWritebackPanic
  <2>3. /\ rs' = v.rs /\ ready_queue' = v.ready_queue /\ panics' = v.panics
        /\ create_vector' = v.create_vector /\ spec_create_vector' = v.spec_create_vector
        /\ use_spec_cv' = v.use_spec_cv
        /\ IF rs[s].recover_inst
           THEN /\ RUU_num' = RUU_num - Cardinality(Younger(s))
                /\ LSQ_num' = LSQ_num - SquashMem(s)
                /\ spec_mode' = FALSE
           ELSE UNCHANGED <<RUU_num, LSQ_num, spec_mode>>
    BY <1>5, <2>2 DEF ruu_writeback
  <2>4. PICK u : u = v
    OBVIOUS
  <2>5. ASSUME u \in Worlds PROVE World' \in Worlds /\ Agree(u, World')
    <3>1. World' \in Worlds
      BY <2>3, <2>4, <2>5 DEF World, Worlds
    <3> QED
      BY <1>3, <2>3, <2>4, <3>1 DEF Agree
  <2>6. ASSUME NEW A, Core(u, A, node, Tail(event_queue))
        PROVE  Core(World', A, node, Tail(event_queue))
    <3>1. u \in Worlds
      BY <2>6, CoreFacts
    <3>2. Agree(u, World')
      BY <2>5, <3>1
    <3> QED
      BY <2>6, <3>2, AgreeCore
  <2>7. CASE ~rs[s].recover_inst
    <3>1. u = Broadcast(Broadcast(Completed(World, s), s, 1), s, 2)
      BY <2>4, <2>7
    <3>2. /\ Core(u, Live, node, Tail(event_queue)) /\ Steady(rs, u.rs, Live)
          /\ u.panics = panics
      BY <1>1, <1>5, <2>7, <3>1, DoneInv
    <3>3. Core(World', Live, node, Tail(event_queue)) /\ Steady(rs, rs', Live)
          /\ panics' = panics /\ UNCHANGED <<RUU_num, LSQ_num, spec_mode>>
      BY <2>3, <2>4, <2>6, <2>7, <3>2
    <3>4. Inv'
      BY <3>3, WritebackSteady
    <3> QED
      BY <3>3, <3>4
  <2>8. CASE rs[s].recover_inst
    <3>1. u = Broadcast(Broadcast(ruu_recover(Completed(World, s), s), s, 1), s, 2)
      BY <2>4, <2>8
    <3>2. Open(rs, s)
      BY <2>1, <2>8 DEF Open
    <3>3. PICK i \in 0..RUU_num, m \in 0..LSQ_num : Squash(s, i, m)
      BY <2>1, <3>2, SquashFacts
    <3>4. /\ Core(u, Staying(s), node, Tail(event_queue))
          /\ Window(u.rs, Staying(s), FALSE, inst_seq)
          /\ \A x \in Staying(s) : u.rs[x].seq = rs[x].seq
          /\ u.panics = panics
      BY <1>1, <1>5, <2>8, <3>1, <3>3, RecoverCore
    <3>5. /\ Core(World', Staying(s), node, Tail(event_queue))
          /\ Window(rs', Staying(s), FALSE, inst_seq)
          /\ \A x \in Staying(s) : rs'[x].seq = rs[x].seq
          /\ panics' = panics
          /\ RUU_num' = RUU_num - Cardinality(Younger(s))
          /\ LSQ_num' = LSQ_num - SquashMem(s) /\ spec_mode' = FALSE
      BY <2>3, <2>4, <2>6, <2>8, <3>4
    <3>6. Recovers(s)
      BY <2>1, <3>2, <3>3, <3>5 DEF Squash, Recovers
    <3>7. Inv'
      BY <2>1, <3>2, <3>3, <3>5, WritebackRecover
    <3> QED
      BY <2>1, <3>5, <3>6, <3>7
  <2> QED
    BY <2>7, <2>8
<1> QED
  BY <1>4, <1>5

-----------------------------------------------------------------------------
\* A buffer with one more entry, the youngest.
Longer(rr, r2, q, q2, n, s) ==
    /\ n \in Nat /\ Ordered(rr, q, n)
    /\ \A k \in 1..n : q2[k] = q[k] /\ r2[q[k]].seq = rr[q[k]].seq
                       /\ rr[q[k]].seq < r2[s].seq
    /\ q2[n + 1] = s

\* A younger station behind the last one leaves the buffer ordered.
LEMMA SlotsMore ==
    ASSUME NEW rr, NEW r2, NEW q, NEW q2, NEW n, NEW s, Longer(rr, r2, q, q2, n, s)
    PROVE  Slots(q2, n + 1) = Slots(q, n) \cup {s} /\ Ordered(r2, q2, n + 1)
<1>1. n \in Nat /\ n + 1 \in Nat /\ n + 1 \in 1..n+1
  BY DEF Longer
<1>2. \A k \in 1..n+1 : k \in 1..n \/ k = n + 1
  BY <1>1
<1>3. \A k \in 1..n : k \in 1..n+1
  BY <1>1
<1>4. ASSUME NEW x \in Slots(q2, n + 1) PROVE x \in Slots(q, n) \cup {s}
  <2>1. PICK k \in 1..n+1 : x = q2[k]
    BY DEF Slots
  <2> QED
    BY <1>2, <2>1 DEF Slots, Longer
<1>5. ASSUME NEW x \in Slots(q, n) \cup {s} PROVE x \in Slots(q2, n + 1)
  <2>1. CASE x = s
    BY <1>1, <2>1 DEF Slots, Longer
  <2>2. CASE x \in Slots(q, n)
    <3>1. PICK k \in 1..n : x = q[k]
      BY <2>2 DEF Slots
    <3> QED
      BY <1>3, <3>1 DEF Slots, Longer
  <2> QED
    BY <2>1, <2>2
<1>6. Ordered(r2, q2, n + 1)
  <2> SUFFICES ASSUME NEW j \in 1..n+1, NEW k \in 1..n+1, j < k
               PROVE  r2[q2[j]].seq < r2[q2[k]].seq
    BY DEF Ordered
  <2>1. j \in 1..n
    BY <1>1
  <2>2. CASE k \in 1..n
    BY <2>1, <2>2 DEF Longer, Ordered
  <2>3. CASE k = n + 1
    BY <2>1, <2>3 DEF Longer
  <2> QED
    BY <1>2, <2>2, <2>3
<1> QED
  BY <1>4, <1>5, <1>6

\* The stations that dispatch fills in are free, and follow the youngest.
LEMMA NextFree ==
    ASSUME Inv, RUU_num < RUU_size, LSQ_num < LSQ_size
    PROVE  LET r == RUU(RUU_head + RUU_num)
               l == LSQ(LSQ_head + LSQ_num)
           IN  /\ r \in Stations \ Live /\ ~in_LSQ(r)
               /\ l \in Stations \ Live /\ in_LSQ(l)
<1>1. /\ RUU_size \in Nat \ {0} /\ LSQ_size \in Nat \ {0}
      /\ RUU_num \in 0..RUU_size-1 /\ LSQ_num \in 0..LSQ_size-1
      /\ RUU_head \in 0..RUU_size-1 /\ LSQ_head \in 0..LSQ_size-1
      /\ RUU_head + RUU_num \in Nat /\ LSQ_head + LSQ_num \in Nat
  BY LiveFacts DEF Inv, Types
<1>2. /\ Live = Slots(RuuLive, RUU_num) \cup Slots(LsqLive, LSQ_num)
      /\ \A x \in Live : /\ in_LSQ(x) <=> x \in Slots(LsqLive, LSQ_num)
                         /\ ~in_LSQ(x) <=> x \in Slots(RuuLive, RUU_num)
  BY LiveFacts DEF Inv
<1>3. PICK r, l : r = RUU(RUU_head + RUU_num) /\ l = LSQ(LSQ_head + LSQ_num)
  OBVIOUS
<1>4. r \in Stations /\ ~in_LSQ(r) /\ l \in Stations /\ in_LSQ(l)
  BY <1>1, <1>3, StationOf
<1>5. r \notin Slots(RuuLive, RUU_num)
  <2>1. r = <<"RUU", (RUU_head + RUU_num) % RUU_size>>
        /\ RuuLive = Ring("RUU", RUU_size, RUU_head, RUU_num)
    BY <1>3, Buffers
  <2>2. PICK a, h, n : a = RUU_size /\ h = RUU_head /\ n = RUU_num
    OBVIOUS
  <2>3. a \in Nat \ {0} /\ h \in 0..a-1 /\ n \in 0..a-1
    BY <1>1, <2>2
  <2>4. \A k \in 1..n : Ring("RUU", a, h, n)[k] # <<"RUU", (h + n) % a>>
    <3>1. OneMore("RUU", a, h, n)
      BY <2>3, RingNext
    <3> QED
      BY <3>1 DEF OneMore
  <2>5. \A k \in 1..RUU_num : RuuLive[k] # r
    BY <2>1, <2>2, <2>4
  <2> QED
    BY <2>5 DEF Slots
<1>6. l \notin Slots(LsqLive, LSQ_num)
  <2>1. l = <<"LSQ", (LSQ_head + LSQ_num) % LSQ_size>>
        /\ LsqLive = Ring("LSQ", LSQ_size, LSQ_head, LSQ_num)
    BY <1>3, Buffers
  <2>2. PICK a, h, n : a = LSQ_size /\ h = LSQ_head /\ n = LSQ_num
    OBVIOUS
  <2>3. a \in Nat \ {0} /\ h \in 0..a-1 /\ n \in 0..a-1
    BY <1>1, <2>2
  <2>4. \A k \in 1..n : Ring("LSQ", a, h, n)[k] # <<"LSQ", (h + n) % a>>
    <3>1. OneMore("LSQ", a, h, n)
      BY <2>3, RingNext
    <3> QED
      BY <3>1 DEF OneMore
  <2>5. \A k \in 1..LSQ_num : LsqLive[k] # l
    BY <2>1, <2>2, <2>4
  <2> QED
    BY <2>5 DEF Slots
<1> QED
  BY <1>2, <1>3, <1>4, <1>5, <1>6

\* The registers of an instruction.
LEMMA InstTypes ==
    ASSUME NEW i \in Insts
    PROVE  /\ Filling(i) /\ DTMP \in Regs
           /\ i.ins \in [1..3 -> Regs \cup {NA}] /\ i.outs \in [1..2 -> Regs \cup {NA}]
           /\ i.kind \in {"alu", "load", "store", "ctrl", "trap"}
           /\ i.kind = "store" => i.outs[1] = NA /\ i.outs[2] = NA /\ i.fu # NA
<1>1. /\ i \in [kind : {"alu", "load", "store", "ctrl", "trap"},
                fu : DOMAIN FuTable \cup {NA}, longlat : BOOLEAN,
                outs : [1..2 -> STRING], ins : [1..3 -> STRING], addr : Nat]
      /\ i.kind = "store" => i.outs = <<NA, NA>> /\ i.fu # NA
  BY RuuAssumption
<1>2. /\ i.kind \in {"alu", "load", "store", "ctrl", "trap"}
      /\ i.fu \in DOMAIN FuTable \cup {NA} /\ i.longlat \in BOOLEAN /\ i.addr \in Nat
      /\ i.outs \in [1..2 -> STRING] /\ i.ins \in [1..3 -> STRING]
  BY <1>1
<1>3. Filling(i)
  BY <1>2 DEF Filling, Kinds
<1>4. PICK R : R = {{j.ins[k] : k \in 1..3} \cup {j.outs[k] : k \in 1..2} : j \in Insts}
  OBVIOUS
<1>5. Regs = ((UNION R) \cup {DTMP}) \ {NA}
  BY <1>4 DEF Regs
<1>6. DTMP # NA
  BY DEF DTMP, NA
<1>7. DTMP \in Regs
  BY <1>5, <1>6
<1>8. {i.ins[k] : k \in 1..3} \cup {i.outs[k] : k \in 1..2} \in R
  BY <1>4
<1>9. \A k \in 1..3 : i.ins[k] \in Regs \cup {NA}
  BY <1>5, <1>8
<1>10. \A k \in 1..2 : i.outs[k] \in Regs \cup {NA}
  BY <1>5, <1>8
<1>11. i.ins \in [1..3 -> Regs \cup {NA}] /\ i.outs \in [1..2 -> Regs \cup {NA}]
  BY <1>2, <1>9, <1>10
<1>12. i.kind = "store" => i.outs[1] = NA /\ i.outs[2] = NA /\ i.fu # NA
  BY <1>1
<1> QED
  BY <1>2, <1>3, <1>7, <1>11, <1>12

\* v is w with station s filled in for i, with these output registers.
PutDone(w, v, A, s, i, seq, outs, nd, ev) ==
    /\ Core(v, A \cup {s}, nd, ev) /\ Putting(w, v, A \cup {s}, s, i, seq, {})
    /\ v.rs[s].onames[1] = outs[1] /\ v.rs[s].onames[2] = outs[2]

\* A new station joins the state that the helpers thread through a stage.
LEMMA PutCore ==
    ASSUME NEW w, NEW A, NEW s, NEW i, NEW seq, NEW nd, NEW ev, Core(w, A, nd, ev),
           Fillable(w, A, s, i, seq),
           NEW ins \in [1..3 -> Regs \cup {NA}], NEW outs \in [1..2 -> Regs \cup {NA}],
           NEW v, v = Put(w, s, i, seq, ins, outs)
    PROVE  PutDone(w, v, A, s, i, seq, outs, nd, ev)
<1>1. /\ Putting(w, v, A \cup {s}, s, i, seq, {}) /\ Structure(v, A \cup {s})
      /\ \A k \in 1..2 : v.rs[s].onames[k] = outs[k]
  BY PutEffect
<1>2. Queues(w, A, nd, ev)
  BY DEF Core
<1>3. Queues(v, A \cup {s}, nd, ev)
  BY <1>1, <1>2, PutQueues
<1> QED
  BY <1>1, <1>3 DEF Core, PutDone

\* v is w with station s on the ready queue if "ready".
MaybeQueued(w, v, s, ready) ==
    /\ v.panics = w.panics
    /\ \A x \in Stations : /\ Alike(v.rs[x], w.rs[x])
                           /\ v.rs[x].idep_ready = w.rs[x].idep_ready
                           /\ v.rs[x].queued <=> w.rs[x].queued \/ (x = s /\ ready)

\* Dispatch queues an instruction whose operands are ready, and the queues agree
\* with the stations again.
LEMMA QueueIfCore ==
    ASSUME NEW w, NEW A, NEW nd, NEW ev, NEW s \in A, NEW ready \in BOOLEAN,
           Core(w, A, nd, ev), ready => OPERANDS_READY(w.rs[s]),
           ~w.rs[s].queued, ~w.rs[s].issued
    PROVE  Core(QueueIf(w, s, ready), A, nd, ev) /\ MaybeQueued(w, QueueIf(w, s, ready), s, ready)
<1>1. CASE ~ready
  <2>1. QueueIf(w, s, ready) = w
    BY <1>1 DEF QueueIf
  <2>2. MaybeQueued(w, w, s, ready)
    BY <1>1 DEF MaybeQueued, Alike
  <2> QED
    BY <2>1, <2>2
<1>2. CASE ready
  <2>1. PICK v : v = readyq_enqueue(w, s)
    OBVIOUS
  <2>2. Core(v, A, nd, ev) /\ Queued(w, v, s)
    BY <1>2, <2>1, EnqueueCore
  <2>3. w \in Worlds
    BY CoreFacts
  <2>4. \A x \in Stations : w.rs[x].queued \in BOOLEAN
    <3> SUFFICES ASSUME NEW x \in Stations PROVE w.rs[x].queued \in BOOLEAN
      OBVIOUS
    <3>1. w.rs[x] \in RSType
      BY <2>3 DEF Worlds
    <3> QED
      BY <3>1 DEF RSType
  <2>5. MaybeQueued(w, v, s, ready)
    BY <1>2, <2>2, <2>4 DEF Queued, MaybeQueued
  <2>6. QueueIf(w, s, ready) = v
    BY <1>2, <2>1 DEF QueueIf
  <2> QED
    BY <2>2, <2>5, <2>6
<1> QED
  BY <1>1, <1>2

\* A new station can be filled in.
LEMMA MayFill ==
    ASSUME Inv, NEW s \in Stations \ Live, NEW i, Filling(i)
    PROVE  Fillable(World, Live, s, i, inst_seq + 1)
<1>1. Kinded(rs, Live, inst_seq) /\ inst_seq \in Nat /\ spec_mode \in BOOLEAN
  BY DEF Inv, Types, Window
<1>2. inst_seq + 1 \in Nat
  BY <1>1
<1>3. Structure(World, Live) /\ World.rs = rs
  BY InvFacts
<1>4. \A x \in Live : rs[x].seq < inst_seq + 1
  <2> SUFFICES ASSUME NEW x \in Live PROVE rs[x].seq < inst_seq + 1
    OBVIOUS
  <2>1. rs[x].seq \in 1..inst_seq
    BY <1>1 DEF Kinded
  <2> QED
    BY <1>1, <2>1
<1> QED
  BY <1>1, <1>2, <1>3, <1>4 DEF Fillable

-----------------------------------------------------------------------------
\* The instruction of a station stays in the same state of execution.
Carried(a, b) ==
    Onward(a, b) /\ b.queued = a.queued /\ b.issued = a.issued /\ b.completed = a.completed

\* A station that dispatch has filled in for i.
Entered(r, i, seq, rec) ==
    /\ r.kind = i.kind /\ r.fu = i.fu /\ r.ea_comp = (i.kind = "agen")
    /\ r.recover_inst = rec /\ r.spec_mode = spec_mode /\ r.seq = seq
    /\ r.issued = FALSE /\ r.completed = FALSE

\* Put carries the other stations over, and enters the new one.
LEMMA PutCarries ==
    ASSUME NEW w, NEW v, NEW B, NEW s, NEW i, NEW seq, Putting(w, v, B, s, i, seq, {})
    PROVE  /\ \A x \in Stations : x # s => Carried(w.rs[x], v.rs[x])
           /\ Entered(v.rs[s], i, seq, FALSE) /\ ~v.rs[s].queued
<1>1. ASSUME NEW x \in Stations, x # s PROVE Carried(w.rs[x], v.rs[x])
  <2>1. Kept(v.rs[x], w.rs[x]) /\ v.rs[x].idep_ready = w.rs[x].idep_ready
    BY <1>1 DEF Putting
  <2> QED
    BY <2>1 DEF Kept, Carried, Onward
<1>2. New(v.rs[s], i, seq, w.rs[s].tag)
  BY DEF Putting
<1>3. Entered(v.rs[s], i, seq, FALSE) /\ ~v.rs[s].queued
  BY <1>2 DEF New, Entered
<1> QED
  BY <1>1, <1>3

\* All stations but s are carried over, and what was entered stays so.
QueueDone(w, v, s) ==
    /\ \A x \in Stations : x # s => Carried(w.rs[x], v.rs[x])
    /\ \A x \in Stations : \A i, seq, rec :
          Entered(w.rs[x], i, seq, rec) => Entered(v.rs[x], i, seq, rec)

\* Queueing a station does that.
LEMMA QueueCarries ==
    ASSUME NEW w \in Worlds, NEW v \in Worlds, NEW s, NEW ready, MaybeQueued(w, v, s, ready)
    PROVE  QueueDone(w, v, s)
<1>1. ASSUME NEW x \in Stations, x # s PROVE Carried(w.rs[x], v.rs[x])
  <2>1. w.rs[x] \in RSType /\ v.rs[x] \in RSType
    BY DEF Worlds
  <2>2. w.rs[x].queued \in BOOLEAN /\ v.rs[x].queued \in BOOLEAN
    BY <2>1 DEF RSType
  <2>3. /\ Alike(v.rs[x], w.rs[x]) /\ v.rs[x].idep_ready = w.rs[x].idep_ready
        /\ v.rs[x].queued <=> w.rs[x].queued
    BY <1>1 DEF MaybeQueued
  <2> QED
    BY <2>2, <2>3 DEF Alike, Carried, Onward
<1>2. ASSUME NEW x \in Stations, NEW i, NEW seq, NEW rec, Entered(w.rs[x], i, seq, rec)
      PROVE  Entered(v.rs[x], i, seq, rec)
  <2>1. Alike(v.rs[x], w.rs[x])
    BY DEF MaybeQueued
  <2> QED
    BY <1>2, <2>1 DEF Alike, Entered
<1> QED
  BY <1>1, <1>2 DEF QueueDone

\* Two steps carry over what each of them does.
LEMMA CarriedTwice ==
    ASSUME NEW a, NEW b, NEW c, Carried(a, b), Carried(b, c)
    PROVE  Carried(a, c)
BY DEF Carried, Onward

\* v is w with the flag of station s set to rec.
RecoverSet(w, v, A, s, rec, nd, ev) ==
    /\ Core(v, A, nd, ev) /\ v.panics = w.panics
    /\ \A x \in Stations : x # s => v.rs[x] = w.rs[x]
    /\ \A i, seq, r : Entered(w.rs[s], i, seq, r) => Entered(v.rs[s], i, seq, rec)

\* The flag of a mispredicted branch is set.
LEMMA SetRecover ==
    ASSUME NEW w, NEW A, NEW nd, NEW ev, NEW s \in A, NEW rec \in BOOLEAN, Core(w, A, nd, ev),
           NEW v, v = [w EXCEPT !.rs[s].recover_inst = rec]
    PROVE  RecoverSet(w, v, A, s, rec, nd, ev)
<1>1. w \in Worlds /\ A \subseteq Stations /\ w.rs \in [Stations -> RSType] /\ StatusOK(w.rs)
      /\ Structure(w, A) /\ Queues(w, A, nd, ev) /\ s \in Stations
  BY CoreFacts
<1>2. PICK r : r = w.rs[s]
  OBVIOUS
<1>3. r \in RSType
  BY <1>1, <1>2
<1>4. PICK r2 : r2 = [r EXCEPT !.recover_inst = rec]
  OBVIOUS
<1>5. /\ r2 \in RSType /\ r2.recover_inst = rec
      /\ r2.kind = r.kind /\ r2.fu = r.fu /\ r2.longlat = r.longlat
      /\ r2.addr = r.addr /\ r2.ea_comp = r.ea_comp /\ r2.tag = r.tag
      /\ r2.spec_mode = r.spec_mode /\ r2.seq = r.seq /\ r2.issued = r.issued
      /\ r2.completed = r.completed /\ r2.onames = r.onames /\ r2.queued = r.queued
      /\ r2.odep_list = r.odep_list /\ r2.idep_ready = r.idep_ready
  BY <1>3, <1>4 DEF RSType
<1>7. v = [w EXCEPT !.rs = [w.rs EXCEPT ![s] = r2]]
  BY <1>1, <1>2, <1>4 DEF Worlds
<1>8. PICK z \in [Stations -> RSType] : z = [w.rs EXCEPT ![s] = r2]
  BY <1>1, <1>5
<1>9. v \in Worlds /\ v.rs = z /\ v.panics = w.panics /\ v.ready_queue = w.ready_queue
      /\ v.create_vector = w.create_vector /\ v.use_spec_cv = w.use_spec_cv
      /\ v.spec_create_vector = w.spec_create_vector
  BY <1>1, <1>7, <1>8 DEF Worlds
<1>10. v.rs[s] = r2 /\ \A x \in Stations : x # s => v.rs[x] = w.rs[x]
  BY <1>1, <1>8, <1>9
<1>11. \A x \in Stations :
          /\ v.rs[x].tag = w.rs[x].tag /\ v.rs[x].seq = w.rs[x].seq
          /\ v.rs[x].onames = w.rs[x].onames /\ v.rs[x].odep_list = w.rs[x].odep_list
          /\ v.rs[x].idep_ready = w.rs[x].idep_ready
          /\ v.rs[x].spec_mode = w.rs[x].spec_mode
          /\ v.rs[x].completed = w.rs[x].completed
          /\ v.rs[x].queued = w.rs[x].queued /\ v.rs[x].issued = w.rs[x].issued
  BY <1>2, <1>5, <1>10
<1>12. Structure(v, A)
  <2>1. StructureLike(w, v, A)
    BY <1>9, <1>10, <1>11 DEF StructureLike
  <2> QED
    BY <1>1, <2>1, StructureFrame
<1>13. Queues(v, A, nd, ev)
  <2>1. \A x \in Stations : w.rs[x].queued \/ w.rs[x].issued => OPERANDS_READY(w.rs[x])
    BY <1>1 DEF StatusOK
  <2>2. \A x \in Stations : v.rs[x].queued \/ v.rs[x].issued => OPERANDS_READY(v.rs[x])
    BY <1>11, <2>1 DEF OPERANDS_READY
  <2>3. QueuesLike(w, v, A, A)
    BY <1>1, <1>9, <1>11, <2>2 DEF QueuesLike
  <2> QED
    BY <1>1, <2>3, QueuesFrame
<1>14. \A i, seq, r3 : Entered(w.rs[s], i, seq, r3) => Entered(v.rs[s], i, seq, rec)
  BY <1>2, <1>5, <1>10 DEF Entered
<1> QED
  BY <1>9, <1>10, <1>12, <1>13, <1>14 DEF Core, RecoverSet

-----------------------------------------------------------------------------
\* What dispatch leaves of the stations in flight.
AllCarried(rr, r2, A) == \A x \in A : Carried(rr[x], r2[x])

\* An instruction that is no load or store gets station r of the RUU.
LEMMA RegPut ==
    ASSUME Inv, NEW r \in Stations \ Live, r = RUU(RUU_head + RUU_num),
           NEW i \in Insts, NEW mispredicted \in BOOLEAN,
           NEW w, w = DispatchReg(i, mispredicted)
    PROVE  /\ Core(w, Live \cup {r}, node, event_queue) /\ w.panics = panics
           /\ AllCarried(rs, w.rs, Live)
           /\ Entered(w.rs[r], i, inst_seq + 1, mispredicted)
<1>1. /\ Core(World, Live, node, event_queue) /\ World.rs = rs /\ World.panics = panics
      /\ Live \subseteq Stations
  BY InvFacts, LiveFacts
<1>2. /\ Filling(i) /\ i.ins \in [1..3 -> Regs \cup {NA}]
      /\ i.outs \in [1..2 -> Regs \cup {NA}]
  BY InstTypes
<1>3. Fillable(World, Live, r, i, inst_seq + 1)
  BY <1>2, MayFill
<1>4. PICK w1 : w1 = Put(World, r, i, inst_seq + 1, i.ins, i.outs)
  OBVIOUS
<1>5. /\ Core(w1, Live \cup {r}, node, event_queue)
      /\ Putting(World, w1, Live \cup {r}, r, i, inst_seq + 1, {})
  <2>1. PICK o, ins : o = i.outs /\ ins = i.ins
    OBVIOUS
  <2>2. /\ o \in [1..2 -> Regs \cup {NA}] /\ ins \in [1..3 -> Regs \cup {NA}]
        /\ w1 = Put(World, r, i, inst_seq + 1, ins, o)
    BY <1>2, <1>4, <2>1
  <2>3. PutDone(World, w1, Live, r, i, inst_seq + 1, o, node, event_queue)
    BY <1>1, <1>3, <2>2, PutCore
  <2> QED
    BY <2>3 DEF PutDone
<1>6. /\ \A x \in Stations : x # r => Carried(rs[x], w1.rs[x])
      /\ Entered(w1.rs[r], i, inst_seq + 1, FALSE) /\ ~w1.rs[r].queued
      /\ w1.panics = panics
  <2>1. w1.panics = World.panics
    BY <1>5 DEF Putting
  <2> QED
    BY <1>1, <1>5, <2>1, PutCarries
<1>7. PICK ready \in BOOLEAN : ready <=> OPERANDS_READY(w1.rs[r])
  BY DEF OPERANDS_READY
<1>8. PICK w2 : w2 = QueueIf(w1, r, ready)
  OBVIOUS
<1>9. Core(w2, Live \cup {r}, node, event_queue) /\ MaybeQueued(w1, w2, r, ready)
  <2>1. ~w1.rs[r].issued
    BY <1>6 DEF Entered
  <2>2. r \in Live \cup {r} /\ (ready => OPERANDS_READY(w1.rs[r]))
    BY <1>7
  <2> QED
    BY <1>5, <1>6, <1>8, <2>1, <2>2, QueueIfCore
<1>10. w1 \in Worlds /\ w2 \in Worlds
  BY <1>5, <1>9, CoreFacts
<1>11. /\ \A x \in Stations : x # r => Carried(w1.rs[x], w2.rs[x])
       /\ Entered(w2.rs[r], i, inst_seq + 1, FALSE) /\ w2.panics = panics
  <2>1. w2.panics = w1.panics
    BY <1>9 DEF MaybeQueued
  <2>2. QueueDone(w1, w2, r)
    BY <1>9, <1>10, QueueCarries
  <2> QED
    BY <1>6, <2>1, <2>2 DEF QueueDone
<1>12. w = [w2 EXCEPT !.rs[r].recover_inst = mispredicted]
  <2>1. QueueIf(w1, r, OPERANDS_READY(w1.rs[r])) = w2
    BY <1>7, <1>8 DEF QueueIf
  <2> QED
    BY <1>4, <2>1 DEF DispatchReg
<1>13. r \in Live \cup {r}
  OBVIOUS
<1>14. PICK v : v = [w2 EXCEPT !.rs[r].recover_inst = mispredicted]
  OBVIOUS
<1>15. /\ Core(v, Live \cup {r}, node, event_queue) /\ v.panics = panics
       /\ \A x \in Stations : x # r => v.rs[x] = w2.rs[x]
       /\ Entered(v.rs[r], i, inst_seq + 1, mispredicted)
  <2>1. RecoverSet(w2, v, Live \cup {r}, r, mispredicted, node, event_queue)
    BY <1>9, <1>13, <1>14, SetRecover
  <2> QED
    BY <1>11, <2>1 DEF RecoverSet
<1>16. AllCarried(rs, v.rs, Live)
  <2> SUFFICES ASSUME NEW x \in Live PROVE Carried(rs[x], v.rs[x])
    BY DEF AllCarried
  <2>1. x \in Stations /\ x # r
    BY <1>1
  <2>2. Carried(rs[x], w1.rs[x]) /\ Carried(w1.rs[x], w2.rs[x]) /\ v.rs[x] = w2.rs[x]
    BY <1>6, <1>11, <1>15, <2>1
  <2> QED
    BY <2>2, CarriedTwice
<1> QED
  BY <1>12, <1>14, <1>15, <1>16

\* The address computation of a load or store.
Agen == [kind |-> "agen", fu |-> "IntALU", longlat |-> FALSE, addr |-> 0]

\* A load or store has station r of the RUU and station l of the LSQ.
MemDone(w, r, l, i) ==
    /\ Core(w, (Live \cup {r}) \cup {l}, node, event_queue) /\ w.panics = panics
    /\ AllCarried(rs, w.rs, Live)
    /\ Entered(w.rs[r], Agen, inst_seq + 1, FALSE)
    /\ Entered(w.rs[l], i, inst_seq + 2, FALSE)
    /\ w.rs[l].onames[1] = i.outs[1] /\ w.rs[l].onames[2] = i.outs[2]
    /\ i.kind # "store" => ~w.rs[l].queued

\* It gets them.
LEMMA MemPut ==
    ASSUME Inv, NEW r \in Stations \ Live, r = RUU(RUU_head + RUU_num),
           NEW l \in Stations \ Live, l = LSQ(LSQ_head + LSQ_num), l # r,
           NEW i \in Insts, NEW w, w = DispatchMem(i)
    PROVE  MemDone(w, r, l, i)
<1>1. /\ Core(World, Live, node, event_queue) /\ World.rs = rs /\ World.panics = panics
      /\ Live \subseteq Stations /\ spec_mode \in BOOLEAN /\ inst_seq \in Nat
  BY InvFacts, LiveFacts DEF Types
<1>2. /\ Filling(i) /\ DTMP \in Regs /\ i.ins \in [1..3 -> Regs \cup {NA}]
      /\ i.outs \in [1..2 -> Regs \cup {NA}]
  BY InstTypes
<1>3. Filling(Agen)
  <2>1. "IntALU" \in DOMAIN FuTable
    BY RuuAssumption
  <2> QED
    BY <2>1 DEF Filling, Agen, Kinds
<1>4. PICK ins1, outs1, ins2 : /\ ins1 = <<NA, i.ins[2], i.ins[3]>> /\ outs1 = <<DTMP, NA>>
                               /\ ins2 = <<i.ins[1], DTMP, NA>>
  OBVIOUS
<1>5. /\ ins1 \in [1..3 -> Regs \cup {NA}] /\ ins2 \in [1..3 -> Regs \cup {NA}]
      /\ outs1 \in [1..2 -> Regs \cup {NA}]
  <2>1. PICK R : R = Regs \cup {NA}
    OBVIOUS
  <2>2. PICK a1, a2, a3 : a1 = i.ins[1] /\ a2 = i.ins[2] /\ a3 = i.ins[3]
    OBVIOUS
  <2>3. NA \in R /\ DTMP \in R /\ a1 \in R /\ a2 \in R /\ a3 \in R
    BY <1>2, <2>1, <2>2
  <2>4. <<NA, a2, a3>> \in [1..3 -> R] /\ <<a1, DTMP, NA>> \in [1..3 -> R]
    BY <2>3, TripleType
  <2>5. <<DTMP, NA>> \in [1..2 -> R]
    BY <2>3, PairType
  <2> QED
    BY <1>4, <2>1, <2>2, <2>4, <2>5
<1>6. PICK s1, s2 \in Nat : s1 = inst_seq + 1 /\ s2 = inst_seq + 2
  BY <1>1
<1>7. PICK g : g = Agen
  OBVIOUS
<1>8. PICK w1 : w1 = Put(World, r, g, s1, ins1, outs1)
  OBVIOUS
<1>9. PICK A, B : A = Live \cup {r} /\ B = A \cup {l}
  OBVIOUS
<1>10. /\ Core(w1, A, node, event_queue)
       /\ Putting(World, w1, A, r, g, s1, {})
  <2>1. Fillable(World, Live, r, g, s1)
    BY <1>3, <1>6, <1>7, MayFill
  <2> QED
    <3>1. PutDone(World, w1, Live, r, g, s1, outs1, node, event_queue)
      BY <1>1, <1>5, <1>8, <2>1, PutCore
    <3> QED
      BY <1>9, <3>1 DEF PutDone
<1>11. /\ \A x \in Stations : x # r => Carried(rs[x], w1.rs[x])
       /\ Entered(w1.rs[r], g, s1, FALSE) /\ ~w1.rs[r].queued
       /\ w1.panics = panics
  <2>1. w1.panics = World.panics
    BY <1>10 DEF Putting
  <2> QED
    BY <1>1, <1>10, <2>1, PutCarries
<1>12. PICK w2 : w2 = Put(w1, l, i, s2, ins2, i.outs)
  OBVIOUS
<1>13. /\ Core(w2, B, node, event_queue) /\ Putting(w1, w2, B, l, i, s2, {})
       /\ w2.rs[l].onames[1] = i.outs[1] /\ w2.rs[l].onames[2] = i.outs[2]
  <2>1. Fillable(w1, A, l, i, s2)
    <3>1. \A x \in A : w1.rs[x].seq < s2
      <4> SUFFICES ASSUME NEW x \in A PROVE w1.rs[x].seq < s2
        OBVIOUS
      <4>1. CASE x = r
        BY <1>1, <1>6, <1>11, <4>1 DEF Entered
      <4>2. CASE x \in Live
        <5>1. x \in Stations /\ x # r
          BY <1>1, <4>2
        <5>2. w1.rs[x].seq = rs[x].seq
          BY <1>11, <5>1 DEF Carried, Onward
        <5>3. rs[x].seq \in 1..inst_seq
          BY <4>2 DEF Inv, Window, Kinded
        <5> QED
          BY <1>1, <1>6, <5>2, <5>3
      <4> QED
        BY <1>9, <4>1, <4>2
    <3>2. l \in Stations \ A
      BY <1>9
    <3>3. Structure(w1, A)
      BY <1>10 DEF Core
    <3> QED
      BY <1>1, <1>2, <3>1, <3>2, <3>3 DEF Fillable
  <2>2. PICK o : o = i.outs
    OBVIOUS
  <2>3. o \in [1..2 -> Regs \cup {NA}] /\ w2 = Put(w1, l, i, s2, ins2, o)
    BY <1>2, <1>12, <2>2
  <2>4. PutDone(w1, w2, A, l, i, s2, o, node, event_queue)
    BY <1>5, <1>10, <2>1, <2>3, PutCore
  <2> QED
    BY <1>9, <2>2, <2>4 DEF PutDone
<1>14. /\ \A x \in Stations : x # l => Carried(w1.rs[x], w2.rs[x])
       /\ Entered(w2.rs[l], i, s2, FALSE) /\ ~w2.rs[l].queued
       /\ w2.panics = panics
  <2>1. w2.panics = w1.panics
    BY <1>13 DEF Putting
  <2> QED
    BY <1>11, <1>13, <2>1, PutCarries
<1>15. Entered(w2.rs[r], g, s1, FALSE) /\ ~w2.rs[r].queued
  <2>1. Kept(w2.rs[r], w1.rs[r])
    BY <1>13 DEF Putting
  <2> QED
    BY <1>11, <2>1 DEF Kept, Entered
<1>16. PICK b1 \in BOOLEAN : b1 <=> OPERANDS_READY(w2.rs[r])
  BY DEF OPERANDS_READY
<1>17. PICK w3 : w3 = QueueIf(w2, r, b1)
  OBVIOUS
<1>18. Core(w3, B, node, event_queue) /\ MaybeQueued(w2, w3, r, b1)
  <2>1. ~w2.rs[r].issued
    BY <1>15 DEF Entered
  <2>2. r \in B /\ (b1 => OPERANDS_READY(w2.rs[r]))
    BY <1>9, <1>16
  <2> QED
    BY <1>13, <1>15, <1>17, <2>1, <2>2, QueueIfCore
<1>19. w2 \in Worlds /\ w3 \in Worlds
  BY <1>13, <1>18, CoreFacts
<1>20. /\ \A x \in Stations : x # r => Carried(w2.rs[x], w3.rs[x])
       /\ Entered(w3.rs[r], g, s1, FALSE) /\ Entered(w3.rs[l], i, s2, FALSE)
       /\ ~w3.rs[l].queued /\ w3.panics = panics
       /\ w3.rs[l].onames[1] = i.outs[1] /\ w3.rs[l].onames[2] = i.outs[2]
  <2>1. w3.panics = w2.panics /\ (w3.rs[l].queued <=> w2.rs[l].queued)
        /\ w3.rs[l].onames = w2.rs[l].onames
    BY <1>18 DEF MaybeQueued, Alike
  <2>2. QueueDone(w2, w3, r)
    BY <1>18, <1>19, QueueCarries
  <2>3. Entered(w3.rs[r], g, s1, FALSE) /\ Entered(w3.rs[l], i, s2, FALSE)
    BY <1>14, <1>15, <2>2 DEF QueueDone
  <2> QED
    BY <1>13, <1>14, <2>1, <2>2, <2>3 DEF QueueDone
<1>21. PICK b2 \in BOOLEAN : b2 <=> i.kind = "store" /\ OPERANDS_READY(w3.rs[l])
  BY DEF OPERANDS_READY
<1>22. PICK w4 : w4 = QueueIf(w3, l, b2)
  OBVIOUS
<1>23. Core(w4, B, node, event_queue) /\ MaybeQueued(w3, w4, l, b2)
  <2>1. ~w3.rs[l].issued
    BY <1>20 DEF Entered
  <2>2. l \in B /\ (b2 => OPERANDS_READY(w3.rs[l]))
    BY <1>9, <1>21
  <2> QED
    BY <1>18, <1>20, <1>22, <2>1, <2>2, QueueIfCore
<1>24. w4 \in Worlds
  BY <1>23, CoreFacts
<1>25. /\ \A x \in Stations : x # l => Carried(w3.rs[x], w4.rs[x])
       /\ Entered(w4.rs[r], g, s1, FALSE) /\ Entered(w4.rs[l], i, s2, FALSE)
  <2>1. QueueDone(w3, w4, l)
    BY <1>19, <1>23, <1>24, QueueCarries
  <2> QED
    BY <1>20, <2>1 DEF QueueDone
<1>26. /\ w4.panics = panics /\ (i.kind # "store" => ~w4.rs[l].queued)
       /\ w4.rs[l].onames[1] = i.outs[1] /\ w4.rs[l].onames[2] = i.outs[2]
  <2>1. w4.panics = w3.panics /\ (w4.rs[l].queued <=> w3.rs[l].queued \/ b2)
        /\ w4.rs[l].onames = w3.rs[l].onames
    BY <1>23 DEF MaybeQueued, Alike
  <2> QED
    BY <1>20, <1>21, <2>1
<1>27. AllCarried(rs, w4.rs, Live)
  <2> SUFFICES ASSUME NEW x \in Live PROVE Carried(rs[x], w4.rs[x])
    BY DEF AllCarried
  <2>1. x \in Stations /\ x # r /\ x # l
    BY <1>1
  <2>2. /\ Carried(rs[x], w1.rs[x]) /\ Carried(w1.rs[x], w2.rs[x])
        /\ Carried(w2.rs[x], w3.rs[x]) /\ Carried(w3.rs[x], w4.rs[x])
    BY <1>11, <1>14, <1>20, <1>25, <2>1
  <2>3. Carried(rs[x], w2.rs[x]) /\ Carried(w2.rs[x], w4.rs[x])
    BY <2>2, CarriedTwice
  <2> QED
    BY <2>3, CarriedTwice
<1>28. w = w4
  <2>1. w1 = Put(World, r, Agen, inst_seq + 1, <<NA, i.ins[2], i.ins[3]>>, <<DTMP, NA>>)
    BY <1>4, <1>6, <1>7, <1>8
  <2>2. w2 = Put(w1, l, i, inst_seq + 2, <<i.ins[1], DTMP, NA>>, i.outs)
    BY <1>4, <1>6, <1>12
  <2>3. QueueIf(w2, r, OPERANDS_READY(w2.rs[r])) = w3
    BY <1>16, <1>17 DEF QueueIf
  <2>4. QueueIf(w3, l, i.kind = "store" /\ OPERANDS_READY(w3.rs[l])) = w4
    BY <1>21, <1>22 DEF QueueIf
  <2> QED
    BY <2>1, <2>2, <2>3, <2>4 DEF DispatchMem, Agen
<1> QED
  BY <1>6, <1>7, <1>9, <1>23, <1>25, <1>26, <1>27, <1>28 DEF MemDone

-----------------------------------------------------------------------------
\* The window grows by an instruction that is no load or store.
LEMMA RegGrowing ==
    ASSUME Inv, NEW r \in Stations \ Live, ~in_LSQ(r),
           NEW i \in Insts, i.kind \notin {"load", "store"}, NEW rec \in BOOLEAN,
           rec => i.kind = "ctrl" /\ ~spec_mode,
           NEW r2, AllCarried(rs, r2, Live), Entered(r2[r], i, inst_seq + 1, rec)
    PROVE  Window(r2, Live \cup {r}, spec_mode \/ rec, inst_seq + 1)
<1>1. /\ Window(rs, Live, spec_mode, inst_seq) /\ spec_mode \in BOOLEAN /\ inst_seq \in Nat
      /\ Kinded(rs, Live, inst_seq)
  BY DEF Inv, Types, Window
<1>2. i.kind \in {"alu", "ctrl", "trap"}
  BY InstTypes
<1>3. PICK sq2 \in Nat : sq2 = inst_seq + 1
  BY <1>1
<1>4. /\ r2[r].kind \in {"alu", "ctrl", "trap"} /\ r2[r].ea_comp = FALSE
      /\ r2[r].recover_inst = rec /\ r2[r].spec_mode = spec_mode /\ r2[r].seq = sq2
      /\ r2[r].issued = FALSE /\ r2[r].completed = FALSE /\ (rec => r2[r].kind = "ctrl")
  BY <1>2, <1>3 DEF Entered
<1>5. Kinded(r2, {r}, sq2)
  <2>1. sq2 \in 1..sq2
    BY <1>1, <1>3
  <2>2. r2[r].kind # "agen" /\ ~Store(r2[r])
    BY <1>4 DEF Store
  <2> QED
    BY <1>4, <2>1, <2>2 DEF Kinded
<1>6. Paired(r2, {r})
  BY <1>4 DEF Paired
<1>7. \A x \in Live : /\ Onward(rs[x], r2[x]) /\ rs[x].seq \in Nat
                      /\ r2[x].queued = rs[x].queued /\ r2[x].issued = rs[x].issued
                      /\ r2[x].completed = rs[x].completed
  <2> SUFFICES ASSUME NEW x \in Live
               PROVE  /\ Onward(rs[x], r2[x]) /\ rs[x].seq \in Nat
                      /\ r2[x].queued = rs[x].queued /\ r2[x].issued = rs[x].issued
                      /\ r2[x].completed = rs[x].completed
    OBVIOUS
  <2>1. rs[x].seq \in 1..inst_seq
    BY <1>1 DEF Kinded
  <2>2. Carried(rs[x], r2[x])
    BY DEF AllCarried
  <2> QED
    BY <1>1, <2>1, <2>2 DEF Carried
<1>8. PICK sp2 \in BOOLEAN : sp2 = (spec_mode \/ rec)
  OBVIOUS
<1>9. Growing(rs, r2, Live, {r}, spec_mode, inst_seq, sp2, sq2)
  <2>1. inst_seq <= sq2 /\ r2[r].seq > inst_seq
    BY <1>1, <1>3, <1>4
  <2>2. sp2 = (spec_mode \/ \E x \in {r} : r2[x].recover_inst)
    BY <1>4, <1>8
  <2>3. r2[r].kind # "load"
    BY <1>4
  <2> QED
    BY <1>1, <1>4, <1>5, <1>6, <1>7, <2>1, <2>2, <2>3 DEF Growing
<1>10. Window(r2, Live \cup {r}, sp2, sq2)
  BY <1>1, <1>9, WindowGrow
<1> QED
  BY <1>3, <1>8, <1>10

\* The window grows by both halves of a load or store.
LEMMA MemGrowing ==
    ASSUME Inv, NEW r \in Stations \ Live, ~in_LSQ(r), NEW l \in Stations \ Live, in_LSQ(l),
           NEW i \in Insts, i.kind \in {"load", "store"},
           NEW r2, AllCarried(rs, r2, Live), Entered(r2[r], Agen, inst_seq + 1, FALSE),
           Entered(r2[l], i, inst_seq + 2, FALSE), i.kind # "store" => ~r2[l].queued,
           r2[l].onames[1] = i.outs[1], r2[l].onames[2] = i.outs[2]
    PROVE  Window(r2, Live \cup {r, l}, spec_mode, inst_seq + 2)
<1>1. /\ Window(rs, Live, spec_mode, inst_seq) /\ spec_mode \in BOOLEAN /\ inst_seq \in Nat
      /\ Kinded(rs, Live, inst_seq)
  BY DEF Inv, Types, Window
<1>2. PICK s1, s2 \in Nat : s1 = inst_seq + 1 /\ s2 = inst_seq + 2
  BY <1>1
<1>3. /\ r2[r].kind = "agen" /\ r2[r].ea_comp = TRUE
      /\ r2[r].recover_inst = FALSE /\ r2[r].spec_mode = spec_mode /\ r2[r].seq = s1
      /\ r2[r].issued = FALSE /\ r2[r].completed = FALSE
  BY <1>2 DEF Entered, Agen
<1>4. /\ r2[l].kind = i.kind /\ r2[l].ea_comp = FALSE /\ r2[l].fu = i.fu
      /\ r2[l].recover_inst = FALSE /\ r2[l].spec_mode = spec_mode /\ r2[l].seq = s2
      /\ r2[l].issued = FALSE /\ r2[l].completed = FALSE
  BY <1>2 DEF Entered
<1>5. PICK N : N = {r, l}
  OBVIOUS
<1>6. Kinded(r2, N, s2)
  <2>1. s1 \in 1..s2 /\ s2 \in 1..s2
    BY <1>1, <1>2
  <2>2. ~Store(r2[r])
    BY <1>3 DEF Store
  <2>3. Store(r2[l]) => /\ r2[l].onames[1] = NA /\ r2[l].onames[2] = NA /\ r2[l].fu # NA
    BY <1>4, InstTypes DEF Store
  <2>4. \A x \in N : x = r \/ x = l
    BY <1>5
  <2>5. /\ r2[r].seq \in 1..s2 /\ r2[l].seq \in 1..s2
        /\ r2[l].kind # "agen" /\ r2[l].kind \in {"load", "store"}
    BY <1>3, <1>4, <2>1
  <2> QED
    BY <1>3, <1>4, <2>2, <2>3, <2>4, <2>5 DEF Kinded
<1>7. Paired(r2, N)
  <2>1. r2[l].seq = r2[r].seq + 1
    BY <1>1, <1>2, <1>3, <1>4
  <2>2. Half(r2, r, l)
    BY <1>3, <2>1 DEF Half
  <2> QED
    BY <1>4, <1>5, <2>2 DEF Paired
<1>8. \A x \in Live : /\ Onward(rs[x], r2[x]) /\ rs[x].seq \in Nat
                      /\ r2[x].queued = rs[x].queued /\ r2[x].issued = rs[x].issued
                      /\ r2[x].completed = rs[x].completed
  <2> SUFFICES ASSUME NEW x \in Live
               PROVE  /\ Onward(rs[x], r2[x]) /\ rs[x].seq \in Nat
                      /\ r2[x].queued = rs[x].queued /\ r2[x].issued = rs[x].issued
                      /\ r2[x].completed = rs[x].completed
    OBVIOUS
  <2>1. rs[x].seq \in 1..inst_seq
    BY <1>1 DEF Kinded
  <2>2. Carried(rs[x], r2[x])
    BY DEF AllCarried
  <2> QED
    BY <1>1, <2>1, <2>2 DEF Carried
<1>9. Growing(rs, r2, Live, N, spec_mode, inst_seq, spec_mode, s2)
  <2>1. inst_seq <= s2 /\ r2[r].seq > inst_seq /\ r2[l].seq > inst_seq
    BY <1>1, <1>2, <1>3, <1>4
  <2>2. /\ \A x \in N : ~r2[x].recover_inst
        /\ spec_mode = (spec_mode \/ \E x \in N : r2[x].recover_inst)
    BY <1>1, <1>3, <1>4, <1>5
  <2>3. r2[l].kind = "load" => ~r2[l].queued /\ ~r2[l].issued
    BY <1>4
  <2>4. r2[r].kind # "load"
    BY <1>3
  <2>5. \A x \in N : /\ r2[x].seq > inst_seq /\ ~r2[x].completed /\ r2[x].spec_mode = spec_mode
                     /\ r2[x].kind = "load" => ~r2[x].queued /\ ~r2[x].issued
                     /\ r2[x].recover_inst => ~spec_mode /\ N = {x}
    BY <1>3, <1>4, <1>5, <2>1, <2>2, <2>3, <2>4
  <2> QED
    BY <1>1, <1>2, <1>6, <1>7, <1>8, <2>1, <2>2, <2>5 DEF Growing
<1>10. Window(r2, Live \cup N, spec_mode, s2)
  BY <1>1, <1>9, WindowGrow
<1> QED
  BY <1>2, <1>5, <1>10

-----------------------------------------------------------------------------
\* The RUU has one more entry.
LEMMA RuuGrows ==
    ASSUME Inv, RUU_num < RUU_size, RUU_head' = RUU_head, RUU_num' = RUU_num + 1,
           NEW s, s = RUU(RUU_head + RUU_num), NEW r2, AllCarried(rs, r2, Live),
           r2[s].seq \in Nat, r2[s].seq > inst_seq
    PROVE  /\ Slots(RuuLive', RUU_num') = Slots(RuuLive, RUU_num) \cup {s}
           /\ Ordered(r2, RuuLive', RUU_num') /\ RUU_num' \in 0..RUU_size
<1>1. /\ RUU_size \in Nat \ {0} /\ RUU_num \in Nat /\ RUU_num \in 0..RUU_size-1
      /\ RUU_head \in 0..RUU_size-1 /\ RUU_num' \in 0..RUU_size
      /\ inst_seq \in Nat /\ Kinded(rs, Live, inst_seq)
  BY LiveFacts DEF Inv, Types, Window
<1>2. PICK a, h, n : a = RUU_size /\ h = RUU_head /\ n = RUU_num
  OBVIOUS
<1>3. a \in Nat \ {0} /\ h \in 0..a-1 /\ n \in 0..a-1
  BY <1>1, <1>2
<1>4. OneMore("RUU", a, h, n)
  BY <1>3, RingNext
<1>5. PICK q, q2 : q = Ring("RUU", a, h, n) /\ q2 = Ring("RUU", a, h, n + 1)
  OBVIOUS
<1>6. RuuLive = q /\ RuuLive' = q2 /\ s = <<"RUU", (h + n) % a>>
  <2>1. RuuLive' = Ring("RUU", RUU_size, RUU_head, RUU_num + 1)
    BY DEF RuuLive, RUU, Ring
  <2> QED
    BY <1>2, <1>5, <2>1, Buffers
<1>7. q2[n + 1] = s /\ \A k \in 1..n : q2[k] = q[k]
  BY <1>4, <1>5, <1>6 DEF OneMore
<1>8. \A k \in 1..n : q[k] \in Live
  BY <1>2, <1>6, LiveFacts DEF Inv, Slots
<1>9. \A k \in 1..n : r2[q[k]].seq = rs[q[k]].seq /\ rs[q[k]].seq < r2[s].seq
  <2> SUFFICES ASSUME NEW k \in 1..n
               PROVE  r2[q[k]].seq = rs[q[k]].seq /\ rs[q[k]].seq < r2[s].seq
    OBVIOUS
  <2>1. rs[q[k]].seq \in 1..inst_seq
    BY <1>1, <1>8 DEF Kinded
  <2>2. r2[q[k]].seq = rs[q[k]].seq
    BY <1>8 DEF AllCarried, Carried, Onward
  <2> QED
    BY <1>1, <2>1, <2>2
<1>10. Ordered(rs, q, n) /\ n \in Nat
  BY <1>1, <1>2, <1>6 DEF Inv
<1>11. Longer(rs, r2, q, q2, n, s)
  BY <1>7, <1>9, <1>10 DEF Longer
<1>12. Slots(q2, n + 1) = Slots(q, n) \cup {s} /\ Ordered(r2, q2, n + 1)
  BY <1>11, SlotsMore
<1> QED
  BY <1>1, <1>2, <1>6, <1>12

\* The LSQ has one more entry.
LEMMA LsqGrows ==
    ASSUME Inv, LSQ_num < LSQ_size, LSQ_head' = LSQ_head, LSQ_num' = LSQ_num + 1,
           NEW s, s = LSQ(LSQ_head + LSQ_num), NEW r2, AllCarried(rs, r2, Live),
           r2[s].seq \in Nat, r2[s].seq > inst_seq
    PROVE  /\ Slots(LsqLive', LSQ_num') = Slots(LsqLive, LSQ_num) \cup {s}
           /\ Ordered(r2, LsqLive', LSQ_num') /\ LSQ_num' \in 0..LSQ_size
<1>1. /\ LSQ_size \in Nat \ {0} /\ LSQ_num \in Nat /\ LSQ_num \in 0..LSQ_size-1
      /\ LSQ_head \in 0..LSQ_size-1 /\ LSQ_num' \in 0..LSQ_size
      /\ inst_seq \in Nat /\ Kinded(rs, Live, inst_seq)
  BY LiveFacts DEF Inv, Types, Window
<1>2. PICK a, h, n : a = LSQ_size /\ h = LSQ_head /\ n = LSQ_num
  OBVIOUS
<1>3. a \in Nat \ {0} /\ h \in 0..a-1 /\ n \in 0..a-1
  BY <1>1, <1>2
<1>4. OneMore("LSQ", a, h, n)
  BY <1>3, RingNext
<1>5. PICK q, q2 : q = Ring("LSQ", a, h, n) /\ q2 = Ring("LSQ", a, h, n + 1)
  OBVIOUS
<1>6. LsqLive = q /\ LsqLive' = q2 /\ s = <<"LSQ", (h + n) % a>>
  <2>1. LsqLive' = Ring("LSQ", LSQ_size, LSQ_head, LSQ_num + 1)
    BY DEF LsqLive, LSQ, Ring
  <2> QED
    BY <1>2, <1>5, <2>1, Buffers
<1>7. q2[n + 1] = s /\ \A k \in 1..n : q2[k] = q[k]
  BY <1>4, <1>5, <1>6 DEF OneMore
<1>8. \A k \in 1..n : q[k] \in Live
  BY <1>2, <1>6, LiveFacts DEF Inv, Slots
<1>9. \A k \in 1..n : r2[q[k]].seq = rs[q[k]].seq /\ rs[q[k]].seq < r2[s].seq
  <2> SUFFICES ASSUME NEW k \in 1..n
               PROVE  r2[q[k]].seq = rs[q[k]].seq /\ rs[q[k]].seq < r2[s].seq
    OBVIOUS
  <2>1. rs[q[k]].seq \in 1..inst_seq
    BY <1>1, <1>8 DEF Kinded
  <2>2. r2[q[k]].seq = rs[q[k]].seq
    BY <1>8 DEF AllCarried, Carried, Onward
  <2> QED
    BY <1>1, <2>1, <2>2
<1>10. Ordered(rs, q, n) /\ n \in Nat
  BY <1>1, <1>2, <1>6 DEF Inv
<1>11. Longer(rs, r2, q, q2, n, s)
  BY <1>7, <1>9, <1>10 DEF Longer
<1>12. Slots(q2, n + 1) = Slots(q, n) \cup {s} /\ Ordered(r2, q2, n + 1)
  BY <1>11, SlotsMore
<1> QED
  BY <1>1, <1>2, <1>6, <1>12

\* A trap waits until the pipeline is empty, and so is never speculative.
LEMMA Drained ==
    ASSUME Inv, RUU_num = 0
    PROVE  ~spec_mode
<1> SUFFICES ASSUME spec_mode PROVE FALSE
  OBVIOUS
<1>1. Kinded(rs, Live, inst_seq) /\ Bounded(rs, Live, spec_mode)
  BY DEF Inv, Window
<1>2. PICK b \in Live : Open(rs, b)
  BY <1>1 DEF Bounded
<1>3. ~in_LSQ(b)
  BY <1>1, <1>2 DEF Kinded, Open
<1>4. b \in Slots(RuuLive, RUU_num)
  BY <1>3, LiveFacts DEF Inv
<1> QED
  BY <1>4 DEF Slots

\* ruu_dispatch().
LEMMA DispatchInv ==
    ASSUME Inv, NEW i \in Insts, NEW mispredicted \in BOOLEAN, ruu_dispatch(i, mispredicted)
    PROVE  /\ Inv' /\ panics' = panics /\ AllCarried(rs, rs', Live)
           /\ rs'[RUU(RUU_head + RUU_num)].seq = inst_seq + 1
           /\ rs'[RUU(RUU_head + RUU_num)].spec_mode = spec_mode
<1>1. PICK r, l : r = RUU(RUU_head + RUU_num) /\ l = LSQ(LSQ_head + LSQ_num)
  OBVIOUS
<1>2. PICK mem \in BOOLEAN : mem <=> Mem(i)
  BY DEF Mem
<1>3. PICK w : w = IF mem THEN DispatchMem(i) ELSE DispatchReg(i, mispredicted)
  OBVIOUS
<1>4. /\ RUU_num < RUU_size /\ LSQ_num < LSQ_size /\ stage = "dispatch"
      /\ i.kind = "trap" => RUU_num = 0
      /\ mispredicted => i.kind = "ctrl" /\ ~spec_mode
  BY DEF ruu_dispatch, CanDispatch
<1>5. /\ rs' = w.rs /\ ready_queue' = w.ready_queue
      /\ create_vector' = w.create_vector /\ use_spec_cv' = w.use_spec_cv
      /\ spec_create_vector' = w.spec_create_vector
      /\ spec_mode' = (spec_mode \/ mispredicted)
  BY <1>2, <1>3 DEF ruu_dispatch
<1>6. /\ RUU_num' = RUU_num + 1 /\ LSQ_num' = IF mem THEN LSQ_num + 1 ELSE LSQ_num
      /\ inst_seq' = inst_seq + (IF mem THEN 2 ELSE 1) /\ count' = count + 1
      /\ UNCHANGED <<RUU_head, LSQ_head, event_queue, node, busy, options, stage>>
  BY <1>2 DEF ruu_dispatch, units
<1>7. /\ r \in Stations \ Live /\ ~in_LSQ(r) /\ l \in Stations \ Live /\ in_LSQ(l) /\ l # r
  BY <1>1, <1>4, NextFree
<1>8. PICK N : N = IF mem THEN {r, l} ELSE {r}
  OBVIOUS
<1>9. inst_seq \in Nat /\ spec_mode \in BOOLEAN /\ count \in Nat /\ options \in Options
      /\ busy \in [Units -> Nat]
  BY DEF Inv, Types
<1>10. /\ Core(w, Live \cup N, node, event_queue) /\ w.panics = panics
       /\ AllCarried(rs, w.rs, Live)
       /\ Window(w.rs, Live \cup N, spec_mode', inst_seq')
       /\ w.rs[r].seq = inst_seq + 1 /\ (mem => w.rs[l].seq = inst_seq + 2)
       /\ w.rs[r].spec_mode = spec_mode
  <2>1. CASE mem
    <3>1. w = DispatchMem(i) /\ i.kind \in {"load", "store"}
      BY <1>2, <1>3, <2>1 DEF Mem
    <3>2. MemDone(w, r, l, i)
      BY <1>1, <1>7, <3>1, MemPut
    <3>3. /\ Core(w, (Live \cup {r}) \cup {l}, node, event_queue) /\ w.panics = panics
          /\ AllCarried(rs, w.rs, Live)
          /\ Entered(w.rs[r], Agen, inst_seq + 1, FALSE)
          /\ Entered(w.rs[l], i, inst_seq + 2, FALSE)
          /\ w.rs[l].onames[1] = i.outs[1] /\ w.rs[l].onames[2] = i.outs[2]
          /\ i.kind # "store" => ~w.rs[l].queued
      BY <3>2 DEF MemDone
    <3>4. PICK r2 : r2 = w.rs
      OBVIOUS
    <3>5. Window(r2, Live \cup {r, l}, spec_mode, inst_seq + 2)
      BY <1>7, <3>1, <3>3, <3>4, MemGrowing
    <3>6. (Live \cup {r}) \cup {l} = Live \cup N /\ {r, l} = N
      BY <1>8, <2>1
    <3>7. spec_mode' = spec_mode /\ inst_seq' = inst_seq + 2
      BY <1>4, <1>5, <1>6, <1>9, <2>1, <3>1
    <3>8. /\ w.rs[r].seq = inst_seq + 1 /\ w.rs[l].seq = inst_seq + 2
          /\ w.rs[r].spec_mode = spec_mode
      BY <3>3 DEF Entered
    <3> QED
      BY <3>3, <3>4, <3>5, <3>6, <3>7, <3>8
  <2>2. CASE ~mem
    <3>1. w = DispatchReg(i, mispredicted) /\ i.kind \notin {"load", "store"}
      BY <1>2, <1>3, <2>2 DEF Mem
    <3>2. /\ Core(w, Live \cup {r}, node, event_queue) /\ w.panics = panics
          /\ AllCarried(rs, w.rs, Live)
          /\ Entered(w.rs[r], i, inst_seq + 1, mispredicted)
      BY <1>1, <1>7, <3>1, RegPut
    <3>3. PICK r2 : r2 = w.rs
      OBVIOUS
    <3>4. Window(r2, Live \cup {r}, spec_mode \/ mispredicted, inst_seq + 1)
      BY <1>4, <1>7, <3>1, <3>2, <3>3, RegGrowing
    <3>5. {r} = N
      BY <1>8, <2>2
    <3>6. spec_mode' = (spec_mode \/ mispredicted) /\ inst_seq' = inst_seq + 1
      BY <1>5, <1>6, <2>2
    <3>7. w.rs[r].seq = inst_seq + 1 /\ w.rs[r].spec_mode = spec_mode
      BY <3>2 DEF Entered
    <3> QED
      BY <2>2, <3>2, <3>3, <3>4, <3>5, <3>6, <3>7
  <2> QED
    BY <2>1, <2>2
<1>11. w \in Worlds
  BY <1>10, CoreFacts
<1>12. panics' = panics
  <2>1. panics' = Panic(w, i.kind = "trap" /\ spec_mode, "drained and speculative").panics
    BY <1>2, <1>3 DEF ruu_dispatch
  <2>2. (i.kind = "trap" /\ spec_mode) = FALSE
    BY <1>4, <1>9, Drained
  <2>3. Panic(w, FALSE, "drained and speculative") = [w EXCEPT !.panics = w.panics]
    BY DEF Panic
  <2>4. [w EXCEPT !.panics = w.panics].panics = w.panics
    BY <1>11 DEF Worlds
  <2> QED
    BY <1>10, <2>1, <2>3, <2>4, <2>2
<1>13. Core(World', Live \cup N, node, event_queue)
  <2>1. PICK v : v = World'
    OBVIOUS
  <2>2. /\ v.rs = w.rs /\ v.ready_queue = w.ready_queue
        /\ v.create_vector = w.create_vector /\ v.use_spec_cv = w.use_spec_cv
        /\ v.spec_create_vector = w.spec_create_vector
    BY <1>5, <2>1 DEF World
  <2>3. v \in Worlds
    <3>1. v = [rs |-> w.rs, ready_queue |-> w.ready_queue, panics |-> w.panics,
               create_vector |-> w.create_vector,
               spec_create_vector |-> w.spec_create_vector, use_spec_cv |-> w.use_spec_cv]
      BY <1>5, <1>10, <1>12, <2>1 DEF World
    <3> QED
      BY <1>11, <3>1 DEF Worlds
  <2>4. Agree(w, v)
    BY <2>2, <2>3 DEF Agree
  <2> QED
    BY <1>10, <2>1, <2>4, AgreeCore
<1>14. PICK r2 : r2 = rs'
  OBVIOUS
<1>15. /\ AllCarried(rs, r2, Live) /\ r2[r].seq \in Nat /\ r2[r].seq > inst_seq
       /\ mem => (r2[l].seq \in Nat /\ r2[l].seq > inst_seq)
  BY <1>5, <1>9, <1>10, <1>14
<1>16. /\ Slots(RuuLive', RUU_num') = Slots(RuuLive, RUU_num) \cup {r}
       /\ Ordered(r2, RuuLive', RUU_num') /\ RUU_num' \in 0..RUU_size
  BY <1>1, <1>4, <1>6, <1>15, RuuGrows
<1>17. /\ Slots(LsqLive', LSQ_num') = Slots(LsqLive, LSQ_num) \cup (IF mem THEN {l} ELSE {})
       /\ Ordered(r2, LsqLive', LSQ_num') /\ LSQ_num' \in 0..LSQ_size
  <2>1. CASE mem
    <3>1. LSQ_num' = LSQ_num + 1 /\ LSQ_head' = LSQ_head
      BY <1>6, <2>1
    <3>2. /\ Slots(LsqLive', LSQ_num') = Slots(LsqLive, LSQ_num) \cup {l}
          /\ Ordered(r2, LsqLive', LSQ_num') /\ LSQ_num' \in 0..LSQ_size
      BY <1>1, <1>4, <1>15, <2>1, <3>1, LsqGrows
    <3> QED
      BY <2>1, <3>2
  <2>2. CASE ~mem
    <3>1. LSQ_num' = LSQ_num /\ LsqLive' = LsqLive
      BY <1>6, <2>2 DEF LsqLive
    <3>2. Ordered(rs, LsqLive, LSQ_num) /\ LSQ_num \in 0..LSQ_size
      BY DEF Inv, Types
    <3>3. \A k \in 1..LSQ_num : r2[LsqLive[k]].seq = rs[LsqLive[k]].seq
      <4>1. \A k \in 1..LSQ_num : LsqLive[k] \in Live
        BY LiveFacts DEF Inv, Slots
      <4> QED
        BY <1>15, <4>1 DEF AllCarried, Carried, Onward
    <3>4. Ordered(r2, LsqLive, LSQ_num)
      BY <3>2, <3>3 DEF Ordered
    <3> QED
      BY <2>2, <3>1, <3>2, <3>4
  <2> QED
    BY <2>1, <2>2
<1>18. Live' = Live \cup N
  <2>1. Live' = Slots(RuuLive', RUU_num') \cup Slots(LsqLive', LSQ_num')
    BY DEF Live, Slots, Range, RuuLive, LsqLive
  <2>2. Live = Slots(RuuLive, RUU_num) \cup Slots(LsqLive, LSQ_num)
    BY LiveFacts DEF Inv
  <2> QED
    BY <1>8, <1>16, <1>17, <2>1, <2>2
<1>19. Types'
  <2>1. /\ World' \in Worlds /\ node' \in Seq(RLink) /\ event_queue' \in Seq(Event)
    BY <1>6, <1>13, CoreFacts
  <2>2. count' \in Nat /\ spec_mode' \in BOOLEAN /\ inst_seq' \in Nat
    BY <1>5, <1>6, <1>9
  <2>3. RUU_head' \in 0..RUU_size-1 /\ LSQ_head' \in 0..LSQ_size-1
        /\ busy' \in [Units -> Nat] /\ options' \in Options
    BY <1>6, <1>9 DEF Inv, Types
  <2> QED
    BY <1>16, <1>17, <2>1, <2>2, <2>3 DEF Types
<1>20. /\ Core(World', Live', node', event_queue')
       /\ Window(rs', Live', spec_mode', inst_seq')
       /\ Ordered(rs', RuuLive', RUU_num') /\ Ordered(rs', LsqLive', LSQ_num')
       /\ stage' # "issue" => node' = <<>>
  <2>1. stage # "issue" => node = <<>>
    BY DEF Inv
  <2> QED
    BY <1>5, <1>6, <1>10, <1>13, <1>14, <1>16, <1>17, <1>18, <2>1
<1> QED
  BY <1>1, <1>5, <1>10, <1>12, <1>19, <1>20 DEF Inv

-----------------------------------------------------------------------------
\* Every step of the pipeline keeps the invariant, and reaches no panic() as
\* long as the array of lsq_refresh() has room for the whole LSQ.
LEMMA StagesInv ==
    ASSUME Inv, Stages
    PROVE  Inv' /\ (LSQ_size <= MAX_STD_UNKNOWNS => panics' = panics)
<1>1. CASE ruu_commit
  BY <1>1, CommitInv
<1>2. CASE ruu_release_fu
  <2>1. panics' = panics
    BY <1>2 DEF ruu_release_fu
  <2> QED
    BY <1>2, <2>1, ReleaseInv
<1>3. CASE ruu_writeback
  BY <1>3, WritebackInv
<1>4. CASE EndWriteback
  <2>1. panics' = panics
    BY <1>4 DEF EndWriteback
  <2> QED
    BY <1>4, <2>1, EndWritebackInv
<1>5. CASE lsq_refresh
  BY <1>5, RefreshInv
<1>6. CASE ruu_issue
  BY <1>6, IssueInv
<1>7. CASE EndIssue
  BY <1>7, EndIssueInv
<1>8. CASE EndDispatch
  <2>1. panics' = panics
    BY <1>8 DEF EndDispatch
  <2> QED
    BY <1>8, <2>1, EndDispatchInv
<1> QED
  BY <1>1, <1>2, <1>3, <1>4, <1>5, <1>6, <1>7, <1>8 DEF Stages

\* A step that changes nothing keeps it.
LEMMA StutterInv ==
    ASSUME Inv, UNCHANGED vars
    PROVE  Inv' /\ panics' = panics
<1>1. /\ World' = World /\ rs' = rs /\ node' = node /\ event_queue' = event_queue
      /\ UNCHANGED <<RUU_head, RUU_num, LSQ_head, LSQ_num, spec_mode, inst_seq, options,
                     busy, count, stage, panics>>
  BY DEF vars, World, machine, queues, renames, units, control
<1>2. busy' \in [Units -> Nat] /\ count' \in Nat /\ options' \in Options
  BY <1>1 DEF Inv, Types
<1>3. stage' # "issue" => node' = <<>>
  BY <1>1 DEF Inv
<1>4. Core(World', Live, node', event_queue') /\ Steady(rs, rs', Live)
  BY <1>1, Unmoved DEF Inv
<1> QED
  BY <1>1, <1>2, <1>3, <1>4, SteadyInv

\* Inv is inductive.
LEMMA NextInv ==
    ASSUME Inv, [Next]_vars
    PROVE  Inv' /\ (LSQ_size <= MAX_STD_UNKNOWNS => panics' = panics)
<1>1. CASE UNCHANGED vars
  BY <1>1, StutterInv
<1>2. CASE Stages
  BY <1>2, StagesInv
<1>3. CASE \E i \in Insts, mispredicted \in BOOLEAN : ruu_dispatch(i, mispredicted)
  <2>1. PICK i \in Insts, mispredicted \in BOOLEAN : ruu_dispatch(i, mispredicted)
    BY <1>3
  <2> QED
    BY <2>1, DispatchInv
<1> QED
  BY <1>1, <1>2, <1>3 DEF Next

\* Inv holds in every state of every behaviour.
LEMMA SpecInv == Spec => []Inv
<1>1. Inv /\ [Next]_vars => Inv'
  BY NextInv
<1> QED
  BY InitInv, <1>1, PTL DEF Spec

\* With a load/store queue that fits the array of lsq_refresh(), no panic()
\* of the pipeline stages is ever reached: no operand is woken twice, no
\* instruction is queued, issued or completed out of turn, the two queues
\* never lose each other, and every misprediction is recovered in
\* speculative mode.  (The defaults are an LSQ of 8 and an array of 64;
\* sim_check_options() does not compare them.)
THEOREM PanicFree ==
    ASSUME LSQ_size <= MAX_STD_UNKNOWNS
    PROVE  Spec => []NoPanic
<1> DEFINE Safe == Inv /\ NoPanic
<1>1. Init => Safe
  BY InitInv DEF Init, NoPanic
<1>2. Safe /\ [Next]_vars => Safe'
  BY NextInv DEF NoPanic
<1>3. Safe => NoPanic
  OBVIOUS
<1> QED
  BY <1>1, <1>2, <1>3, PTL DEF Spec

-----------------------------------------------------------------------------
\* The stations in use, the links and the units are what the fields say.
LEMMA InvTypeOK == Inv => TypeOK
<1> SUFFICES ASSUME Inv PROVE TypeOK
  OBVIOUS
<1>1. /\ RUU_head \in 0..RUU_size-1 /\ RUU_num \in 0..RUU_size
      /\ LSQ_head \in 0..LSQ_size-1 /\ LSQ_num \in 0..LSQ_size
      /\ busy \in [Units -> Nat]
  BY DEF Inv, Types
<1>2. /\ Structure(World, Live) /\ World.rs = rs /\ World \in Worlds
      /\ World.create_vector = create_vector /\ Kinded(rs, Live, inst_seq)
  BY InvFacts DEF Window
<1>3. ASSUME NEW s \in Stations PROVE rs[s].kind # NA <=> s \in Live
  <2>1. CASE s \in Live
    <3>1. rs[s].kind \in {"load", "store", "alu", "ctrl", "trap", "agen"}
      BY <1>2, <2>1 DEF Kinded
    <3> QED
      BY <2>1, <3>1 DEF NA
  <2>2. CASE s \notin Live
    <3>1. Freed(rs[s])
      BY <1>2, <2>2 DEF Structure
    <3>2. rs[s].kind = NA
      BY <3>1 DEF Freed, Blank
    <3> QED
      BY <2>2, <3>2
  <2> QED
    BY <2>1, <2>2
<1>4. ASSUME NEW r \in Regs, create_vector[r] # CVLINK_NULL
      PROVE  create_vector[r].rs \in Stations
  <2>1. create_vector \in [Regs -> CVLink]
    BY <1>2 DEF Worlds
  <2>2. create_vector[r] \in CVLink
    BY <2>1
  <2> QED
    BY <1>4, <2>2 DEF CVLink
<1> QED
  BY <1>1, <1>3, <1>4 DEF TypeOK

\* The heads and counts of both queues keep their ranges, and exactly the
\* stations between head and tail hold an instruction, whatever was
\* committed, squashed and dispatched before.
THEOREM StationsInUse == Spec => []TypeOK
  BY SpecInv, InvTypeOK, PTL

\* The load/store queue is the memory operations of the RUU.
LEMMA InvInSync == Inv => InSync
<1> SUFFICES ASSUME Inv PROVE InSync
  OBVIOUS
<1>1. /\ Range(RuuLive) = Slots(RuuLive, RUU_num) /\ Range(LsqLive) = Slots(LsqLive, LSQ_num)
      /\ Live = Slots(RuuLive, RUU_num) \cup Slots(LsqLive, LSQ_num)
      /\ \A s \in Live : /\ in_LSQ(s) <=> s \in Slots(LsqLive, LSQ_num)
                         /\ ~in_LSQ(s) <=> s \in Slots(RuuLive, RUU_num)
  BY LiveFacts DEF Inv
<1>2. /\ Paired(rs, Live)
      /\ Ordered(rs, RuuLive, RUU_num) /\ Ordered(rs, LsqLive, LSQ_num)
  BY DEF Inv, Window
<1>3. ASSUME NEW l \in Range(LsqLive)
      PROVE  \E r \in Range(RuuLive) : rs[r].ea_comp /\ rs[l].seq = rs[r].seq + 1
  BY <1>1, <1>2 DEF Paired, Half
<1>4. ASSUME NEW r \in Range(RuuLive), rs[r].ea_comp
      PROVE  \E l \in Range(LsqLive) : rs[r].ea_comp /\ rs[l].seq = rs[r].seq + 1
  BY <1>1, <1>2, <1>4 DEF Paired, Half
<1> QED
  BY <1>2, <1>3, <1>4 DEF InSync, Ordered

\* The RUU and the LSQ stay in program order and in step with each other,
\* through commits, squashes and the reuse of stations.
THEOREM QueuesInStep == Spec => []InSync
  BY SpecInv, InvInSync, PTL

\* A set with one element, or none.
LEMMA AtMostOne ==
    ASSUME NEW S, NEW b \in BOOLEAN, b <=> S # {},
           \A x, y \in S : x = y
    PROVE  Cardinality(S) = IF b THEN 1 ELSE 0
<1>1. CASE S = {}
  BY <1>1, FS_EmptySet
<1>2. CASE S # {}
  <2>1. PICK x \in S : S = {x}
    BY <1>2
  <2> QED
    BY <1>2, <2>1, FS_Singleton
<1> QED
  BY <1>1, <1>2

\* What is speculative.
LEMMA InvSpecBoundary == Inv => SpecBoundary
<1> SUFFICES ASSUME Inv PROVE SpecBoundary
  OBVIOUS
<1>1. Bounded(rs, Live, spec_mode) /\ spec_mode \in BOOLEAN
  BY DEF Inv, Window, Types
<1>2. PICK B : B = {s \in Live : rs[s].recover_inst /\ ~rs[s].completed}
  OBVIOUS
<1>3. \A s : s \in B <=> s \in Live /\ Open(rs, s)
  BY <1>2 DEF Open
<1>4. (spec_mode <=> B # {}) /\ \A x, y \in B : x = y
  BY <1>1, <1>3 DEF Bounded
<1>5. Cardinality(B) = IF spec_mode THEN 1 ELSE 0
  BY <1>1, <1>4, AtMostOne
<1>6. ASSUME NEW s \in Live
      PROVE  rs[s].spec_mode <=> \E b \in B : rs[s].seq > rs[b].seq
  <2>1. \A b \in B : rs[b].seq \in Nat /\ rs[s].seq \in Nat
    <3>1. \A x \in Live : rs[x].seq \in 1..inst_seq
      BY DEF Inv, Window, Kinded
    <3> QED
      BY <1>3, <3>1
  <2>2. \A b \in B : rs[s].seq > rs[b].seq <=> rs[b].seq < rs[s].seq
    BY <2>1
  <2>3. rs[s].spec_mode <=> \E b \in B : rs[b].seq < rs[s].seq
    BY <1>1, <1>3 DEF Bounded
  <2> QED
    BY <2>2, <2>3
<1> QED
  BY <1>2, <1>5, <1>6 DEF SpecBoundary

\* In speculative mode there is exactly one unresolved mispredicted branch,
\* and exactly the younger instructions are speculative; outside there is
\* none.
THEOREM OneOpenBranch == Spec => []SpecBoundary
  BY SpecInv, InvSpecBoundary, PTL

\* The status bits and the queues.
LEMMA InvQueuesExact == Inv => QueuesExact
<1> SUFFICES ASSUME Inv, NEW s \in Live
             PROVE  LET Refs(q) == {k \in DOMAIN q : q[k].rs = s /\ RSLINK_VALID(rs, q[k])}
                    IN  /\ Cardinality(Refs(ready_queue)) + Cardinality(Refs(node))
                              = IF rs[s].queued THEN 1 ELSE 0
                        /\ Cardinality(Refs(event_queue))
                              = IF rs[s].issued /\ ~rs[s].completed THEN 1 ELSE 0
  BY DEF QueuesExact
<1>1. ReadyOnce(rs, ready_queue, node) /\ EventOnce(rs, event_queue)
      /\ s \in Stations /\ rs[s] \in RSType
  BY InvFacts, LiveFacts
<1>2. rs[s].queued \in BOOLEAN /\ rs[s].issued \in BOOLEAN /\ rs[s].completed \in BOOLEAN
  BY <1>1 DEF RSType
<1> DEFINE Refs(q) == {k \in DOMAIN q : q[k].rs = s /\ RSLINK_VALID(rs, q[k])}
<1>3. \A q, k : k \in Refs(q) <=> k \in DOMAIN q /\ Ref(rs, q, k, s)
  BY DEF Ref, RSLINK_VALID
<1> HIDE DEF Refs
<1>4. PICK b1 \in BOOLEAN : b1 <=> Refs(ready_queue) # {}
  OBVIOUS
<1>5. PICK b2 \in BOOLEAN : b2 <=> Refs(node) # {}
  OBVIOUS
<1>6. Cardinality(Refs(ready_queue)) = (IF b1 THEN 1 ELSE 0)
  <2>1. \A x, y \in Refs(ready_queue) : x = y
    BY <1>1, <1>3 DEF ReadyOnce
  <2> QED
    BY <1>4, <2>1, AtMostOne
<1>7. Cardinality(Refs(node)) = (IF b2 THEN 1 ELSE 0)
  <2>1. \A x, y \in Refs(node) : x = y
    BY <1>1, <1>3 DEF ReadyOnce
  <2> QED
    BY <1>5, <2>1, AtMostOne
<1>8. (rs[s].queued <=> b1 \/ b2) /\ ~(b1 /\ b2)
  BY <1>1, <1>3, <1>4, <1>5 DEF ReadyOnce
<1>9. Cardinality(Refs(ready_queue)) + Cardinality(Refs(node)) = IF rs[s].queued THEN 1 ELSE 0
  BY <1>6, <1>7, <1>8
<1>10. Cardinality(Refs(event_queue)) = IF rs[s].issued /\ ~rs[s].completed THEN 1 ELSE 0
  <2>1. \A x, y \in Refs(event_queue) : x = y
    BY <1>1, <1>3 DEF EventOnce
  <2>2. (rs[s].issued /\ ~rs[s].completed) <=> Refs(event_queue) # {}
    BY <1>1, <1>3 DEF EventOnce
  <2>3. PICK b3 \in BOOLEAN : b3 = (rs[s].issued /\ ~rs[s].completed)
    BY <1>2
  <2>4. Cardinality(Refs(event_queue)) = IF b3 THEN 1 ELSE 0
    BY <2>1, <2>2, <2>3, AtMostOne
  <2> QED
    BY <2>3, <2>4
<1> QED
  BY <1>9, <1>10 DEF Refs

\* Whatever squashes leave behind in the queues, a queued station has exactly
\* one valid ready link and an executing one exactly one valid event.
THEOREM OneLinkEach == Spec => []QueuesExact
  BY SpecInv, InvQueuesExact, PTL

-----------------------------------------------------------------------------
\* The links of the chains.
LEMMA InvWakeupExact == Inv => WakeupExact
<1> SUFFICES ASSUME Inv, NEW s \in Live, NEW k \in 1..3
             PROVE  IF rs[s].idep_ready[k] THEN LinksTo(s, k) = {}
                    ELSE /\ Cardinality(LinksTo(s, k)) = 1
                         /\ \A x \in LinksTo(s, k) : /\ ~rs[x[1]].completed
                                                     /\ rs[x[1]].seq < rs[s].seq
  BY DEF WakeupExact
<1> DEFINE l == [rs |-> s, tag |-> rs[s].tag, opnum |-> k]
           At(p, o) == {j \in DOMAIN rs[p].odep_list[o] : rs[p].odep_list[o][j] = l}
           T(p, o) == {<<p, o, j>> : j \in At(p, o)}
           links == UNION {T(p, o) : p \in Live, o \in 1..2}
<1>1. /\ Structure(World, Live) /\ World.rs = rs /\ rs \in [Stations -> RSType]
      /\ Live \subseteq Stations
  BY InvFacts, LiveFacts
<1>2. /\ ChainsExact(rs, Live, {}) /\ ChainsOnce(rs, Live) /\ ChainsOlder(rs, Live)
      /\ ChainsDone(rs) /\ \A x \in Stations \ Live : Freed(rs[x])
  BY <1>1 DEF Structure, ChainsOK
<1>3. DOMAIN <<>> = {}
  OBVIOUS
<1>4. ASSUME NEW p, NEW o, NEW j, ChainAt(rs, p, o, j, s, k), p \in Stations, o \in 1..2
      PROVE  p \in Live /\ ~rs[p].completed
  <2>1. rs[p].odep_list[o] # <<>>
    BY <1>3, <1>4 DEF ChainAt
  <2>2. ~rs[p].completed
    BY <1>2, <1>4, <2>1 DEF ChainsDone
  <2>3. CASE p \notin Live
    <3>1. Freed(rs[p]) /\ rs[p] \in RSType
      BY <1>1, <1>2, <1>4, <2>3
    <3>2. rs[p].odep_list = << <<>>, <<>> >>
      BY <3>1 DEF Freed, Blank
    <3>3. rs[p].odep_list[o] = <<>>
      BY <1>4, <3>2
    <3> QED
      BY <2>1, <3>3
  <2> QED
    BY <2>2, <2>3
<1>5. \A p \in Live, o \in 1..2 : \A j : j \in At(p, o) <=> ChainAt(rs, p, o, j, s, k)
  BY DEF ChainAt
<1>6. \A p \in Live, o \in 1..2 : \A j : j \in At(p, o) => j \in Nat
  <2> SUFFICES ASSUME NEW p \in Live, NEW o \in 1..2, NEW j \in At(p, o) PROVE j \in Nat
    OBVIOUS
  <2>1. rs[p] \in RSType
    BY <1>1
  <2>2. rs[p].odep_list[o] \in Seq(OLink)
    BY <2>1 DEF RSType
  <2>3. j \in DOMAIN rs[p].odep_list[o]
    OBVIOUS
  <2> QED
    BY <2>2, <2>3
<1>7. LinksTo(s, k) = links
  BY DEF LinksTo
<1> HIDE DEF l, At
<1>8. \A p, o, j : j \in At(p, o) => <<p, o, j>> \in T(p, o)
  OBVIOUS
<1>9. ASSUME NEW p, NEW o, NEW x \in T(p, o) PROVE \E j \in At(p, o) : x = <<p, o, j>>
  OBVIOUS
<1> HIDE DEF T
<1>10. ASSUME NEW x \in links
      PROVE  \E p \in Live, o \in 1..2, j \in Nat :
                x = <<p, o, j>> /\ ChainAt(rs, p, o, j, s, k)
  <2>1. PICK p \in Live, o \in 1..2 : x \in T(p, o)
    OBVIOUS
  <2>2. PICK j \in At(p, o) : x = <<p, o, j>>
    BY <1>9, <2>1
  <2> QED
    BY <1>5, <1>6, <2>2
<1>11. ASSUME NEW p \in Live, NEW o \in 1..2, NEW j, ChainAt(rs, p, o, j, s, k)
      PROVE  <<p, o, j>> \in links
  <2>1. j \in At(p, o)
    BY <1>5, <1>11
  <2>2. <<p, o, j>> \in T(p, o)
    BY <1>8, <2>1
  <2> QED
    BY <2>2
<1> HIDE DEF links
<1>12. \A x, y \in links : x = y
  <2> SUFFICES ASSUME NEW x \in links, NEW y \in links PROVE x = y
    OBVIOUS
  <2>1. PICK p \in Live, o \in 1..2, j \in Nat :
           x = <<p, o, j>> /\ ChainAt(rs, p, o, j, s, k)
    BY <1>10
  <2>2. PICK p2 \in Live, o2 \in 1..2, j2 \in Nat :
           y = <<p2, o2, j2>> /\ ChainAt(rs, p2, o2, j2, s, k)
    BY <1>10
  <2>3. p = p2 /\ o = o2 /\ j = j2
    BY <1>1, <1>2, <2>1, <2>2 DEF ChainsOnce
  <2> QED
    BY <2>1, <2>2, <2>3
<1>13. CASE rs[s].idep_ready[k]
  <2>1. \A p \in Stations, o \in 1..2, j \in Nat : ~ChainAt(rs, p, o, j, s, k)
    BY <1>2, <1>13 DEF ChainsExact
  <2>2. links = {}
    BY <1>1, <1>10, <2>1
  <2> QED
    BY <1>13, <1>7, <2>2
<1>14. CASE ~rs[s].idep_ready[k]
  <2>1. PICK p \in Stations, o \in 1..2, j \in Nat : ChainAt(rs, p, o, j, s, k)
    BY <1>2, <1>14 DEF ChainsExact
  <2>2. links # {}
    BY <1>4, <1>11, <2>1
  <2>3. Cardinality(links) = 1
    <3>1. PICK b \in BOOLEAN : b = TRUE
      OBVIOUS
    <3>2. b <=> links # {}
      BY <2>2, <3>1
    <3>3. Cardinality(links) = IF b THEN 1 ELSE 0
      BY <1>12, <3>2, AtMostOne
    <3> QED
      BY <3>1, <3>3
  <2>4. ASSUME NEW x \in links PROVE ~rs[x[1]].completed /\ rs[x[1]].seq < rs[s].seq
    <3>1. PICK q \in Live, o2 \in 1..2, j2 \in Nat :
             x = <<q, o2, j2>> /\ ChainAt(rs, q, o2, j2, s, k)
      BY <1>10
    <3>2. q \in Stations /\ x[1] = q
      BY <1>1, <3>1
    <3>3. ~rs[q].completed
      BY <1>4, <3>1, <3>2
    <3>4. rs[q].seq < rs[s].seq
      BY <1>2, <3>1, <3>2 DEF ChainsOlder
    <3> QED
      BY <3>2, <3>3, <3>4
  <2> QED
    BY <1>14, <1>7, <2>3, <2>4
<1> QED
  BY <1>13, <1>14

\* No wake-up is lost and none goes to the wrong instruction: an operand that
\* is not ready has exactly one valid link, on a chain of an older
\* instruction that has still to complete, and a ready one has none.
THEOREM WakeUpsExact == Spec => []WakeupExact
  BY SpecInv, InvWakeupExact, PTL

\* The youngest of some stations in use.
LEMMA YoungestOf ==
    ASSUME Inv, NEW S \in SUBSET Live, S # {}
    PROVE  /\ Youngest(S) \in S /\ \A t \in S : rs[t].seq <= rs[Youngest(S)].seq
           /\ \A t \in S : (\A u \in S : rs[u].seq <= rs[t].seq) => t = Youngest(S)
<1>1. \A t \in Live : rs[t].seq \in 1..inst_seq
  BY DEF Inv, Window, Kinded
<1>2. \A t, u \in Live : rs[t].seq = rs[u].seq => t = u
  BY InvFacts DEF Structure
<1>3. inst_seq \in Nat
  BY DEF Inv, Types
<1>4. PICK J : J = {inst_seq - rs[t].seq : t \in S}
  OBVIOUS
<1>5. PICK x \in J : \A y \in J : x <= y
  <2>1. \A t \in S : inst_seq - rs[t].seq \in Nat
    BY <1>1, <1>3
  <2>2. J \in SUBSET Nat /\ J # {}
    BY <1>4, <2>1
  <2> QED
    BY <2>2, Least
<1>6. PICK z \in S : x = inst_seq - rs[z].seq
  BY <1>4, <1>5
<1>7. \A t \in S : rs[t].seq <= rs[z].seq
  <2> SUFFICES ASSUME NEW t \in S PROVE rs[t].seq <= rs[z].seq
    OBVIOUS
  <2>1. inst_seq - rs[t].seq \in J
    BY <1>4
  <2>2. x <= inst_seq - rs[t].seq
    BY <1>5, <2>1
  <2>3. rs[t].seq \in 1..inst_seq /\ rs[z].seq \in 1..inst_seq
    BY <1>1
  <2> QED
    BY <1>3, <1>6, <2>2, <2>3
<1>8. PICK y : y = Youngest(S)
  OBVIOUS
<1>9. y \in S /\ \A t \in S : rs[t].seq <= rs[y].seq
  BY <1>6, <1>7, <1>8 DEF Youngest
<1>10. \A t \in S : (\A u \in S : rs[u].seq <= rs[t].seq) => t = y
  <2> SUFFICES ASSUME NEW t \in S, \A u \in S : rs[u].seq <= rs[t].seq PROVE t = y
    OBVIOUS
  <2>1. rs[t].seq \in Nat /\ rs[y].seq \in Nat /\ t \in Live /\ y \in Live
    BY <1>1, <1>9
  <2>2. rs[t].seq <= rs[y].seq /\ rs[y].seq <= rs[t].seq
    BY <1>9
  <2>3. rs[t].seq = rs[y].seq
    BY <2>1, <2>2
  <2> QED
    BY <1>2, <2>1, <2>3
<1> QED
  BY <1>8, <1>9, <1>10

\* What the create vector of a register names.
LEMMA InvRenameCorrect == Inv => RenameCorrect
<1> SUFFICES ASSUME Inv, NEW reg \in Regs
             PROVE  LET W == {s \in Live : \E k \in 1..2 : rs[s].onames[k] = reg}
                        c == CREATE_VECTOR(World, reg)
                    IN  IF W = {} \/ rs[Youngest(W)].completed
                        THEN c = CVLINK_NULL
                        ELSE /\ c # CVLINK_NULL /\ c.rs = Youngest(W)
                             /\ rs[c.rs].onames[c.odep_num] = reg
  BY DEF RenameCorrect
<1>1. PICK W : W = {s \in Live : \E k \in 1..2 : rs[s].onames[k] = reg}
  OBVIOUS
<1>2. PICK c : c = CREATE_VECTOR(World, reg)
  OBVIOUS
<1>3. /\ Structure(World, Live) /\ World.rs = rs /\ World.create_vector = create_vector
      /\ World.use_spec_cv = use_spec_cv /\ World.spec_create_vector = spec_create_vector
      /\ rs \in [Stations -> RSType] /\ Live \subseteq Stations
      /\ Bounded(rs, Live, spec_mode) /\ Kinded(rs, Live, inst_seq)
  BY InvFacts, LiveFacts DEF Window
<1>4. RenamesOK(World, Live, {})
  BY <1>3 DEF Structure
<1>5. \A s \in Live : rs[s].spec_mode \in BOOLEAN /\ rs[s].seq \in Nat
  <2> SUFFICES ASSUME NEW s \in Live PROVE rs[s].spec_mode \in BOOLEAN /\ rs[s].seq \in Nat
    OBVIOUS
  <2>1. rs[s] \in RSType
    BY <1>3
  <2> QED
    BY <2>1 DEF RSType
<1>6. PICK sp \in BOOLEAN : sp <=> reg \in use_spec_cv
  OBVIOUS
<1>7. Names(rs, Live, reg, c, sp, {})
  <2>1. CASE sp
    <3>1. reg \in World.use_spec_cv /\ c = World.spec_create_vector[reg]
      BY <1>2, <1>3, <1>6, <2>1 DEF CREATE_VECTOR
    <3>2. Names(World.rs, Live, reg, World.spec_create_vector[reg], TRUE, {})
      BY <1>4, <3>1 DEF RenamesOK
    <3>3. sp = TRUE
      BY <2>1
    <3> QED
      BY <1>3, <3>1, <3>2, <3>3
  <2>2. CASE ~sp
    <3>1. c = World.create_vector[reg]
      BY <1>2, <1>3, <1>6, <2>2 DEF CREATE_VECTOR
    <3>2. Names(World.rs, Live, reg, World.create_vector[reg], FALSE, {})
      BY <1>4 DEF RenamesOK
    <3>3. sp = FALSE
      BY <2>2
    <3> QED
      BY <1>3, <3>1, <3>2, <3>3
  <2> QED
    BY <2>1, <2>2
<1>8. PICK V : V = Writes(rs, Live, reg, sp)
  OBVIOUS
<1>9. /\ V \subseteq W /\ \A s \in W : s \in V <=> rs[s].spec_mode = sp
      /\ W \subseteq Live
  BY <1>1, <1>8 DEF Writes
<1>10. /\ sp => V # {}
       /\ ~sp => W = V
  <2>1. sp <=> Writes(rs, Live, reg, TRUE) # {}
    BY <1>3, <1>4, <1>6 DEF RenamesOK
  <2>2. CASE sp
    <3>1. sp = TRUE
      BY <2>2
    <3> QED
      BY <1>8, <2>1, <2>2, <3>1
  <2>3. CASE ~sp
    <3>1. sp = FALSE /\ Writes(rs, Live, reg, TRUE) = {}
      BY <2>1, <2>3
    <3>2. \A s \in W : rs[s].spec_mode # TRUE
      BY <1>1, <3>1 DEF Writes
    <3>3. \A s \in W : rs[s].spec_mode = FALSE
      BY <1>5, <1>9, <3>2
    <3> QED
      BY <1>9, <2>3, <3>1, <3>3
  <2> QED
    BY <2>2, <2>3
<1>11. ASSUME NEW s \in V, NEW t \in W \ V PROVE rs[t].seq <= rs[s].seq
  <2>1. sp
    BY <1>10, <1>11
  <2>2. rs[s].spec_mode /\ ~rs[t].spec_mode /\ s \in Live /\ t \in Live
    BY <1>5, <1>9, <1>11, <2>1
  <2>3. PICK b \in Live : Open(rs, b) /\ rs[b].seq < rs[s].seq
    BY <1>3, <2>2 DEF Bounded
  <2>4. ~(rs[b].seq < rs[t].seq)
    BY <1>3, <2>2, <2>3 DEF Bounded
  <2> QED
    BY <1>5, <2>2, <2>3, <2>4
<1>12. ASSUME NEW s \in V, \A t \in V : rs[t].seq <= rs[s].seq
       PROVE  s = Youngest(W)
  <2>1. \A t \in W : rs[t].seq <= rs[s].seq
    BY <1>11, <1>12
  <2>2. s \in W /\ W \in SUBSET Live /\ W # {}
    BY <1>9
  <2> QED
    BY <2>1, <2>2, YoungestOf
<1>13. CASE c # CVLINK_NULL
  <2>1. /\ c.rs \in V /\ ~rs[c.rs].completed /\ rs[c.rs].onames[c.odep_num] = reg
        /\ \A t \in V : rs[t].seq <= rs[c.rs].seq
    BY <1>7, <1>8, <1>13 DEF Names
  <2>2. c.rs = Youngest(W)
    BY <1>12, <2>1
  <2>3. W # {}
    BY <1>9, <2>1
  <2> QED
    BY <1>1, <1>2, <1>13, <2>1, <2>2, <2>3
<1>14. CASE c = CVLINK_NULL
  <2>1. \A t \in V : ~rs[t].completed =>
           \E u \in V : rs[u].completed /\ rs[t].seq < rs[u].seq
    BY <1>7, <1>8, <1>14 DEF Names
  <2>2. CASE W = {}
    BY <1>1, <1>2, <1>14, <2>2
  <2>3. CASE W # {}
    <3>1. V # {}
      BY <1>10, <2>3
    <3>2. V \in SUBSET Live
      BY <1>9
    <3>3. PICK y : y = Youngest(V)
      OBVIOUS
    <3>4. y \in V /\ \A t \in V : rs[t].seq <= rs[y].seq
      BY <3>1, <3>2, <3>3, YoungestOf
    <3>5. rs[y].completed
      <4> SUFFICES ASSUME ~rs[y].completed PROVE FALSE
        OBVIOUS
      <4>1. PICK u \in V : rs[u].completed /\ rs[y].seq < rs[u].seq
        BY <2>1, <3>4
      <4>2. rs[u].seq <= rs[y].seq /\ rs[u].seq \in Nat /\ rs[y].seq \in Nat
        BY <1>5, <3>2, <3>4
      <4> QED
        BY <4>1, <4>2
    <3>6. y = Youngest(W)
      BY <1>12, <3>4
    <3> QED
      BY <1>1, <1>2, <1>14, <3>5, <3>6
  <2> QED
    BY <2>2, <2>3
<1> QED
  BY <1>13, <1>14

\* Renaming is right after every squash, completion and commit: a consumer of
\* a register is sent to the youngest instruction in flight that writes it,
\* or to the register file once that one is complete.
THEOREM RenamingCorrect == Spec => []RenameCorrect
  BY SpecInv, InvRenameCorrect, PTL

\* The loads that execute.
LEMMA InvLoadAfterStore == Inv => LoadAfterStore
<1> SUFFICES ASSUME Inv, NEW i \in 1..LSQ_num
             PROVE  LET l == rs[LsqLive[i]]
                        older == {LsqLive[j] : j \in 1..i-1}
                        S == {s \in older : Store(rs[s]) /\ rs[s].addr = l.addr}
                    IN  l.kind = "load" /\ (l.issued \/ l.queued) =>
                          /\ \A s \in older : Store(rs[s]) => STORE_ADDR_READY(rs[s])
                          /\ S # {} => OPERANDS_READY(rs[Youngest(S)])
  BY DEF LoadAfterStore
<1>1. PICK m : m = LsqLive[i]
  OBVIOUS
<1>2. PICK older : older = {LsqLive[j] : j \in 1..i-1}
  OBVIOUS
<1>3. PICK S : S = {s \in older : Store(rs[s]) /\ rs[s].addr = rs[m].addr}
  OBVIOUS
<1> SUFFICES ASSUME rs[m].kind = "load", rs[m].issued \/ rs[m].queued
             PROVE  /\ \A s \in older : Store(rs[s]) => STORE_ADDR_READY(rs[s])
                    /\ S # {} => OPERANDS_READY(rs[Youngest(S)])
  BY <1>1, <1>2, <1>3
<1>4. /\ Ordered(rs, LsqLive, LSQ_num) /\ LSQ_num \in Nat
      /\ Kinded(rs, Live, inst_seq) /\ LoadsOK(rs, Live)
  BY LiveFacts DEF Inv, Window
<1>5. /\ \A k \in 1..LSQ_num : LsqLive[k] \in Live
      /\ \A s \in Live : in_LSQ(s) => \E k \in 1..LSQ_num : s = LsqLive[k]
  BY LiveFacts DEF Inv, Slots
<1>6. m \in Live
  BY <1>1, <1>5
<1>7. Clear(rs, Live, m)
  BY <1>4, <1>6 DEF LoadsOK
<1>8. \A s \in Live : rs[s].seq \in 1..inst_seq
  BY <1>4 DEF Kinded
<1>9. ASSUME NEW s \in older PROVE s \in Live /\ rs[s].seq < rs[m].seq
  <2>1. PICK j \in 1..i-1 : s = LsqLive[j]
    BY <1>2
  <2>2. j \in 1..LSQ_num /\ j < i
    BY <1>4
  <2> QED
    BY <1>1, <1>4, <1>5, <2>1, <2>2 DEF Ordered
<1>10. ASSUME NEW s \in Live, Store(rs[s]), rs[s].seq < rs[m].seq PROVE s \in older
  <2>1. in_LSQ(s)
    BY <1>4, <1>10 DEF Kinded, Store
  <2>2. PICK k \in 1..LSQ_num : s = LsqLive[k]
    BY <1>5, <2>1
  <2>3. CASE k < i
    <3>1. k \in 1..i-1
      BY <1>4, <2>3
    <3> QED
      BY <1>2, <2>2, <3>1
  <2>4. CASE k = i
    BY <1>1, <1>6, <1>8, <1>10, <2>2, <2>4
  <2>5. CASE i < k
    <3>1. rs[m].seq < rs[s].seq
      BY <1>1, <1>4, <2>2, <2>5 DEF Ordered
    <3>2. rs[m].seq \in 1..inst_seq /\ rs[s].seq \in 1..inst_seq
      BY <1>6, <1>8
    <3> QED
      BY <1>10, <3>1, <3>2
  <2> QED
    BY <1>4, <2>3, <2>4, <2>5
<1>11. ASSUME NEW s \in older, Store(rs[s]) PROVE STORE_ADDR_READY(rs[s])
  BY <1>7, <1>9, <1>11 DEF Clear
<1>12. ASSUME S # {} PROVE OPERANDS_READY(rs[Youngest(S)])
  <2>1. PICK y : y = Youngest(S)
    OBVIOUS
  <2>2. S \in SUBSET Live
    BY <1>3, <1>9
  <2>3. y \in S /\ \A t \in S : rs[t].seq <= rs[y].seq
    BY <1>12, <2>1, <2>2, YoungestOf
  <2>4. y \in Live /\ Store(rs[y]) /\ rs[y].seq < rs[m].seq /\ rs[y].addr = rs[m].addr
    BY <1>3, <1>9, <2>3
  <2>5. ~Hidden(rs, Live, y, m)
    <3> SUFFICES ASSUME NEW k \in Live, Store(rs[k]), rs[k].addr = rs[m].addr,
                        rs[y].seq < rs[k].seq, rs[k].seq < rs[m].seq
                 PROVE  FALSE
      BY DEF Hidden
    <3>1. k \in S
      BY <1>3, <1>10
    <3>2. rs[k].seq <= rs[y].seq
      BY <2>3, <3>1
    <3>3. rs[k].seq \in 1..inst_seq /\ rs[y].seq \in 1..inst_seq
      BY <1>8, <2>4
    <3> QED
      BY <3>2, <3>3
  <2> QED
    BY <1>7, <2>1, <2>4, <2>5 DEF Clear
<1> QED
  BY <1>11, <1>12

\* A load is queued or executes only when every older store knows its address
\* and the store it reads from has its data.
THEOREM LoadsWait == Spec => []LoadAfterStore
  BY SpecInv, InvLoadAfterStore, PTL

-----------------------------------------------------------------------------
\* The sequence numbers of the first instructions of the RUU.
Numbers(rr, q, m) == [k \in 1..m |-> rr[q[k]].seq]

\* Exactly the first m of the n entries of q are not speculative.
OwnFirst(rr, q, n, m) ==
    m \in 0..n /\ \A k \in 1..n : ~rr[q[k]].spec_mode <=> k <= m

\* Then they are the correct path.
LEMMA PathIs ==
    ASSUME NEW m, RUU_num \in Nat, OwnFirst(rs, RuuLive, RUU_num, m)
    PROVE  CorrectPath = Numbers(rs, RuuLive, m)
<1>1. m \in Nat /\ m <= RUU_num
  BY DEF OwnFirst
<1>2. {k \in 1..RUU_num : ~rs[RuuLive[k]].spec_mode} = 1..m
  BY <1>1 DEF OwnFirst
<1>3. Cardinality(1..m) = m
  <2>1. 0 \in Int /\ m \in Int /\ 1 \in Int
    BY <1>1
  <2>2. Cardinality(1..m) = IF 1 > m THEN 0 ELSE m - 1 + 1
    BY <2>1, FS_Interval
  <2> QED
    BY <1>1, <2>2
<1> QED
  BY <1>2, <1>3 DEF CorrectPath, Numbers

\* The same in the next state.
LEMMA NextPathIs ==
    ASSUME NEW m, RUU_num' \in Nat, OwnFirst(rs', RuuLive', RUU_num', m)
    PROVE  CorrectPath' = Numbers(rs', RuuLive', m)
<1>1. m \in Nat /\ m <= RUU_num'
  BY DEF OwnFirst
<1>2. {k \in 1..RUU_num' : ~rs'[RuuLive'[k]].spec_mode} = 1..m
  BY <1>1 DEF OwnFirst
<1>3. Cardinality(1..m) = m
  <2>1. 0 \in Int /\ m \in Int /\ 1 \in Int
    BY <1>1
  <2>2. Cardinality(1..m) = IF 1 > m THEN 0 ELSE m - 1 + 1
    BY <2>1, FS_Interval
  <2> QED
    BY <1>1, <2>2
<1> QED
  BY <1>2, <1>3 DEF CorrectPath, Numbers

\* The speculative instructions follow those of the correct path; outside
\* speculation there are none.
LEMMA OwnPrefix ==
    ASSUME Inv
    PROVE  /\ \E m \in 0..RUU_num : OwnFirst(rs, RuuLive, RUU_num, m)
           /\ ~spec_mode => OwnFirst(rs, RuuLive, RUU_num, RUU_num)
<1>1. /\ RUU_num \in Nat /\ \A k \in 1..RUU_num : RuuLive[k] \in Live
      /\ Ordered(rs, RuuLive, RUU_num) /\ Bounded(rs, Live, spec_mode)
  BY LiveFacts DEF Inv, Window, Slots
<1>2. \A x \in Live : rs[x].seq \in Nat
  BY SeqNat
<1>3. ASSUME ~spec_mode PROVE OwnFirst(rs, RuuLive, RUU_num, RUU_num)
  <2>1. \A x \in Live : ~rs[x].spec_mode
    BY <1>1, <1>3 DEF Bounded
  <2> QED
    BY <1>1, <2>1 DEF OwnFirst
<1>4. CASE ~spec_mode
  <2>1. RUU_num \in 0..RUU_num
    BY <1>1
  <2> QED
    BY <1>3, <1>4, <2>1
<1>5. CASE spec_mode
  <2>1. PICK b \in Live : Open(rs, b)
    BY <1>1, <1>5 DEF Bounded
  <2>2. \A x \in Live : rs[x].spec_mode <=> rs[x].seq > rs[b].seq
    <3>1. \A x \in Live : rs[x].spec_mode <=> rs[b].seq < rs[x].seq
      BY <1>1, <2>1 DEF Bounded
    <3> QED
      BY <1>2, <2>1, <3>1
  <2>3. PICK m \in 0..RUU_num : Cut(rs, RuuLive, RUU_num, rs[b].seq, m)
    BY <1>1, <1>2, <2>1, CutExists
  <2>4. \A k \in 1..RUU_num : ~rs[RuuLive[k]].spec_mode <=> k <= m
    <3> SUFFICES ASSUME NEW k \in 1..RUU_num
                 PROVE  ~rs[RuuLive[k]].spec_mode <=> k <= m
      OBVIOUS
    <3>1. rs[RuuLive[k]].spec_mode <=> k \in m+1..RUU_num
      BY <1>1, <2>2, <2>3 DEF Cut
    <3> QED
      BY <1>1, <3>1
  <2> QED
    BY <1>5, <2>3, <2>4 DEF OwnFirst
<1> QED
  BY <1>3, <1>4, <1>5

\* The instructions before an open branch.
LEMMA OwnCut ==
    ASSUME Inv, NEW s \in Live, Open(rs, s), NEW m,
           Cut(rs, RuuLive, RUU_num, rs[s].seq, m)
    PROVE  OwnFirst(rs, RuuLive, RUU_num, m)
<1>1. /\ RUU_num \in Nat /\ \A k \in 1..RUU_num : RuuLive[k] \in Live
      /\ Bounded(rs, Live, spec_mode) /\ m \in 0..RUU_num
  BY LiveFacts DEF Inv, Window, Slots, Cut
<1>2. \A x \in Live : rs[x].seq \in Nat
  BY SeqNat
<1>3. \A x \in Live : rs[x].spec_mode <=> rs[x].seq > rs[s].seq
  <2>1. \A x \in Live : rs[x].spec_mode <=> rs[s].seq < rs[x].seq
    BY <1>1 DEF Bounded
  <2> QED
    BY <1>2, <2>1
<1> SUFFICES ASSUME NEW k \in 1..RUU_num
             PROVE  ~rs[RuuLive[k]].spec_mode <=> k <= m
  BY <1>1 DEF OwnFirst
<1>4. rs[RuuLive[k]].spec_mode <=> k \in m+1..RUU_num
  BY <1>1, <1>3 DEF Cut
<1> QED
  BY <1>1, <1>4

\* A step that moves no head leaves the window alone.
LEMMA PathSteady ==
    ASSUME Inv, Steady(rs, rs', Live), RuuLive' = RuuLive, RUU_num' = RUU_num
    PROVE  CorrectPath' = CorrectPath
<1>1. RUU_num \in Nat /\ \A k \in 1..RUU_num : RuuLive[k] \in Live
  BY LiveFacts DEF Inv, Slots
<1>2. PICK m \in 0..RUU_num : OwnFirst(rs, RuuLive, RUU_num, m)
  BY OwnPrefix
<1>3. \A k \in 1..RUU_num : /\ rs'[RuuLive[k]].seq = rs[RuuLive[k]].seq
                            /\ rs'[RuuLive[k]].spec_mode = rs[RuuLive[k]].spec_mode
  BY <1>1 DEF Steady, Onward
<1>4. OwnFirst(rs', RuuLive', RUU_num', m)
  BY <1>2, <1>3 DEF OwnFirst
<1>5. CorrectPath = Numbers(rs, RuuLive, m) /\ CorrectPath' = Numbers(rs', RuuLive', m)
  BY <1>1, <1>2, <1>4, PathIs, NextPathIs
<1>6. \A k \in 1..m : k \in 1..RUU_num
  BY <1>1, <1>2
<1> QED
  BY <1>3, <1>5, <1>6 DEF Numbers

-----------------------------------------------------------------------------
\* ruu_commit() retires the oldest instruction of the correct path: the head
\* of the RUU is never speculative once it is complete.
LEMMA CommitRetires ==
    ASSUME Inv, ruu_commit
    PROVE  Architected!Retire
<1>1. /\ RUU_num > 0 /\ RUU_num' = RUU_num - 1 /\ last_commit' = rs[RUU(RUU_head)].seq
  BY DEF ruu_commit, CanCommit
<1>2. /\ RUU_num \in Nat /\ \A k \in 1..RUU_num : RuuLive[k] \in Live
      /\ Bounded(rs, Live, spec_mode)
  BY LiveFacts DEF Inv, Window, Slots
<1>3. /\ RUU(RUU_head) = RuuLive[1] /\ RUU(RUU_head) \in Live
      /\ rs[RUU(RUU_head)].completed
      /\ \A x \in Live : x # RUU(RUU_head) => rs[RUU(RUU_head)].seq < rs[x].seq
  BY <1>1, HeadOldest DEF ruu_commit, CanCommit, CommitHead
<1>4. \A x \in Live : rs[x].seq \in Nat
  BY SeqNat
<1>5. ~rs[RuuLive[1]].spec_mode
  <2> SUFFICES ASSUME rs[RuuLive[1]].spec_mode PROVE FALSE
    OBVIOUS
  <2>1. PICK b \in Live : Open(rs, b) /\ rs[b].seq < rs[RuuLive[1]].seq
    BY <1>2, <1>3 DEF Bounded
  <2>2. b # RUU(RUU_head)
    BY <1>3, <2>1 DEF Open
  <2>3. rs[RuuLive[1]].seq < rs[b].seq
    BY <1>3, <2>2
  <2>4. rs[RuuLive[1]].seq \in Nat /\ rs[b].seq \in Nat
    BY <1>3, <1>4
  <2> QED
    BY <2>1, <2>3, <2>4
<1>6. PICK m \in 0..RUU_num : OwnFirst(rs, RuuLive, RUU_num, m)
  BY OwnPrefix
<1>7. m \in 1..RUU_num
  <2>1. 1 \in 1..RUU_num
    BY <1>1, <1>2
  <2>2. 1 <= m
    BY <1>5, <1>6, <2>1 DEF OwnFirst
  <2> QED
    BY <1>6, <2>2
<1>8. \A k \in 1..RUU_num-1 : /\ RuuLive'[k] = RuuLive[k + 1]
                              /\ rs'[RuuLive'[k]] = rs[RuuLive[k + 1]]
  BY CommitInv
<1>9. OwnFirst(rs', RuuLive', RUU_num', m - 1)
  <2>1. m - 1 \in 0..RUU_num'
    BY <1>1, <1>2, <1>7
  <2>2. ASSUME NEW k \in 1..RUU_num'
        PROVE  ~rs'[RuuLive'[k]].spec_mode <=> k <= m - 1
    <3>1. k + 1 \in 1..RUU_num /\ k \in 1..RUU_num-1
      BY <1>1, <1>2
    <3>2. ~rs[RuuLive[k + 1]].spec_mode <=> k + 1 <= m
      BY <1>6, <3>1 DEF OwnFirst
    <3>3. rs'[RuuLive'[k]] = rs[RuuLive[k + 1]]
      BY <1>8, <3>1
    <3> QED
      BY <1>7, <3>2, <3>3
  <2> QED
    BY <2>1, <2>2 DEF OwnFirst
<1>10. CorrectPath = Numbers(rs, RuuLive, m) /\ CorrectPath' = Numbers(rs', RuuLive', m - 1)
  <2>1. RUU_num' \in Nat
    BY <1>1, <1>2
  <2> QED
    BY <1>2, <1>6, <1>9, <2>1, PathIs, NextPathIs
<1>11. PICK f : f = [k \in 1..m |-> rs[RuuLive[k]].seq]
  OBVIOUS
<1>12. f \in Seq(Nat) /\ Len(f) = m /\ \A k \in 1..m : f[k] = rs[RuuLive[k]].seq
  <2>1. \A k \in 1..m : rs[RuuLive[k]].seq \in Nat
    BY <1>2, <1>4, <1>7
  <2> QED
    BY <1>7, <1>11, <2>1
<1>13. f # <<>> /\ Head(f) = f[1] /\ Tail(f) = [k \in 1..m-1 |-> f[k + 1]]
  <2>1. f \in Seq(Nat) /\ Len(f) = m /\ m \in Nat /\ m >= 1
    BY <1>2, <1>7, <1>12
  <2>2. f # <<>> /\ Head(f) = f[1]
    BY <2>1
  <2>3. PICK t : t = Tail(f)
    OBVIOUS
  <2>4. t \in Seq(Nat) /\ Len(t) = m - 1 /\ \A k \in 1..m-1 : t[k] = f[k + 1]
    BY <2>1, <2>2, <2>3, HeadTailProperties
  <2>5. t = [k \in 1..m-1 |-> t[k]]
    BY <2>4
  <2>6. t = [k \in 1..m-1 |-> f[k + 1]]
    BY <2>4, <2>5
  <2> QED
    BY <2>2, <2>3, <2>6
<1>14. Numbers(rs', RuuLive', m - 1) = [k \in 1..m-1 |-> f[k + 1]]
  <2>1. ASSUME NEW k \in 1..m-1 PROVE rs'[RuuLive'[k]].seq = f[k + 1]
    <3>1. k \in 1..RUU_num-1 /\ k + 1 \in 1..m
      BY <1>2, <1>7
    <3> QED
      BY <1>8, <1>12, <3>1
  <2> QED
    BY <2>1 DEF Numbers
<1>15. CorrectPath = f
  BY <1>10, <1>11 DEF Numbers
<1>16. last_commit' = f[1]
  BY <1>1, <1>3, <1>7, <1>12
<1> QED
  BY <1>10, <1>13, <1>14, <1>15, <1>16 DEF Architected!Retire

\* ruu_recover() takes nothing of the correct path away.
LEMMA PathRecovers ==
    ASSUME Inv, Inv', NEW s, Recovers(s), RUU_head' = RUU_head
    PROVE  CorrectPath' = CorrectPath
<1>1. /\ s \in Live /\ Open(rs, s) /\ spec_mode' = FALSE
      /\ Cut(rs, RuuLive, RUU_num, rs[s].seq, RUU_num')
      /\ \A x \in Staying(s) : rs'[x].seq = rs[x].seq
  BY DEF Recovers
<1>2. /\ RUU_num \in Nat /\ RUU_num' \in 0..RUU_num
      /\ \A k \in 1..RUU_num : RuuLive[k] \in Live
  BY <1>1, LiveFacts DEF Inv, Slots, Cut
<1>3. OwnFirst(rs, RuuLive, RUU_num, RUU_num')
  BY <1>1, OwnCut
<1>4. OwnFirst(rs', RuuLive', RUU_num', RUU_num')
  <2>1. (Inv => (~spec_mode => OwnFirst(rs, RuuLive, RUU_num, RUU_num)))'
    BY OwnPrefix, PTL
  <2> QED
    BY <1>1, <2>1
<1>5. ASSUME NEW k \in 1..RUU_num'
      PROVE  RuuLive'[k] = RuuLive[k] /\ rs'[RuuLive[k]].seq = rs[RuuLive[k]].seq
  <2> DEFINE n == RUU_num'
  <2>0. n \in 0..RUU_num /\ RUU_num \in Nat /\ k \in 1..n
    BY <1>2
  <2> HIDE DEF n
  <2>1. k \in 1..RUU_num /\ k \notin n+1..RUU_num
    BY <2>0
  <2>2. RuuLive'[k] = RuuLive[k]
    BY <2>1 DEF RuuLive
  <2>3. ~(rs[RuuLive[k]].seq > rs[s].seq)
    BY <1>1, <2>1 DEF Cut, n
  <2>4. RuuLive[k] \in Staying(s)
    BY <1>2, <2>1, <2>3 DEF Staying
  <2> QED
    BY <1>1, <2>2, <2>4
<1>6. /\ CorrectPath = Numbers(rs, RuuLive, RUU_num')
      /\ CorrectPath' = Numbers(rs', RuuLive', RUU_num')
  <2>1. RUU_num' \in Nat
    BY <1>2
  <2> QED
    BY <1>2, <1>3, <1>4, <2>1, PathIs, NextPathIs
<1> QED
  BY <1>5, <1>6 DEF Numbers

-----------------------------------------------------------------------------
\* ruu_dispatch() appends an instruction to the correct path, unless it is
\* speculative.
LEMMA DispatchEnters ==
    ASSUME Inv, last_commit \in 0..inst_seq,
           NEW i \in Insts, NEW mispredicted \in BOOLEAN, ruu_dispatch(i, mispredicted)
    PROVE  \/ CorrectPath' = CorrectPath /\ last_commit' = last_commit
           \/ Architected!Enter(inst_seq + 1) /\ inst_seq + 1 \in 1..MaxSeq
<1>1. /\ RUU_num' = RUU_num + 1 /\ RUU_head' = RUU_head /\ last_commit' = last_commit
      /\ inst_seq + 2 <= MaxSeq
  BY DEF ruu_dispatch
<1>2. /\ RUU_num \in Nat /\ \A k \in 1..RUU_num : RuuLive[k] \in Live
      /\ inst_seq \in Nat /\ MaxSeq \in Nat /\ Kinded(rs, Live, inst_seq)
  BY RuuAssumption, LiveFacts DEF Inv, Types, Window, Slots
<1>3. PICK n \in Nat : n = RUU_num
  BY <1>2
<1>4. PICK q : q = RuuLive'
  OBVIOUS
<1>5. q[n + 1] = RUU(RUU_head + n) /\ \A k \in 1..n : q[k] = RuuLive[k]
  <2>1. q = [k \in 1..n+1 |-> RUU(RUU_head + k - 1)]
    BY <1>1, <1>3, <1>4 DEF RuuLive, RUU
  <2>2. RuuLive = [k \in 1..n |-> RUU(RUU_head + k - 1)]
    BY <1>3 DEF RuuLive
  <2>3. n + 1 \in 1..n+1 /\ \A k \in 1..n : k \in 1..n+1
    OBVIOUS
  <2>4. RUU_head + (n + 1) - 1 = RUU_head + n
    BY LiveFacts DEF Inv
  <2>5. q[n + 1] = RUU(RUU_head + (n + 1) - 1)
    BY <2>1, <2>3
  <2> QED
    BY <2>1, <2>2, <2>3, <2>4, <2>5
<1>6. /\ AllCarried(rs, rs', Live) /\ rs'[q[n + 1]].seq = inst_seq + 1
      /\ rs'[q[n + 1]].spec_mode = spec_mode
  BY <1>3, <1>5, DispatchInv
<1>7. \A k \in 1..n : /\ rs'[q[k]].seq = rs[RuuLive[k]].seq
                      /\ rs'[q[k]].spec_mode = rs[RuuLive[k]].spec_mode
  BY <1>2, <1>3, <1>5, <1>6 DEF AllCarried, Carried, Onward
<1>8. RUU_num' = n + 1 /\ n + 1 \in Nat
  BY <1>1, <1>3
<1>9. CASE spec_mode
  <2>1. PICK m \in 0..n : OwnFirst(rs, RuuLive, n, m)
    BY <1>3, OwnPrefix
  <2>2. OwnFirst(rs', q, n + 1, m)
    <3>1. m \in 0..n+1 /\ ~(n + 1 <= m)
      OBVIOUS
    <3>2. ASSUME NEW k \in 1..n+1 PROVE ~rs'[q[k]].spec_mode <=> k <= m
      <4>1. CASE k = n + 1
        BY <1>6, <1>9, <3>1, <4>1
      <4>2. CASE k # n + 1
        <5>1. k \in 1..n
          BY <4>2
        <5> QED
          BY <1>7, <2>1, <5>1 DEF OwnFirst
      <4> QED
        BY <4>1, <4>2
    <3> QED
      BY <3>1, <3>2 DEF OwnFirst
  <2>3. CorrectPath = Numbers(rs, RuuLive, m) /\ CorrectPath' = Numbers(rs', q, m)
    BY <1>2, <1>3, <1>4, <1>8, <2>1, <2>2, PathIs, NextPathIs
  <2>4. \A k \in 1..m : k \in 1..n
    OBVIOUS
  <2>5. CorrectPath' = CorrectPath
    BY <1>7, <2>3, <2>4 DEF Numbers
  <2> QED
    BY <1>1, <2>5
<1>10. CASE ~spec_mode
  <2>1. OwnFirst(rs, RuuLive, n, n)
    BY <1>3, <1>10, OwnPrefix
  <2>2. OwnFirst(rs', q, n + 1, n + 1)
    <3>1. n + 1 \in 0..n+1 /\ n + 1 <= n + 1 /\ \A k \in 1..n+1 : k <= n + 1
      OBVIOUS
    <3>2. ASSUME NEW k \in 1..n+1 PROVE ~rs'[q[k]].spec_mode
      <4>1. CASE k = n + 1
        BY <1>6, <1>10, <4>1
      <4>2. CASE k # n + 1
        <5>1. k \in 1..n /\ k <= n
          BY <4>2
        <5> QED
          BY <1>7, <2>1, <5>1 DEF OwnFirst
      <4> QED
        BY <4>1, <4>2
    <3> QED
      BY <3>1, <3>2 DEF OwnFirst
  <2>3. CorrectPath = Numbers(rs, RuuLive, n) /\ CorrectPath' = Numbers(rs', q, n + 1)
    BY <1>2, <1>3, <1>4, <1>8, <2>1, <2>2, PathIs, NextPathIs
  <2>4. PICK f : f = Numbers(rs, RuuLive, n)
    OBVIOUS
  <2>5. f \in Seq(Nat) /\ Len(f) = n /\ \A k \in 1..n : f[k] = rs[RuuLive[k]].seq
    <3>1. \A k \in 1..n : rs[RuuLive[k]].seq \in Nat
      BY <1>2, <1>3, SeqNat
    <3> QED
      BY <2>4, <3>1 DEF Numbers
  <2>6. Numbers(rs', q, n + 1) = Append(f, inst_seq + 1)
    <3>1. Append(f, inst_seq + 1) = [k \in 1..n+1 |-> IF k = n + 1 THEN inst_seq + 1 ELSE f[k]]
      BY <1>2, <2>5
    <3>2. ASSUME NEW k \in 1..n+1
          PROVE  rs'[q[k]].seq = IF k = n + 1 THEN inst_seq + 1 ELSE f[k]
      <4>1. k # n + 1 => k \in 1..n
        OBVIOUS
      <4> QED
        BY <1>6, <1>7, <2>5, <4>1
    <3> QED
      BY <3>1, <3>2 DEF Numbers
  <2>7. inst_seq + 1 > last_commit /\ inst_seq + 1 \in 1..MaxSeq
    BY <1>1, <1>2
  <2>8. f # <<>> => inst_seq + 1 > f[Len(f)]
    <3> SUFFICES ASSUME f # <<>> PROVE inst_seq + 1 > f[Len(f)]
      OBVIOUS
    <3>1. n \in 1..n
      BY <2>5
    <3>2. f[n] \in 1..inst_seq
      BY <1>2, <1>3, <2>5, <3>1 DEF Kinded
    <3> QED
      BY <1>2, <2>5, <3>2
  <2>9. CorrectPath = f /\ CorrectPath' = Append(f, inst_seq + 1)
    BY <2>3, <2>4, <2>6
  <2> QED
    BY <1>1, <2>7, <2>8, <2>9 DEF Architected!Enter
<1> QED
  BY <1>9, <1>10

\* The other stages change neither the window nor what has retired.
LEMMA StagesRetire ==
    ASSUME Inv, Stages
    PROVE  Architected!Retire \/ (CorrectPath' = CorrectPath /\ last_commit' = last_commit)
<1>1. CASE ruu_commit
  BY <1>1, CommitRetires
<1>2. CASE ruu_release_fu \/ EndWriteback \/ EndDispatch
  <2>1. /\ UNCHANGED <<rs, RUU_head, RUU_num>> /\ last_commit' = last_commit
    BY <1>2 DEF ruu_release_fu, EndWriteback, EndDispatch, machine
  <2>2. RuuLive' = RuuLive
    BY <2>1 DEF RuuLive
  <2>3. Steady(rs, rs', Live)
    BY <2>1, Unmoved
  <2> QED
    BY <2>1, <2>2, <2>3, PathSteady
<1>3. CASE lsq_refresh \/ ruu_issue \/ EndIssue
  <2>1. /\ UNCHANGED <<RUU_head, RUU_num>> /\ last_commit' = last_commit
    BY <1>3 DEF lsq_refresh, ruu_issue, EndIssue
  <2>2. RuuLive' = RuuLive
    BY <2>1 DEF RuuLive
  <2>3. Steady(rs, rs', Live)
    <3>1. CASE lsq_refresh
      BY <3>1, RefreshInv
    <3>2. CASE ruu_issue
      BY <3>2, IssueInv
    <3>3. CASE EndIssue
      BY <3>3, EndIssueInv
    <3> QED
      BY <1>3, <3>1, <3>2, <3>3
  <2> QED
    BY <2>1, <2>2, <2>3, PathSteady
<1>4. CASE ruu_writeback
  <2>1. RUU_head' = RUU_head /\ last_commit' = last_commit
    BY <1>4 DEF ruu_writeback, machine
  <2>2. /\ Inv'
        /\ \/ Steady(rs, rs', Live) /\ RUU_num' = RUU_num
           \/ \E s \in Live : Recovers(s)
    BY <1>4, WritebackInv
  <2>3. CASE Steady(rs, rs', Live) /\ RUU_num' = RUU_num
    <3>1. RuuLive' = RuuLive
      BY <2>1, <2>3 DEF RuuLive
    <3> QED
      BY <2>1, <2>3, <3>1, PathSteady
  <2>4. CASE \E s \in Live : Recovers(s)
    BY <2>1, <2>2, <2>4, PathRecovers
  <2> QED
    BY <2>2, <2>3, <2>4
<1> QED
  BY <1>1, <1>2, <1>3, <1>4 DEF Stages

\* What has retired was dispatched.
Dispatched == last_commit \in 0..inst_seq

\* It stays so.
LEMMA NextDispatched ==
    ASSUME Inv, Dispatched, [Next]_vars
    PROVE  Dispatched'
<1>1. inst_seq \in Nat /\ Kinded(rs, Live, inst_seq)
  BY DEF Inv, Types, Window
<1>2. CASE ruu_commit
  <2>1. /\ last_commit' = rs[RUU(RUU_head)].seq /\ inst_seq' = inst_seq /\ RUU_num > 0
    BY <1>2 DEF ruu_commit, CanCommit, control
  <2>2. RUU(RUU_head) \in Live
    BY <2>1, HeadOldest
  <2>3. last_commit' \in 1..inst_seq
    BY <1>1, <2>1, <2>2 DEF Kinded
  <2> QED
    BY <1>1, <2>1, <2>3 DEF Dispatched
<1>3. CASE last_commit' = last_commit /\ inst_seq' = inst_seq
  BY <1>3 DEF Dispatched
<1>4. CASE \E i \in Insts, mispredicted \in BOOLEAN : ruu_dispatch(i, mispredicted)
  <2>1. last_commit' = last_commit /\ (inst_seq' = inst_seq + 1 \/ inst_seq' = inst_seq + 2)
    BY <1>4 DEF ruu_dispatch
  <2> QED
    BY <1>1, <2>1 DEF Dispatched
<1>5. CASE Stages /\ ~ruu_commit
  <2>1. last_commit' = last_commit /\ inst_seq' = inst_seq
    BY <1>5 DEF Stages, ruu_release_fu, ruu_writeback, EndWriteback, lsq_refresh,
                ruu_issue, EndIssue, EndDispatch, control
  <2> QED
    BY <1>3, <2>1
<1>6. CASE UNCHANGED vars
  BY <1>3, <1>6 DEF vars, control
<1> QED
  BY <1>2, <1>4, <1>5, <1>6 DEF Next

\* The core implements the safety half of in-order retirement: to its
\* architect it is a window that correct-path instructions enter in program
\* order and leave from the front, each once, and wrong-path instructions
\* never enter; out-of-order issue and completion, squashes and the reuse of
\* stations do not show.
THEOREM RetiresInProgramOrder == Spec => Architected!Safety
<1>1. Init => Inv /\ Dispatched
  BY InitInv DEF Init, Dispatched
<1>2. Inv /\ Dispatched /\ [Next]_vars => Inv' /\ Dispatched'
  BY NextInv, NextDispatched
<1>3. Init => Architected!Init
  <2> SUFFICES ASSUME Init PROVE Architected!Init
    OBVIOUS
  <2>1. RUU_num = 0 /\ last_commit = 0 /\ 0 \in 0..0 /\ 1..0 = {} /\ 0 \in Nat
    BY DEF Init
  <2>2. OwnFirst(rs, RuuLive, RUU_num, 0)
    BY <2>1 DEF OwnFirst
  <2>3. CorrectPath = Numbers(rs, RuuLive, 0)
    BY <2>1, <2>2, PathIs
  <2>4. CorrectPath = <<>>
    BY <2>1, <2>3 DEF Numbers
  <2> QED
    BY <2>1, <2>4 DEF Architected!Init
<1>4. Inv /\ Dispatched /\ [Next]_vars => [Architected!Next]_(Architected!vars)
  <2> SUFFICES ASSUME Inv, Dispatched, [Next]_vars
               PROVE  [Architected!Next]_(Architected!vars)
    OBVIOUS
  <2>1. ASSUME CorrectPath' = CorrectPath, last_commit' = last_commit
        PROVE  [Architected!Next]_(Architected!vars)
    BY <2>1 DEF Architected!vars
  <2>2. CASE UNCHANGED vars
    <3>1. /\ UNCHANGED <<rs, RUU_head, RUU_num>> /\ last_commit' = last_commit
      BY <2>2 DEF vars, machine
    <3>2. RuuLive' = RuuLive
      BY <3>1 DEF RuuLive
    <3>3. CorrectPath' = CorrectPath
      BY <3>1, <3>2, Unmoved, PathSteady
    <3> QED
      BY <2>1, <3>1, <3>3
  <2>3. CASE Stages
    <3>1. Architected!Retire => Architected!Next
      BY DEF Architected!Next
    <3> QED
      BY <2>1, <2>3, <3>1, StagesRetire
  <2>4. CASE \E i \in Insts, mispredicted \in BOOLEAN : ruu_dispatch(i, mispredicted)
    <3>1. PICK i \in Insts, mispredicted \in BOOLEAN : ruu_dispatch(i, mispredicted)
      BY <2>4
    <3>2. \/ CorrectPath' = CorrectPath /\ last_commit' = last_commit
          \/ Architected!Enter(inst_seq + 1) /\ inst_seq + 1 \in 1..MaxSeq
      BY <3>1, DispatchEnters DEF Dispatched
    <3>3. Architected!Enter(inst_seq + 1) /\ inst_seq + 1 \in 1..MaxSeq => Architected!Next
      BY DEF Architected!Next
    <3> QED
      BY <2>1, <3>2, <3>3
  <2> QED
    BY <2>2, <2>3, <2>4 DEF Next
<1> QED
  BY <1>1, <1>2, <1>3, <1>4, PTL DEF Spec, Architected!Safety
=============================================================================
