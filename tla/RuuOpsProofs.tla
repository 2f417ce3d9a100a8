--------------------------- MODULE RuuOpsProofs ---------------------------
(***************************************************************************)
(* The helpers of sim-outorder.c that walk a list: what each iteration     *)
(* does to the stations, the ready queue and the panics, and, by induction *)
(* on the length, what the loop does.  ReadyOnce says that a queued        *)
(* station has one valid link, in the ready queue or in the list that      *)
(* ruu_issue works on; an RS link that outlived its instruction has        *)
(* another tag and counts for none.                                        *)
(***************************************************************************)
EXTENDS Ruu, SequenceTheorems, FiniteSetTheorems, WellFoundedInduction, TLAPS

\* Positions of a circular buffer of N stations wrap around once.
LEMMA Wrap ==
    ASSUME NEW N \in Nat \ {0}, NEW a \in 0..2*N-1
    PROVE  a % N = IF a < N THEN a ELSE a - N
<1>1. a % N \in 0..N-1 /\ a = N * (a \div N) + (a % N)
  OBVIOUS
<1>2. a \div N \in Int
  OBVIOUS
<1> QED
  BY <1>1, <1>2, SMTT(30)

\* A nonempty set of natural numbers has a least element.
LEMMA Least ==
    ASSUME NEW I \in SUBSET Nat, I # {}
    PROVE  \E x \in I : \A y \in I : x <= y
<1> DEFINE R == OpToRel(<, Nat)
<1>1. IsWellFoundedOn(R, Nat)
  BY NatLessThanWellFounded
<1>2. R = {ss \in Nat \X Nat : ss[1] < ss[2]}
  BY Zenon DEF OpToRel
<1> HIDE DEF R
<1>3. PICK x \in I : \A y \in I : ~(<<y, x>> \in R)
  BY <1>1, WFMin
<1>4. ASSUME NEW y \in I, y < x PROVE FALSE
  <2>1. <<y, x>> \in Nat \X Nat /\ <<y, x>>[1] = y /\ <<y, x>>[2] = x
    OBVIOUS
  <2> QED
    BY <1>2, <1>3, <1>4, <2>1
<1>5. \A y \in I : x <= y
  BY <1>4
<1> QED
  BY <1>5

\* Induction over the natural numbers, for a set given by a formula.
LEMMA Induction ==
    ASSUME NEW S, 0 \in S, \A n \in Nat : n \in S => n + 1 \in S
    PROVE  Nat \subseteq S
<1> SUFFICES ASSUME Nat \ S # {} PROVE FALSE
  OBVIOUS
<1>1. PICK x \in Nat \ S : \A y \in Nat \ S : x <= y
  BY Least
<1>2. x # 0 /\ x - 1 \in Nat
  BY <1>1
<1>3. x - 1 \in S
  BY <1>1, <1>2
<1>4. (x - 1) + 1 \in S
  BY <1>2, <1>3
<1>5. (x - 1) + 1 = x
  BY <1>2
<1> QED
  BY <1>1, <1>4, <1>5

\* SelectInSeq() yields a position of the list, or 0.
LEMMA MinIndex ==
    ASSUME NEW n \in Nat, NEW I \in SUBSET (1..n), I # {}
    PROVE  Min(I) \in I
<1>1. PICK x \in I : \A y \in I : x <= y
  BY Least
<1> QED
  BY <1>1 DEF Min


\* Pairs and triples are functions.
LEMMA PairType ==
    ASSUME NEW S, NEW a \in S, NEW b \in S
    PROVE  <<a, b>> \in [1..2 -> S]
<1>1. <<a, b>> \in Seq(S) /\ Len(<<a, b>>) = 2
  OBVIOUS
<1> QED
  BY <1>1

\* The same for three elements.
LEMMA TripleType ==
    ASSUME NEW S, NEW a \in S, NEW b \in S, NEW c \in S
    PROVE  <<a, b, c>> \in [1..3 -> S]
<1>1. <<a, b, c>> \in Seq(S) /\ Len(<<a, b, c>>) = 3
  OBVIOUS
<1> QED
  BY <1>1
\* What the walk along a chain computes: the state after every link.
LEMMA WakeWalk ==
    ASSUME NEW w, NEW S, NEW chain \in Seq(S)
    PROVE  \E t : /\ t = [n \in 0..Len(chain) |->
                            IF n = 0 THEN w ELSE Wake(t[n-1], chain[n])]
                  /\ WakeAll(w, chain) = t[Len(chain)]
<1> DEFINE N == Len(chain)
           Eq(t, m) == t = [n \in 0..m |->
                              IF n = 0 THEN w ELSE Wake(t[n-1], chain[n])]
           D == {n \in Nat : \E t : Eq(t, n)}
<1>0. N \in Nat
  OBVIOUS
<1>1. 0 \in D
  <2>1. Eq([n \in 0..0 |-> w], 0)
    OBVIOUS
  <2> QED
    BY <2>1
<1>2. ASSUME NEW m \in Nat, m \in D PROVE m + 1 \in D
  <2>1. PICK t : Eq(t, m)
    BY <1>2
  <2> DEFINE u == [n \in 0..m+1 |-> IF n = m + 1 THEN Wake(t[m], chain[m+1])
                                                 ELSE t[n]]
  <2>2. Eq(u, m + 1)
    <3>1. \A n \in 0..m+1 : n # 0 => n - 1 \in 0..m /\ u[n-1] = t[n-1]
      OBVIOUS
    <3>2. u[0] = w
      BY <2>1
    <3>3. ASSUME NEW n \in 0..m+1
          PROVE  u[n] = IF n = 0 THEN w ELSE Wake(u[n-1], chain[n])
      <4>1. CASE n = 0
        BY <3>2, <4>1
      <4>2. CASE n = m + 1
        BY <3>1, <4>2
      <4>3. CASE n # 0 /\ n # m + 1
        <5>1. n \in 0..m /\ u[n] = t[n] /\ u[n-1] = t[n-1]
          BY <3>1, <4>3
        <5> QED
          BY <2>1, <4>3, <5>1
      <4> QED
        BY <4>1, <4>2, <4>3
    <3> HIDE DEF u
    <3>4. u = [n \in 0..m+1 |-> u[n]]
      BY DEF u
    <3> QED
      BY <3>3, <3>4
  <2>3. m + 1 \in Nat
    OBVIOUS
  <2> HIDE DEF Eq, u
  <2> QED
    BY <2>2, <2>3
<1>3. N \in D
  <2> HIDE DEF D, N
  <2> QED
    BY <1>0, <1>1, <1>2, Induction
<1>4. WakeAll(w, chain) = (CHOOSE t : Eq(t, N))[N]
  BY DEF WakeAll
<1> QED
  BY <1>3, <1>4

\* Where the scan of the LSQ begins.
First(w) == [w |-> w, std_unknowns |-> <<>>, stop |-> FALSE]

\* The same for the scan of the LSQ.
LEMMA RefreshScan ==
    ASSUME NEW w, NEW S, NEW q \in Seq(S)
    PROVE  \E t : /\ t = [n \in 0..Len(q) |->
                            IF n = 0 THEN First(w) ELSE Refresh1(t[n-1], q[n])]
                  /\ RefreshAll(w, q) = t[Len(q)]
<1> DEFINE N == Len(q)
           Eq(t, m) == t = [n \in 0..m |->
                              IF n = 0 THEN First(w) ELSE Refresh1(t[n-1], q[n])]
           D == {n \in Nat : \E t : Eq(t, n)}
<1>0. N \in Nat
  OBVIOUS
<1>1. 0 \in D
  <2>1. Eq([n \in 0..0 |-> First(w)], 0)
    OBVIOUS
  <2> QED
    BY <2>1
<1>2. ASSUME NEW m \in Nat, m \in D PROVE m + 1 \in D
  <2>1. PICK t : Eq(t, m)
    BY <1>2
  <2> DEFINE u == [n \in 0..m+1 |-> IF n = m + 1 THEN Refresh1(t[m], q[m+1])
                                                 ELSE t[n]]
  <2>2. Eq(u, m + 1)
    <3>1. \A n \in 0..m+1 : n # 0 => n - 1 \in 0..m /\ u[n-1] = t[n-1]
      OBVIOUS
    <3>2. u[0] = First(w)
      BY <2>1
    <3>3. ASSUME NEW n \in 0..m+1
          PROVE  u[n] = IF n = 0 THEN First(w) ELSE Refresh1(u[n-1], q[n])
      <4>1. CASE n = 0
        BY <3>2, <4>1
      <4>2. CASE n = m + 1
        BY <3>1, <4>2
      <4>3. CASE n # 0 /\ n # m + 1
        <5>1. n \in 0..m /\ u[n] = t[n] /\ u[n-1] = t[n-1]
          BY <3>1, <4>3
        <5> QED
          BY <2>1, <4>3, <5>1
      <4> QED
        BY <4>1, <4>2, <4>3
    <3> HIDE DEF u
    <3>4. u = [n \in 0..m+1 |-> u[n]]
      BY DEF u
    <3> QED
      BY <3>3, <3>4
  <2>3. m + 1 \in Nat
    OBVIOUS
  <2> HIDE DEF Eq, u
  <2> QED
    BY <2>2, <2>3
<1>3. N \in D
  <2> HIDE DEF D, N
  <2> QED
    BY <1>0, <1>1, <1>2, Induction
<1>4. RefreshAll(w, q) = (CHOOSE t : Eq(t, N))[N]
  BY DEF RefreshAll, First
<1> QED
  BY <1>3, <1>4

\* The same for putting links back on the ready queue.
LEMMA RequeueWalk ==
    ASSUME NEW w, NEW S, NEW q \in Seq(S)
    PROVE  \E t : /\ t = [n \in 0..Len(q) |->
                            IF n = 0 THEN w ELSE Requeue(t[n-1], q[n])]
                  /\ RequeueAll(w, q) = t[Len(q)]
<1> DEFINE N == Len(q)
           Eq(t, m) == t = [n \in 0..m |->
                              IF n = 0 THEN w ELSE Requeue(t[n-1], q[n])]
           D == {n \in Nat : \E t : Eq(t, n)}
<1>0. N \in Nat
  OBVIOUS
<1>1. 0 \in D
  <2>1. Eq([n \in 0..0 |-> w], 0)
    OBVIOUS
  <2> QED
    BY <2>1
<1>2. ASSUME NEW m \in Nat, m \in D PROVE m + 1 \in D
  <2>1. PICK t : Eq(t, m)
    BY <1>2
  <2> DEFINE u == [n \in 0..m+1 |-> IF n = m + 1 THEN Requeue(t[m], q[m+1])
                                                 ELSE t[n]]
  <2>2. Eq(u, m + 1)
    <3>1. \A n \in 0..m+1 : n # 0 => n - 1 \in 0..m /\ u[n-1] = t[n-1]
      OBVIOUS
    <3>2. u[0] = w
      BY <2>1
    <3>3. ASSUME NEW n \in 0..m+1
          PROVE  u[n] = IF n = 0 THEN w ELSE Requeue(u[n-1], q[n])
      <4>1. CASE n = 0
        BY <3>2, <4>1
      <4>2. CASE n = m + 1
        BY <3>1, <4>2
      <4>3. CASE n # 0 /\ n # m + 1
        <5>1. n \in 0..m /\ u[n] = t[n] /\ u[n-1] = t[n-1]
          BY <3>1, <4>3
        <5> QED
          BY <2>1, <4>3, <5>1
      <4> QED
        BY <4>1, <4>2, <4>3
    <3> HIDE DEF u
    <3>4. u = [n \in 0..m+1 |-> u[n]]
      BY DEF u
    <3> QED
      BY <3>3, <3>4
  <2>3. m + 1 \in Nat
    OBVIOUS
  <2> HIDE DEF Eq, u
  <2> QED
    BY <2>2, <2>3
<1>3. N \in D
  <2> HIDE DEF D, N
  <2> QED
    BY <1>0, <1>1, <1>2, Induction
<1>4. RequeueAll(w, q) = (CHOOSE t : Eq(t, N))[N]
  BY DEF RequeueAll
<1> QED
  BY <1>3, <1>4

-----------------------------------------------------------------------------
Kinds  == {"alu", "load", "store", "ctrl", "trap", "agen"}
OLink  == [rs : Stations, tag : Nat, opnum : 1..3]
RLink  == [rs : Stations, tag : Nat, seq : Nat]
Event  == [rs : Stations, tag : Nat, when : Int]
CVLink == {CVLINK_NULL} \cup [rs : Stations, odep_num : 1..2]
RSType == [kind : Kinds \cup {NA}, fu : DOMAIN FuTable \cup {NA},
           longlat : BOOLEAN, addr : Nat, ea_comp : BOOLEAN,
           recover_inst : BOOLEAN, spec_mode : BOOLEAN, tag : Nat, seq : Nat,
           queued : BOOLEAN, issued : BOOLEAN, completed : BOOLEAN,
           onames : [1..2 -> Regs \cup {NA}],
           odep_list : [1..2 -> Seq(OLink)],
           idep_ready : [1..3 -> BOOLEAN]]
Messages == {"node is already queued", "RUU out of sync with LSQ",
             "retired instruction has odeps", "RUU head and tail broken",
             "RUU and LSQ out of sync", "mis-predicted load or store",
             "cannot recover unless in speculative mode",
             "output dependence already satisfied", "inst completed and !ready",
             "STD unknown array overflow", "issued inst !ready",
             "event occurred in the past", "drained and speculative"}
Worlds == [rs : [Stations -> RSType], ready_queue : Seq(RLink),
           panics : SUBSET Messages, create_vector : [Regs -> CVLink],
           spec_create_vector : [Regs -> CVLink], use_spec_cv : SUBSET Regs]

\* A station before its first use.
LEMMA BlankType == Blank \in RSType
<1> DEFINE z == <<FALSE, FALSE, FALSE>>
           n == <<NA, NA>>
           d == << <<>>, <<>> >>
<1>1. n \in [1..2 -> Regs \cup {NA}]
    BY PairType
<1>2. z \in [1..3 -> BOOLEAN]
    BY TripleType
<1>3. d \in [1..2 -> Seq(OLink)]
  <2>1. <<>> \in Seq(OLink)
    OBVIOUS
  <2> QED
    BY <2>1, PairType
<1>4. Blank = [kind |-> NA, fu |-> NA, longlat |-> FALSE, addr |-> 0,
          ea_comp |-> FALSE, recover_inst |-> FALSE, spec_mode |-> FALSE,
          tag |-> 0, seq |-> 0,
          queued |-> FALSE, issued |-> FALSE, completed |-> FALSE,
          onames |-> n, odep_list |-> d, idep_ready |-> z]
  BY DEF Blank
<1> HIDE DEF z, n, d
<1> QED
  BY <1>1, <1>2, <1>3, <1>4 DEF RSType

\* Every variable has its type.
Types ==
    /\ options \in Options
    /\ World \in Worlds
    /\ node \in Seq(RLink) /\ event_queue \in Seq(Event)
    /\ busy \in [Units -> Nat]
    /\ spec_mode \in BOOLEAN /\ inst_seq \in Nat /\ count \in Nat
    /\ RUU_head \in 0..RUU_size-1 /\ RUU_num \in 0..RUU_size
    /\ LSQ_head \in 0..LSQ_size-1 /\ LSQ_num \in 0..LSQ_size

\* r is q with l put somewhere.
Inserted(q, l, r) ==
    \E m \in 1..Len(q)+1 :
       r = [j \in 1..Len(q)+1 |-> IF j < m THEN q[j]
                                  ELSE IF j = m THEN l ELSE q[j-1]]

\* Inserting a link into a list of links makes such a list, one longer.
LEMMA InsertedType ==
    ASSUME NEW S, NEW q \in Seq(S), NEW l \in S, NEW r, Inserted(q, l, r)
    PROVE  r \in Seq(S) /\ Len(r) = Len(q) + 1
<1>1. PICK m \in 1..Len(q)+1 :
         r = [j \in 1..Len(q)+1 |-> IF j < m THEN q[j]
                                    ELSE IF j = m THEN l ELSE q[j-1]]
  BY DEF Inserted
<1>2. Len(q) + 1 \in Nat
  OBVIOUS
<1>3. \A j \in 1..Len(q)+1 : r[j] \in S
  BY <1>1
<1> QED
  BY <1>1, <1>2, <1>3

\* Putting a link before a list inserts it.
LEMMA ConsInserts ==
    ASSUME NEW S, NEW q \in Seq(S), NEW l \in S
    PROVE  Inserted(q, l, <<l>> \o q)
<1> DEFINE r == <<l>> \o q
<1>1. r \in Seq(S) /\ Len(r) = Len(q) + 1
  OBVIOUS
<1>2. \A j \in 1..Len(q)+1 : r[j] = IF j = 1 THEN l ELSE q[j-1]
  OBVIOUS
<1>3. r = [j \in 1..Len(q)+1 |-> r[j]]
  BY <1>1
<1> HIDE DEF r
<1>4. r = [j \in 1..Len(q)+1 |-> IF j < 1 THEN q[j]
                                 ELSE IF j = 1 THEN l ELSE q[j-1]]
  BY <1>2, <1>3
<1>5. 1 \in 1..Len(q)+1
  OBVIOUS
<1>6. Inserted(q, l, r)
  BY <1>4, <1>5 DEF Inserted
<1> QED
  BY <1>6 DEF r

\* The insertion at a place of the list, as readyq_enqueue makes it, inserts it.
LEMMA InsertInserts ==
    ASSUME NEW S, NEW q \in Seq(S), NEW l \in S, NEW i \in 0..Len(q)
    PROVE  Inserted(q, l, Insert(q, l, i))
<1> DEFINE m == IF i = 0 THEN Len(q) + 1 ELSE i
           a == SubSeq(q, 1, m-1)
           b == SubSeq(q, m, Len(q))
           r == a \o <<l>> \o b
<1>0. Len(q) \in Nat
  OBVIOUS
<1>1. m \in 1..Len(q)+1 /\ m \in Nat
  BY <1>0
<1> HIDE DEF m
<1>2. a \in Seq(S) /\ Len(a) = m - 1 /\ \A j \in 1..m-1 : a[j] = q[j]
  BY <1>1
<1>3. b \in Seq(S) /\ Len(b) = Len(q) + 1 - m
      /\ \A j \in 1..Len(q)+1-m : b[j] = q[m + j - 1]
  BY <1>1
<1> HIDE DEF a, b
<1>4. /\ a \o <<l>> \in Seq(S) /\ Len(a \o <<l>>) = m
      /\ \A j \in 1..m : (a \o <<l>>)[j] = IF j < m THEN q[j] ELSE l
  BY <1>1, <1>2
<1>5. /\ r \in Seq(S) /\ Len(r) = Len(q) + 1
      /\ \A j \in 1..Len(q)+1 :
            r[j] = IF j < m THEN q[j] ELSE IF j = m THEN l ELSE q[j-1]
  <2> DEFINE c == a \o <<l>>
  <2> HIDE DEF c
  <2>1. c \o b \in Seq(S) /\ Len(c \o b) = Len(q) + 1
    <3>1. c \in Seq(S) /\ Len(c) = m /\ b \in Seq(S)
      BY <1>3, <1>4 DEF c
    <3>2. c \o b \in Seq(S) /\ Len(c \o b) = Len(c) + Len(b)
      BY <3>1
    <3> QED
      BY <1>0, <1>1, <1>3, <3>1, <3>2
  <2>2. ASSUME NEW j \in 1..Len(q)+1
        PROVE (c \o b)[j] = IF j < m THEN q[j] ELSE IF j = m THEN l ELSE q[j-1]
    <3>1. CASE j <= m
      BY <1>1, <1>3, <1>4, <3>1 DEF c
    <3>2. CASE j > m
      <4>1. (c \o b)[j] = b[j - m]
        BY <1>1, <1>3, <1>4, <3>2 DEF c
      <4>2. j - m \in 1..Len(q)+1-m /\ m + (j - m) - 1 = j - 1
        BY <1>1, <3>2
      <4> QED
        BY <1>1, <1>3, <3>2, <4>1, <4>2
    <3>3. j \in Nat
      BY <1>0
    <3>4. j <= m \/ j > m
      BY <1>1, <3>3
    <3> QED
      BY <3>1, <3>2, <3>4
  <2> QED
    BY <2>1, <2>2 DEF c
<1>6. r = [j \in 1..Len(q)+1 |-> r[j]]
  BY <1>5
<1>7. Insert(q, l, i) = r
  BY DEF Insert, InsertAt, m, a, b
<1> HIDE DEF r
<1>8. r = [j \in 1..Len(q)+1 |-> IF j < m THEN q[j]
                                 ELSE IF j = m THEN l ELSE q[j-1]]
  BY <1>5, <1>6
<1> QED
  BY <1>1, <1>7, <1>8 DEF Inserted

\* readyq_enqueue(): one more link, wherever it goes, and the queued bit.
LEMMA Enqueue ==
    ASSUME NEW w \in Worlds, NEW s \in Stations
    PROVE  LET v == readyq_enqueue(w, s)
               l == [rs |-> s, tag |-> w.rs[s].tag, seq |-> w.rs[s].seq]
           IN  /\ v \in Worlds
               /\ v.rs = [w.rs EXCEPT ![s].queued = TRUE]
               /\ Inserted(w.ready_queue, l, v.ready_queue)
               /\ v.panics = w.panics \cup
                    (IF w.rs[s].queued THEN {"node is already queued"} ELSE {})
               /\ v.create_vector = w.create_vector
               /\ v.spec_create_vector = w.spec_create_vector
               /\ v.use_spec_cv = w.use_spec_cv
<1> DEFINE v == readyq_enqueue(w, s)
           r == w.rs[s]
           l == [rs |-> s, tag |-> r.tag, seq |-> r.seq]
           q == w.ready_queue
           I == {i \in 1..Len(q) : q[i].seq >= r.seq}
           i == IF I # {} THEN Min(I) ELSE 0
           x == IF in_LSQ(s) \/ r.longlat \/ r.kind = "ctrl"
                THEN <<l>> \o q ELSE Insert(q, l, i)
<1>1. r \in RSType /\ q \in Seq(RLink) /\ l \in RLink
  BY DEF Worlds, RSType, RLink
<1>2. i \in 0..Len(q)
  <2>1. Len(q) \in Nat /\ I \in SUBSET (1..Len(q))
    BY <1>1
  <2> HIDE DEF I, q
  <2>2. I # {} => Min(I) \in I
    BY <2>1, MinIndex
  <2>3. CASE I = {}
    BY <2>1, <2>3
  <2>4. CASE I # {}
    <3>1. Min(I) \in 1..Len(q)
      BY <2>1, <2>2, <2>4
    <3> QED
      BY <2>1, <2>4, <3>1
  <2> QED
    BY <2>3, <2>4
<1>3. v = [Panic(w, r.queued, "node is already queued") EXCEPT
             !.rs[s].queued = TRUE, !.ready_queue = x]
  BY DEF readyq_enqueue, SelectInSeq
<1>4. Inserted(q, l, x)
  <2> HIDE DEF i, l, q
  <2> QED
    BY <1>1, <1>2, ConsInserts, InsertInserts
<1>5. x \in Seq(RLink)
  <2> HIDE DEF x, l, q
  <2> QED
    BY <1>1, <1>4, InsertedType
<1> HIDE DEF x, i, I
<1>6. [r EXCEPT !.queued = TRUE] \in RSType
  BY <1>1 DEF RSType
<1>7. [w.rs EXCEPT ![s].queued = TRUE] \in [Stations -> RSType]
  BY <1>6 DEF Worlds
<1>8. /\ v.rs = [w.rs EXCEPT ![s].queued = TRUE]
      /\ v.ready_queue = x
      /\ v.panics = w.panics \cup
              (IF r.queued THEN {"node is already queued"} ELSE {})
      /\ v.create_vector = w.create_vector
      /\ v.spec_create_vector = w.spec_create_vector
      /\ v.use_spec_cv = w.use_spec_cv
      /\ v = [rs |-> v.rs, ready_queue |-> v.ready_queue, panics |-> v.panics,
              create_vector |-> v.create_vector,
              spec_create_vector |-> v.spec_create_vector,
              use_spec_cv |-> v.use_spec_cv]
  <2> HIDE DEF v
  <2> QED
    BY <1>3 DEF Panic, Worlds
<1> HIDE DEF v
<1>9. v \in Worlds
  <2>1. v.panics \in SUBSET Messages
    BY <1>8 DEF Worlds, Messages
  <2>2. v.rs \in [Stations -> RSType] /\ v.ready_queue \in Seq(RLink)
    BY <1>5, <1>7, <1>8
  <2>3. /\ v.create_vector \in [Regs -> CVLink]
        /\ v.spec_create_vector \in [Regs -> CVLink]
        /\ v.use_spec_cv \in SUBSET Regs
    BY <1>8 DEF Worlds
  <2> QED
    BY <1>8, <2>1, <2>2, <2>3 DEF Worlds
<1>10. QED
  BY <1>4, <1>8, <1>9 DEF v

-----------------------------------------------------------------------------
\* A link is stale, or its station is one of the stations A in use.
LinkOK(rr, A, l) == \/ l.tag < rr[l.rs].tag
                    \/ l.tag = rr[l.rs].tag /\ l.rs \in A
LinksOK(rr, A, q) == \A k \in DOMAIN q : LinkOK(rr, A, q[k])

\* The k-th link of q is a valid one to station s.
Ref(rr, q, k, s) == q[k].rs = s /\ q[k].tag = rr[s].tag

\* The stations with a valid link in q or nd are those queued, each once.
ReadyOnce(rr, q, nd) ==
    \A s \in Stations :
       /\ \A j, k \in DOMAIN q : Ref(rr, q, j, s) /\ Ref(rr, q, k, s) => j = k
       /\ \A j, k \in DOMAIN nd : Ref(rr, nd, j, s) /\ Ref(rr, nd, k, s) => j = k
       /\ \A j \in DOMAIN q : \A k \in DOMAIN nd :
             ~(Ref(rr, q, j, s) /\ Ref(rr, nd, k, s))
       /\ rr[s].queued <=> \/ \E k \in DOMAIN q : Ref(rr, q, k, s)
                           \/ \E k \in DOMAIN nd : Ref(rr, nd, k, s)

\* The links of a list stay good when a good one is inserted.
LEMMA InsertedLinks ==
    ASSUME NEW rr, NEW A, NEW S, NEW q \in Seq(S), NEW l, NEW r,
           Inserted(q, l, r), LinksOK(rr, A, q), LinkOK(rr, A, l)
    PROVE  LinksOK(rr, A, r)
<1>1. PICK m \in 1..Len(q)+1 :
         r = [j \in 1..Len(q)+1 |-> IF j < m THEN q[j]
                                    ELSE IF j = m THEN l ELSE q[j-1]]
  BY DEF Inserted
<1>2. DOMAIN q = 1..Len(q) /\ Len(q) \in Nat
  OBVIOUS
<1>3. ASSUME NEW j \in 1..Len(q)+1 PROVE LinkOK(rr, A, r[j])
  <2>1. CASE j < m
    <3>1. j \in DOMAIN q /\ r[j] = q[j]
      BY <1>1, <1>2, <2>1
    <3> QED
      BY <3>1 DEF LinksOK
  <2>2. CASE j = m
    BY <1>1, <2>2
  <2>3. CASE j > m
    <3>1. j-1 \in DOMAIN q /\ r[j] = q[j-1]
      BY <1>1, <1>2, <2>3
    <3> QED
      BY <3>1 DEF LinksOK
  <2> QED
    BY <1>2, <2>1, <2>2, <2>3
<1> QED
  BY <1>1, <1>3 DEF LinksOK

\* The link l of a station that was not queued is put on the list q.
Queueing(rr, r2, q, r, l, nd) ==
    /\ rr \in [Stations -> RSType] /\ q \in Seq(RLink)
    /\ nd \in Seq(RLink) /\ l \in RLink
    /\ l.tag = rr[l.rs].tag /\ ~rr[l.rs].queued
    /\ Inserted(q, l, r) /\ ReadyOnce(rr, q, nd)
    /\ \A x \in Stations : /\ r2[x].tag = rr[x].tag
                           /\ r2[x].queued <=> rr[x].queued \/ x = l.rs

\* After readyq_enqueue each queued station still has exactly one link.
LEMMA ReadyEnqueued ==
    ASSUME NEW rr, NEW r2, NEW q, NEW r, NEW l, NEW nd,
           Queueing(rr, r2, q, r, l, nd)
    PROVE  ReadyOnce(r2, r, nd)
<1> DEFINE s == l.rs
<1>0. /\ rr \in [Stations -> RSType] /\ q \in Seq(RLink)
      /\ nd \in Seq(RLink) /\ l \in RLink /\ s \in Stations
      /\ l.tag = rr[s].tag /\ ~rr[s].queued
      /\ Inserted(q, l, r) /\ ReadyOnce(rr, q, nd)
      /\ \A x \in Stations : /\ r2[x].tag = rr[x].tag
                             /\ r2[x].queued <=> rr[x].queued \/ x = s
  BY DEF Queueing, RLink
<1> HIDE DEF s
<1>1. PICK m \in 1..Len(q)+1 :
         r = [j \in 1..Len(q)+1 |-> IF j < m THEN q[j]
                                    ELSE IF j = m THEN l ELSE q[j-1]]
  BY <1>0 DEF Inserted
<1> DEFINE Old(j) == IF j < m THEN j ELSE j - 1
           New(j) == IF j < m THEN j ELSE j + 1
<1>2. Len(q) \in Nat /\ DOMAIN q = 1..Len(q) /\ DOMAIN r = 1..Len(q)+1
      /\ m \in DOMAIN r
  BY <1>0, <1>1
<1>3. \A j \in DOMAIN r : j # m => Old(j) \in DOMAIN q /\ r[j] = q[Old(j)]
  BY <1>1, <1>2
<1>4. \A j \in DOMAIN q : New(j) \in DOMAIN r /\ New(j) # m /\ r[New(j)] = q[j]
  BY <1>1, <1>2
<1>5. \A i, j \in DOMAIN r : i # m /\ j # m /\ Old(i) = Old(j) => i = j
  BY <1>2
<1>6. r[m] = l
  BY <1>1
<1> HIDE DEF Old, New
<1> SUFFICES ASSUME NEW x \in Stations
    PROVE /\ \A j, k \in DOMAIN r : Ref(r2, r, j, x) /\ Ref(r2, r, k, x) => j = k
          /\ \A j, k \in DOMAIN nd : Ref(r2, nd, j, x) /\ Ref(r2, nd, k, x) => j = k
          /\ \A j \in DOMAIN r : \A k \in DOMAIN nd :
                ~(Ref(r2, r, j, x) /\ Ref(r2, nd, k, x))
          /\ r2[x].queued <=> \/ \E k \in DOMAIN r : Ref(r2, r, k, x)
                              \/ \E k \in DOMAIN nd : Ref(r2, nd, k, x)
  BY DEF ReadyOnce
<1>7. \A j \in DOMAIN r : j # m => (Ref(r2, r, j, x) <=> Ref(rr, q, Old(j), x))
  BY <1>0, <1>3 DEF Ref
<1>8. Ref(r2, r, m, x) <=> x = s
  BY <1>0, <1>6 DEF Ref, s
<1>9. \A j \in DOMAIN q : Ref(rr, q, j, x) <=> Ref(r2, r, New(j), x)
  BY <1>0, <1>4 DEF Ref
<1>10. \A k \in DOMAIN nd : Ref(r2, nd, k, x) <=> Ref(rr, nd, k, x)
  BY <1>0 DEF Ref
<1>11. x = s => /\ \A k \in DOMAIN q : ~Ref(rr, q, k, x)
                /\ \A k \in DOMAIN nd : ~Ref(rr, nd, k, x)
  BY <1>0 DEF ReadyOnce
<1>12. /\ \A j, k \in DOMAIN q : Ref(rr, q, j, x) /\ Ref(rr, q, k, x) => j = k
       /\ \A j, k \in DOMAIN nd : Ref(rr, nd, j, x) /\ Ref(rr, nd, k, x) => j = k
       /\ \A j \in DOMAIN q : \A k \in DOMAIN nd :
             ~(Ref(rr, q, j, x) /\ Ref(rr, nd, k, x))
       /\ rr[x].queued <=> \/ \E k \in DOMAIN q : Ref(rr, q, k, x)
                           \/ \E k \in DOMAIN nd : Ref(rr, nd, k, x)
  BY <1>0 DEF ReadyOnce
<1>13. \A j, k \in DOMAIN r : Ref(r2, r, j, x) /\ Ref(r2, r, k, x) => j = k
  BY <1>3, <1>5, <1>7, <1>8, <1>11, <1>12
<1>14. \A j \in DOMAIN r : \A k \in DOMAIN nd :
          ~(Ref(r2, r, j, x) /\ Ref(r2, nd, k, x))
  BY <1>3, <1>7, <1>8, <1>10, <1>11, <1>12
<1>15. r2[x].queued <=> \/ \E k \in DOMAIN r : Ref(r2, r, k, x)
                        \/ \E k \in DOMAIN nd : Ref(r2, nd, k, x)
  <2>1. r2[x].queued <=> rr[x].queued \/ x = s
    BY <1>0
  <2>2. (\E k \in DOMAIN r : Ref(r2, r, k, x)) <=>
           (x = s \/ \E k \in DOMAIN q : Ref(rr, q, k, x))
    BY <1>2, <1>3, <1>4, <1>7, <1>8, <1>9
  <2>3. (\E k \in DOMAIN nd : Ref(r2, nd, k, x)) <=>
           (\E k \in DOMAIN nd : Ref(rr, nd, k, x))
    BY <1>10
  <2> QED
    BY <1>12, <2>1, <2>2, <2>3
<1> QED
  BY <1>10, <1>12, <1>13, <1>14, <1>15

\* panic() adds its text when its condition holds, and does nothing else.
LEMMA PanicEffect ==
    ASSUME NEW w \in Worlds, NEW cond \in BOOLEAN, NEW what \in Messages
    PROVE  LET p == Panic(w, cond, what)
           IN  /\ p \in Worlds /\ p.rs = w.rs
               /\ p.ready_queue = w.ready_queue
               /\ p.panics = w.panics \cup (IF cond THEN {what} ELSE {})
               /\ p.create_vector = w.create_vector
               /\ p.spec_create_vector = w.spec_create_vector
               /\ p.use_spec_cv = w.use_spec_cv
<1> DEFINE x == w.panics \cup (IF cond THEN {what} ELSE {})
<1>1. Panic(w, cond, what) = [w EXCEPT !.panics = x]
  BY DEF Panic
<1>2. x \in SUBSET Messages
  BY DEF Worlds
<1> HIDE DEF x
<1>3. [w EXCEPT !.panics = x].panics = x
  BY DEF Worlds
<1> QED
  BY <1>1, <1>2, <1>3 DEF Worlds, x

\* One link of a chain: the operand is ready, the station may be queued.
LEMMA WakeStep ==
    ASSUME NEW w \in Worlds, NEW l \in OLink
    PROVE  LET v == Wake(w, l)
               s == l.rs
               r == w.rs[s]
               i == [r.idep_ready EXCEPT ![l.opnum] = TRUE]
               fire == (\A k \in 1..3 : i[k]) /\ (in_LSQ(s) => Store(r))
               x == [rs |-> s, tag |-> r.tag, seq |-> r.seq]
           IN  /\ v \in Worlds
               /\ ~RSLINK_VALID(w.rs, l) => v = w
               /\ RSLINK_VALID(w.rs, l) =>
                    /\ v.rs = [w.rs EXCEPT ![s].idep_ready = i,
                                           ![s].queued = @ \/ fire]
                    /\ IF fire THEN Inserted(w.ready_queue, x, v.ready_queue)
                               ELSE v.ready_queue = w.ready_queue
                    /\ (~r.idep_ready[l.opnum] /\ ~r.queued) =>
                          v.panics = w.panics
               /\ v.create_vector = w.create_vector
               /\ v.spec_create_vector = w.spec_create_vector
               /\ v.use_spec_cv = w.use_spec_cv
<1> DEFINE v == Wake(w, l)
           s == l.rs
           r == w.rs[s]
           i == [r.idep_ready EXCEPT ![l.opnum] = TRUE]
           fire == (\A k \in 1..3 : i[k]) /\ (in_LSQ(s) => Store(r))
           x == [rs |-> s, tag |-> r.tag, seq |-> r.seq]
           p == Panic(w, r.idep_ready[l.opnum],
                      "output dependence already satisfied")
           w1 == [p EXCEPT !.rs[s].idep_ready[l.opnum] = TRUE]
<1>1. s \in Stations /\ r \in RSType /\ l.opnum \in 1..3
  BY DEF OLink, Worlds
<1>2. i \in [1..3 -> BOOLEAN] /\ r.queued \in BOOLEAN /\ fire \in BOOLEAN
  BY <1>1 DEF RSType
<1>3. [r EXCEPT !.idep_ready = i] \in RSType
  BY <1>1, <1>2 DEF RSType
<1>4. /\ w1.rs = [w.rs EXCEPT ![s].idep_ready = i]
      /\ w1.ready_queue = w.ready_queue
      /\ w1.panics = w.panics \cup (IF r.idep_ready[l.opnum]
             THEN {"output dependence already satisfied"} ELSE {})
      /\ w1.create_vector = w.create_vector
      /\ w1.spec_create_vector = w.spec_create_vector
      /\ w1.use_spec_cv = w.use_spec_cv
      /\ w1 = [rs |-> w1.rs, ready_queue |-> w1.ready_queue,
               panics |-> w1.panics, create_vector |-> w1.create_vector,
               spec_create_vector |-> w1.spec_create_vector,
               use_spec_cv |-> w1.use_spec_cv]
  <2>1. /\ p \in Worlds /\ p.rs = w.rs
        /\ p.ready_queue = w.ready_queue
        /\ p.panics = w.panics \cup (IF r.idep_ready[l.opnum]
               THEN {"output dependence already satisfied"} ELSE {})
        /\ p.create_vector = w.create_vector
        /\ p.spec_create_vector = w.spec_create_vector
        /\ p.use_spec_cv = w.use_spec_cv
    <3>1. r.idep_ready[l.opnum] \in BOOLEAN
      BY <1>1 DEF RSType
    <3>2. "output dependence already satisfied" \in Messages
      BY DEF Messages
    <3> QED
      BY <3>1, <3>2, PanicEffect
  <2> HIDE DEF p
  <2>2. p.rs[s].idep_ready = r.idep_ready
    BY <2>1
  <2>3. [p.rs EXCEPT ![s].idep_ready[l.opnum] = TRUE]
           = [w.rs EXCEPT ![s].idep_ready = i]
    BY <2>1
  <2>4. w1 = [p EXCEPT !.rs = [p.rs EXCEPT ![s].idep_ready[l.opnum] = TRUE]]
    BY <2>1 DEF w1
  <2> HIDE DEF w1, i
  <2> QED
    BY <2>1, <2>3, <2>4 DEF Worlds
<1> HIDE DEF w1
<1>5. w1 \in Worlds
  <2>1. w1.rs \in [Stations -> RSType]
    BY <1>1, <1>3, <1>4 DEF Worlds
  <2>2. w1.panics \in SUBSET Messages
    BY <1>4 DEF Worlds, Messages
  <2> QED
    BY <1>4, <2>1, <2>2 DEF Worlds
<1>6. w1.rs[s] = [r EXCEPT !.idep_ready = i]
  BY <1>1, <1>4 DEF Worlds
<1>7. /\ w1.rs[s].idep_ready = i /\ w1.rs[s].queued = r.queued
      /\ w1.rs[s].tag = r.tag /\ w1.rs[s].seq = r.seq
      /\ w1.rs[s].kind = r.kind
  BY <1>1, <1>6 DEF RSType
<1>8. v = IF ~RSLINK_VALID(w.rs, l) THEN w
          ELSE IF fire THEN readyq_enqueue(w1, s) ELSE w1
  BY <1>7 DEF Wake, OPERANDS_READY, Store, w1
<1>9. CASE ~RSLINK_VALID(w.rs, l)
  BY <1>8, <1>9
<1>10. CASE RSLINK_VALID(w.rs, l) /\ ~fire
  <2>1. v = w1
    BY <1>8, <1>10
  <2>2. [w.rs EXCEPT ![s].idep_ready = i, ![s].queued = @ \/ fire]
          = [w.rs EXCEPT ![s].idep_ready = i]
    <3>1. [r EXCEPT !.idep_ready = i, !.queued = r.queued \/ fire] = [r EXCEPT !.idep_ready = i]
      BY <1>1, <1>2, <1>10 DEF RSType
    <3> QED
      BY <1>1, <3>1 DEF Worlds
  <2> QED
    BY <1>4, <1>5, <1>10, <2>1, <2>2
<1>11. CASE RSLINK_VALID(w.rs, l) /\ fire
  <2>1. v = readyq_enqueue(w1, s)
    BY <1>8, <1>11
  <2> HIDE DEF v
  <2>2. /\ v \in Worlds
        /\ v.rs = [w1.rs EXCEPT ![s].queued = TRUE]
        /\ Inserted(w1.ready_queue, x, v.ready_queue)
        /\ v.panics = w1.panics \cup
             (IF w1.rs[s].queued THEN {"node is already queued"} ELSE {})
        /\ v.create_vector = w1.create_vector
        /\ v.spec_create_vector = w1.spec_create_vector
        /\ v.use_spec_cv = w1.use_spec_cv
    BY <1>1, <1>5, <1>7, <2>1, Enqueue
  <2>3. v.rs = [w.rs EXCEPT ![s].idep_ready = i, ![s].queued = @ \/ fire]
    BY <1>1, <1>2, <1>4, <1>11, <2>2 DEF Worlds, RSType
  <2> QED
    BY <1>4, <1>7, <1>11, <2>2, <2>3 DEF v
<1> HIDE DEF v, fire, x, i
<1>12. QED
  BY <1>9, <1>10, <1>11 DEF v, fire, x, i

\* One of the first n links of the chain is to operand k of station s.
Hit(rr, chain, n, s, k) ==
    \E m \in 1..n : chain[m] = [rs |-> s, tag |-> rr[s].tag, opnum |-> k]

\* The same but for the state of the operands and the ready queue.
Alike(a, b) ==
    /\ a.kind = b.kind /\ a.fu = b.fu /\ a.longlat = b.longlat
    /\ a.addr = b.addr /\ a.ea_comp = b.ea_comp /\ a.tag = b.tag
    /\ a.recover_inst = b.recover_inst /\ a.spec_mode = b.spec_mode
    /\ a.seq = b.seq /\ a.issued = b.issued /\ a.completed = b.completed
    /\ a.onames = b.onames /\ a.odep_list = b.odep_list

\* What the first n links make of the stations rr.
Woken(rr, r2, chain, n) ==
    \A s \in Stations :
       /\ Alike(r2[s], rr[s])
       /\ \A k \in 1..3 : r2[s].idep_ready[k] <=>
             rr[s].idep_ready[k] \/ Hit(rr, chain, n, s, k)
       /\ r2[s].queued <=>
             \/ rr[s].queued
             \/ /\ \E k \in 1..3 : Hit(rr, chain, n, s, k)
                /\ OPERANDS_READY(r2[s])
                /\ in_LSQ(s) => Store(rr[s])

\* No link of the chain is to an operand that is ready, or there twice.
Fresh(rr, chain) ==
    /\ \A m \in DOMAIN chain : RSLINK_VALID(rr, chain[m]) =>
          ~rr[chain[m].rs].idep_ready[chain[m].opnum]
    /\ \A i, j \in DOMAIN chain :
          RSLINK_VALID(rr, chain[i]) /\ chain[i] = chain[j] => i = j

\* A station in the ready queue has all its operands.
QueuedReady(rr) == \A s \in Stations : rr[s].queued => OPERANDS_READY(rr[s])

\* v is w after the first n links of the chain were followed.
WakeGood(w, v, A, nd, chain, n) ==
    /\ v \in Worlds
    /\ Woken(w.rs, v.rs, chain, n)
    /\ v.panics = w.panics
    /\ ReadyOnce(v.rs, v.ready_queue, nd)
    /\ LinksOK(w.rs, A, v.ready_queue)
    /\ v.create_vector = w.create_vector
    /\ v.spec_create_vector = w.spec_create_vector
    /\ v.use_spec_cv = w.use_spec_cv

\* The operands that n + 1 links of a chain reach: those of the first n, and
\* that of the last.
LEMMA HitNext ==
    ASSUME NEW rr, NEW chain, NEW n \in Nat, NEW s, NEW k
    PROVE  Hit(rr, chain, n+1, s, k) <=>
              \/ Hit(rr, chain, n, s, k)
              \/ chain[n+1] = [rs |-> s, tag |-> rr[s].tag, opnum |-> k]
<1>1. 1..n+1 = (1..n) \cup {n+1}
  OBVIOUS
<1> QED
  BY <1>1 DEF Hit

\* One iteration of the broadcast loop of ruu_writeback keeps WakeGood.
LEMMA WakeGoodStep ==
    ASSUME NEW w \in Worlds, NEW v, NEW A, NEW nd \in Seq(RLink),
           NEW chain \in Seq(OLink), NEW n \in Nat, n < Len(chain),
           LinksOK(w.rs, A, chain), Fresh(w.rs, chain), QueuedReady(w.rs),
           WakeGood(w, v, A, nd, chain, n)
    PROVE  WakeGood(w, Wake(v, chain[n+1]), A, nd, chain, n + 1)
<1> DEFINE l == chain[n+1]
           u == Wake(v, l)
           s == l.rs
           r == v.rs[s]
           i == [r.idep_ready EXCEPT ![l.opnum] = TRUE]
           fire == (\A k \in 1..3 : i[k]) /\ (in_LSQ(s) => Store(r))
           x == [rs |-> s, tag |-> r.tag, seq |-> r.seq]
<1>1. n + 1 \in DOMAIN chain /\ l \in OLink /\ s \in Stations /\ l.opnum \in 1..3
  <2>1. n + 1 \in DOMAIN chain /\ l \in OLink
    OBVIOUS
  <2> QED
    BY <2>1 DEF OLink
<1>2. v \in Worlds /\ v.rs \in [Stations -> RSType] /\ r \in RSType
      /\ w.rs \in [Stations -> RSType] /\ v.ready_queue \in Seq(RLink)
      /\ w.rs[s] \in RSType
  BY <1>1 DEF WakeGood, Worlds
<1> HIDE DEF u, l
<1>3. /\ u \in Worlds
      /\ ~RSLINK_VALID(v.rs, l) => u = v
      /\ RSLINK_VALID(v.rs, l) =>
           /\ u.rs = [v.rs EXCEPT ![s].idep_ready = i, ![s].queued = @ \/ fire]
           /\ IF fire THEN Inserted(v.ready_queue, x, u.ready_queue)
                      ELSE u.ready_queue = v.ready_queue
           /\ (~r.idep_ready[l.opnum] /\ ~r.queued) => u.panics = v.panics
      /\ u.create_vector = v.create_vector
      /\ u.spec_create_vector = v.spec_create_vector
      /\ u.use_spec_cv = v.use_spec_cv
  BY <1>1, <1>2, WakeStep DEF u
<1>4. \A y \in Stations : v.rs[y].tag = w.rs[y].tag /\ v.rs[y].kind = w.rs[y].kind
  BY DEF WakeGood, Woken, Alike
<1>5. \A y \in Stations, k \in 1..3 :
         Hit(w.rs, chain, n+1, y, k) <=>
            \/ Hit(w.rs, chain, n, y, k)
            \/ l = [rs |-> y, tag |-> w.rs[y].tag, opnum |-> k]
  BY HitNext DEF l
<1>6. \A y \in Stations, k \in 1..3 :
         l = [rs |-> y, tag |-> w.rs[y].tag, opnum |-> k] <=>
            RSLINK_VALID(v.rs, l) /\ y = s /\ k = l.opnum
  BY <1>1, <1>4 DEF OLink, RSLINK_VALID
<1>7. CASE ~RSLINK_VALID(v.rs, l)
  <2>1. u = v
    BY <1>3, <1>7
  <2>2. Woken(w.rs, v.rs, chain, n+1)
    <3>1. \A y \in Stations, k \in 1..3 :
             Hit(w.rs, chain, n+1, y, k) <=> Hit(w.rs, chain, n, y, k)
      BY <1>5, <1>6, <1>7
    <3> QED
      BY <3>1 DEF WakeGood, Woken
  <2> QED
    BY <2>1, <2>2 DEF WakeGood, l, u
<1>8. CASE RSLINK_VALID(v.rs, l)
  <2>1. ~r.idep_ready[l.opnum]
    <3>1. RSLINK_VALID(w.rs, l)
      BY <1>1, <1>4, <1>8 DEF RSLINK_VALID
    <3>2. ~w.rs[s].idep_ready[l.opnum]
      BY <1>1, <3>1 DEF Fresh, l
    <3>3. ~Hit(w.rs, chain, n, s, l.opnum)
      <4> SUFFICES ASSUME NEW m \in 1..n,
                          chain[m] = [rs |-> s, tag |-> w.rs[s].tag,
                                      opnum |-> l.opnum]
                   PROVE  FALSE
        BY DEF Hit
      <4>1. m \in DOMAIN chain /\ n + 1 # m
        OBVIOUS
      <4>2. chain[m] = chain[n+1]
        BY <1>1, <1>4, <1>6, <1>8 DEF l
      <4> QED
        BY <1>1, <3>1, <4>1, <4>2 DEF Fresh, l
    <3> QED
      BY <1>1, <3>2, <3>3 DEF WakeGood, Woken
  <2>2. ~r.queued
    <3>1. ~OPERANDS_READY(r)
      BY <1>1, <2>1 DEF OPERANDS_READY
    <3>2. ~w.rs[s].queued
      <4>1. ~w.rs[s].idep_ready[l.opnum]
        BY <1>1, <2>1 DEF WakeGood, Woken
      <4> QED
        BY <1>1, <4>1 DEF QueuedReady, OPERANDS_READY
    <3> QED
      BY <1>1, <3>1, <3>2 DEF WakeGood, Woken
  <2>3. u.panics = w.panics
    BY <1>3, <1>8, <2>1, <2>2 DEF WakeGood
  <2>4. /\ u.rs[s] = [r EXCEPT !.idep_ready = i, !.queued = r.queued \/ fire]
        /\ \A y \in Stations : y # s => u.rs[y] = v.rs[y]
    BY <1>1, <1>2, <1>3, <1>8
  <2>5. /\ u.rs[s].idep_ready = i /\ (u.rs[s].queued <=> fire)
        /\ u.rs[s].tag = r.tag
    BY <1>2, <2>2, <2>4 DEF RSType
  <2>6. \A y \in Stations : u.rs[y].tag = v.rs[y].tag
    BY <2>4, <2>5
  <2>7. Woken(w.rs, u.rs, chain, n+1)
    <3> SUFFICES ASSUME NEW y \in Stations
        PROVE /\ Alike(u.rs[y], w.rs[y])
              /\ \A k \in 1..3 : u.rs[y].idep_ready[k] <=>
                    w.rs[y].idep_ready[k] \/ Hit(w.rs, chain, n+1, y, k)
              /\ u.rs[y].queued <=>
                    \/ w.rs[y].queued
                    \/ /\ \E k \in 1..3 : Hit(w.rs, chain, n+1, y, k)
                       /\ OPERANDS_READY(u.rs[y])
                       /\ in_LSQ(y) => Store(w.rs[y])
      BY DEF Woken
    <3>1. /\ Alike(v.rs[y], w.rs[y])
          /\ \A k \in 1..3 : v.rs[y].idep_ready[k] <=>
                w.rs[y].idep_ready[k] \/ Hit(w.rs, chain, n, y, k)
          /\ v.rs[y].queued <=>
                \/ w.rs[y].queued
                \/ /\ \E k \in 1..3 : Hit(w.rs, chain, n, y, k)
                   /\ OPERANDS_READY(v.rs[y])
                   /\ in_LSQ(y) => Store(w.rs[y])
      BY DEF WakeGood, Woken
    <3>2. CASE y # s
      <4>1. u.rs[y] = v.rs[y]
        BY <2>4, <3>2
      <4>2. \A k \in 1..3 : Hit(w.rs, chain, n+1, y, k) <=> Hit(w.rs, chain, n, y, k)
        BY <1>5, <1>6, <3>2
      <4> QED
        BY <3>1, <4>1, <4>2
    <3>3. CASE y = s
      <4>1. \A k \in 1..3 : Hit(w.rs, chain, n+1, y, k) <=>
                               Hit(w.rs, chain, n, y, k) \/ k = l.opnum
        BY <1>5, <1>6, <1>8, <3>3
      <4>2. Alike(u.rs[y], w.rs[y])
        <5>1. Alike(u.rs[s], r)
          BY <1>2, <2>4 DEF RSType, Alike
        <5> QED
          BY <3>1, <3>3, <5>1 DEF Alike
      <4>3. \A k \in 1..3 : i[k] <=> r.idep_ready[k] \/ k = l.opnum
        BY <1>1, <1>2 DEF RSType
      <4>4. \A k \in 1..3 : u.rs[y].idep_ready[k] <=>
                    w.rs[y].idep_ready[k] \/ Hit(w.rs, chain, n+1, y, k)
        BY <2>5, <3>1, <3>3, <4>1, <4>3
      <4>5. ~w.rs[y].queued
        BY <2>2, <3>1, <3>3
      <4>6. Store(r) <=> Store(w.rs[s])
        BY <1>1, <1>4 DEF Store
      <4>7. u.rs[y].queued <=> (OPERANDS_READY(u.rs[y]) /\ (in_LSQ(y) => Store(w.rs[y])))
        BY <2>5, <3>3, <4>6 DEF OPERANDS_READY
      <4>8. \E k \in 1..3 : Hit(w.rs, chain, n+1, y, k)
        BY <1>1, <4>1
      <4> QED
        BY <4>2, <4>4, <4>5, <4>7, <4>8
    <3> QED
      BY <3>2, <3>3
  <2>8. x \in RLink /\ x.rs = s /\ x.tag = r.tag
    BY <1>1, <1>2 DEF RLink, RSType
  <2>9. ReadyOnce(u.rs, u.ready_queue, nd) /\ LinksOK(w.rs, A, u.ready_queue)
    <3>1. ReadyOnce(v.rs, v.ready_queue, nd) /\ LinksOK(w.rs, A, v.ready_queue)
      BY DEF WakeGood
    <3>2. CASE ~fire
      <4>1. u.ready_queue = v.ready_queue
        BY <1>3, <1>8, <3>2
      <4>2. \A y \in Stations : u.rs[y].queued <=> v.rs[y].queued
        BY <2>2, <2>4, <2>5, <3>2
      <4>3. ReadyOnce(u.rs, v.ready_queue, nd)
        <5> SUFFICES ASSUME NEW y \in Stations
            PROVE  /\ \A q, k : Ref(u.rs, q, k, y) <=> Ref(v.rs, q, k, y)
                   /\ u.rs[y].queued <=> v.rs[y].queued
          BY <3>1 DEF ReadyOnce
        <5> QED
          BY <2>6, <4>2 DEF Ref
      <4> QED
        BY <3>1, <4>1, <4>3
    <3>3. CASE fire
      <4>1. Inserted(v.ready_queue, x, u.ready_queue)
        BY <1>3, <1>8, <3>3
      <4>2. \A y \in Stations : /\ u.rs[y].tag = v.rs[y].tag
                                /\ u.rs[y].queued <=> v.rs[y].queued \/ y = s
        BY <2>2, <2>4, <2>5, <2>6, <3>3
      <4>3. LinkOK(w.rs, A, x)
        <5>1. LinkOK(w.rs, A, l)
          BY <1>1 DEF LinksOK, l
        <5>2. l.tag = w.rs[s].tag /\ x.tag = w.rs[s].tag
          BY <1>1, <1>4, <1>8, <2>8 DEF RSLINK_VALID
        <5>3. w.rs[s].tag \in Nat
          BY <1>2 DEF RSType
        <5> QED
          BY <2>8, <5>1, <5>2, <5>3 DEF LinkOK
      <4> HIDE DEF x, fire, i
      <4>4. u.rs \in [Stations -> RSType]
        BY <1>3 DEF Worlds
      <4>5. ReadyOnce(u.rs, u.ready_queue, nd)
        <5>1. Queueing(v.rs, u.rs, v.ready_queue, u.ready_queue, x, nd)
          BY <1>1, <1>2, <2>2, <2>8, <3>1, <4>1, <4>2, <4>4 DEF Queueing
        <5> QED
          BY <5>1, ReadyEnqueued
      <4>6. LinksOK(w.rs, A, u.ready_queue)
        BY <1>2, <3>1, <4>1, <4>3, InsertedLinks
      <4> QED
        BY <4>5, <4>6
    <3> QED
      BY <3>2, <3>3
  <2> HIDE DEF fire, i, x
  <2>10. WakeGood(w, u, A, nd, chain, n+1)
    BY <1>3, <2>3, <2>7, <2>9 DEF WakeGood
  <2> QED
    BY <2>10 DEF u, l
<1> QED
  BY <1>7, <1>8

\* The broadcast loop wakes exactly the operands that the chain links to, and
\* queues those of the stations whose last operand came.
LEMMA WakeAllEffect ==
    ASSUME NEW w \in Worlds, NEW A, NEW nd \in Seq(RLink),
           NEW chain \in Seq(OLink),
           LinksOK(w.rs, A, chain), Fresh(w.rs, chain), QueuedReady(w.rs),
           ReadyOnce(w.rs, w.ready_queue, nd), LinksOK(w.rs, A, w.ready_queue)
    PROVE  WakeGood(w, WakeAll(w, chain), A, nd, chain, Len(chain))
<1>1. PICK t : /\ t = [n \in 0..Len(chain) |->
                         IF n = 0 THEN w ELSE Wake(t[n-1], chain[n])]
               /\ WakeAll(w, chain) = t[Len(chain)]
  BY WakeWalk
<1> DEFINE D == {n \in Nat : n <= Len(chain) =>
                                 WakeGood(w, t[n], A, nd, chain, n)}
<1>2. Len(chain) \in Nat
  OBVIOUS
<1>3. t[0] = w /\ \A n \in Nat : n < Len(chain) => t[n+1] = Wake(t[n], chain[n+1])
  <2>1. ASSUME NEW n \in Nat, n < Len(chain)
        PROVE  n + 1 \in 0..Len(chain) /\ n + 1 # 0 /\ (n + 1) - 1 = n
    BY <1>2, <2>1
  <2>2. \A n \in 0..Len(chain) : t[n] = IF n = 0 THEN w ELSE Wake(t[n-1], chain[n])
    BY <1>1
  <2>3. 0 \in 0..Len(chain)
    BY <1>2
  <2>4. ASSUME NEW n \in Nat, n < Len(chain)
        PROVE  t[n+1] = Wake(t[n], chain[n+1])
    BY <2>1, <2>2, <2>4
  <2> QED
    BY <2>2, <2>3, <2>4
<1>4. 0 \in D
  <2>1. Woken(w.rs, w.rs, chain, 0)
    BY DEF Woken, Alike, Hit
  <2>2. WakeGood(w, w, A, nd, chain, 0)
    BY <2>1 DEF WakeGood
  <2> QED
    BY <1>3, <2>2
<1>5. ASSUME NEW n \in Nat, n \in D PROVE n + 1 \in D
  <2> SUFFICES ASSUME n + 1 <= Len(chain)
               PROVE  WakeGood(w, t[n+1], A, nd, chain, n+1)
    OBVIOUS
  <2>1. n < Len(chain) /\ n <= Len(chain)
    BY <1>2
  <2>2. WakeGood(w, t[n], A, nd, chain, n)
    BY <1>5, <2>1
  <2> QED
    BY <1>3, <2>1, <2>2, WakeGoodStep
<1>6. Len(chain) \in D
  <2> HIDE DEF D
  <2> QED
    BY <1>2, <1>4, <1>5, Induction
<1> QED
  BY <1>1, <1>2, <1>6

-----------------------------------------------------------------------------
\* The first link of nd is taken off, and its station is not queued then.
Dequeueing(rr, r2, q, nd) ==
    /\ q \in Seq(RLink) /\ nd \in Seq(RLink) /\ nd # <<>>
    /\ ReadyOnce(rr, q, nd)
    /\ \A x \in Stations :
          /\ r2[x].tag = rr[x].tag
          /\ r2[x].queued <=> rr[x].queued /\ ~Ref(rr, nd, 1, x)

\* Once the first link of the list is taken, the other queued stations still
\* have one link each.
LEMMA ReadyDequeued ==
    ASSUME NEW rr, NEW r2, NEW q, NEW nd, Dequeueing(rr, r2, q, nd)
    PROVE  ReadyOnce(r2, q, Tail(nd))
<1> DEFINE r == Tail(nd)
<1>1. /\ q \in Seq(RLink) /\ nd \in Seq(RLink) /\ nd # <<>>
      /\ ReadyOnce(rr, q, nd)
      /\ \A x \in Stations :
            /\ r2[x].tag = rr[x].tag
            /\ r2[x].queued <=> rr[x].queued /\ ~Ref(rr, nd, 1, x)
  BY DEF Dequeueing
<1>2. Len(nd) \in Nat \ {0} /\ DOMAIN nd = 1..Len(nd) /\ DOMAIN r = 1..Len(nd)-1
      /\ \A k \in DOMAIN r : k + 1 \in DOMAIN nd /\ r[k] = nd[k+1]
  BY <1>1
<1>3. 1 \in DOMAIN nd /\ \A k \in DOMAIN nd : k # 1 => k - 1 \in DOMAIN r /\ nd[k] = r[k-1]
  BY <1>2
<1> HIDE DEF r
<1> SUFFICES ASSUME NEW x \in Stations
    PROVE /\ \A j, k \in DOMAIN q : Ref(r2, q, j, x) /\ Ref(r2, q, k, x) => j = k
          /\ \A j, k \in DOMAIN r : Ref(r2, r, j, x) /\ Ref(r2, r, k, x) => j = k
          /\ \A j \in DOMAIN q : \A k \in DOMAIN r :
                ~(Ref(r2, q, j, x) /\ Ref(r2, r, k, x))
          /\ r2[x].queued <=> \/ \E k \in DOMAIN q : Ref(r2, q, k, x)
                              \/ \E k \in DOMAIN r : Ref(r2, r, k, x)
  BY DEF ReadyOnce, r
<1>4. /\ \A j, k \in DOMAIN q : Ref(rr, q, j, x) /\ Ref(rr, q, k, x) => j = k
      /\ \A j, k \in DOMAIN nd : Ref(rr, nd, j, x) /\ Ref(rr, nd, k, x) => j = k
      /\ \A j \in DOMAIN q : \A k \in DOMAIN nd :
            ~(Ref(rr, q, j, x) /\ Ref(rr, nd, k, x))
      /\ rr[x].queued <=> \/ \E k \in DOMAIN q : Ref(rr, q, k, x)
                          \/ \E k \in DOMAIN nd : Ref(rr, nd, k, x)
  BY <1>1 DEF ReadyOnce
<1>5. \A k \in DOMAIN q : Ref(r2, q, k, x) <=> Ref(rr, q, k, x)
  BY <1>1 DEF Ref
<1>6. \A k \in DOMAIN r : Ref(r2, r, k, x) <=> Ref(rr, nd, k+1, x)
  BY <1>1, <1>2 DEF Ref
<1>7. \A j, k \in DOMAIN r : j + 1 = k + 1 => j = k
  BY <1>2
<1>8. \A k \in DOMAIN r : k + 1 # 1
  BY <1>2
<1>9. (\E k \in DOMAIN r : Ref(r2, r, k, x)) <=>
         \E k \in DOMAIN nd : k # 1 /\ Ref(rr, nd, k, x)
  <2>1. ASSUME NEW k \in DOMAIN nd, k # 1, Ref(rr, nd, k, x)
        PROVE  \E j \in DOMAIN r : Ref(r2, r, j, x)
    <3>1. k - 1 \in DOMAIN r /\ (k - 1) + 1 = k
      BY <1>2, <1>3, <2>1
    <3> QED
      BY <1>6, <2>1, <3>1
  <2> QED
    BY <1>2, <1>6, <1>8, <2>1
<1>10. /\ \A j, k \in DOMAIN r : Ref(r2, r, j, x) /\ Ref(r2, r, k, x) => j = k
       /\ \A j \in DOMAIN q : \A k \in DOMAIN r :
                ~(Ref(r2, q, j, x) /\ Ref(r2, r, k, x))
  BY <1>2, <1>4, <1>5, <1>6, <1>7
<1>11. r2[x].queued <=> \/ \E k \in DOMAIN q : Ref(r2, q, k, x)
                        \/ \E k \in DOMAIN r : Ref(r2, r, k, x)
  BY <1>1, <1>3, <1>4, <1>5, <1>9
<1> QED
  BY <1>4, <1>5, <1>10, <1>11

\* A list without its first n links.
Rest(q, n) == [k \in 1..Len(q)-n |-> q[k+n]]

\* The rest of a list after n + 1 links is the tail of the rest after n.
LEMMA RestTail ==
    ASSUME NEW S, NEW q \in Seq(S), NEW n \in Nat, n < Len(q)
    PROVE  /\ Rest(q, n) \in Seq(S) /\ Rest(q, n) # <<>>
           /\ Rest(q, n)[1] = q[n+1] /\ q[n+1] \in S
           /\ Tail(Rest(q, n)) = Rest(q, n+1)
<1> DEFINE r == Rest(q, n)
<1>1. Len(q) \in Nat /\ Len(q) - n \in Nat \ {0}
  OBVIOUS
<1>2. r = [k \in 1..Len(q)-n |-> q[k+n]]
  BY DEF Rest
<1>3. \A k \in 1..Len(q)-n : q[k+n] \in S
  BY <1>1
<1>4. r \in Seq(S) /\ Len(r) = Len(q) - n
  BY <1>1, <1>2, <1>3
<1>5. r[1] = q[n+1] /\ q[n+1] \in S
  BY <1>1, <1>2, <1>3
<1>6. Tail(r) = [k \in 1..Len(r)-1 |-> r[k+1]]
  <2> HIDE DEF r
  <2>1. r \in Seq(S) /\ r # <<>>
    BY <1>1, <1>4
  <2>2. Tail(r) \in Seq(S) /\ Len(Tail(r)) = Len(r) - 1
        /\ \A k \in 1..Len(r)-1 : Tail(r)[k] = r[k+1]
    BY <2>1, HeadTailProperties
  <2> DEFINE y == Tail(r)
  <2>3. y \in Seq(S) /\ Len(y) = Len(r) - 1
        /\ \A k \in 1..Len(r)-1 : y[k] = r[k+1]
    BY <2>2
  <2> HIDE DEF y
  <2>4. y = [k \in 1..Len(y) |-> y[k]]
    BY <2>3
  <2>5. y = [k \in 1..Len(r)-1 |-> r[k+1]]
    BY <2>3, <2>4
  <2> QED
    BY <2>5 DEF y
<1>7. \A k \in 1..Len(q)-(n+1) : r[k+1] = q[k+(n+1)]
  BY <1>1, <1>2
<1>8. Len(r) - 1 = Len(q) - (n+1)
  BY <1>1, <1>4
<1>9. Tail(r) = [k \in 1..Len(q)-(n+1) |-> q[k+(n+1)]]
  BY <1>6, <1>7, <1>8
<1> QED
  BY <1>1, <1>4, <1>5, <1>9 DEF Rest

\* v is w after the first n links of the list nd were put back.
RequeueGood(w, v, A, nd, n) ==
    /\ v \in Worlds /\ v.rs = w.rs /\ v.panics = w.panics
    /\ ReadyOnce(v.rs, v.ready_queue, Rest(nd, n))
    /\ LinksOK(w.rs, A, v.ready_queue)

\* One iteration of the loop at the end of ruu_issue, which puts back a link.
LEMMA RequeueGoodStep ==
    ASSUME NEW w \in Worlds, NEW v, NEW A, NEW nd \in Seq(RLink),
           NEW n \in Nat, n < Len(nd), LinksOK(w.rs, A, nd),
           RequeueGood(w, v, A, nd, n)
    PROVE  RequeueGood(w, Requeue(v, nd[n+1]), A, nd, n+1)
<1> DEFINE l == nd[n+1]
           s == l.rs
           r == Rest(nd, n)
           u == Requeue(v, l)
           r1 == [v.rs EXCEPT ![s].queued = FALSE]
           v1 == [v EXCEPT !.rs[s].queued = FALSE]
           x == [rs |-> s, tag |-> r1[s].tag, seq |-> r1[s].seq]
<1>1. /\ r \in Seq(RLink) /\ r # <<>> /\ r[1] = l /\ l \in RLink
      /\ Tail(r) = Rest(nd, n+1)
  BY RestTail
<1>2. /\ v \in Worlds /\ v.rs = w.rs /\ v.rs \in [Stations -> RSType]
      /\ v.ready_queue \in Seq(RLink) /\ v.panics = w.panics
      /\ ReadyOnce(v.rs, v.ready_queue, r)
      /\ LinksOK(w.rs, A, v.ready_queue)
  BY DEF RequeueGood, Worlds
<1>3. s \in Stations /\ v.rs[s] \in RSType
  BY <1>1, <1>2 DEF RLink
<1>4. Rest(nd, n+1) \in Seq(RLink)
  BY <1>1
<1> HIDE DEF l, r
<1>5. CASE ~RSLINK_VALID(v.rs, l)
  <2>1. u = v
    BY <1>5 DEF Requeue
  <2>2. \A y \in Stations : ~Ref(v.rs, r, 1, y)
    BY <1>1, <1>5 DEF Ref, RSLINK_VALID
  <2>3. Dequeueing(v.rs, v.rs, v.ready_queue, r)
    BY <1>1, <1>2, <2>2 DEF Dequeueing
  <2>4. ReadyOnce(v.rs, v.ready_queue, Rest(nd, n+1))
    BY <1>1, <2>3, ReadyDequeued
  <2> QED
    BY <1>2, <2>1, <2>4 DEF RequeueGood, l
<1>6. CASE RSLINK_VALID(v.rs, l)
  <2>1. u = readyq_enqueue(v1, s)
    BY <1>6 DEF Requeue
  <2>2. [v.rs[s] EXCEPT !.queued = FALSE] \in RSType
    BY <1>3 DEF RSType
  <2>3. r1 \in [Stations -> RSType]
    BY <1>2, <2>2
  <2>4. /\ v1 \in Worlds /\ v1.rs = r1 /\ v1.ready_queue = v.ready_queue
        /\ v1.panics = v.panics
    <3>1. v1 = [v EXCEPT !.rs = r1]
      BY <1>2, <1>3 DEF Worlds
    <3> HIDE DEF v1, r1
    <3> QED
      BY <1>2, <2>3, <3>1 DEF Worlds
  <2>5. /\ r1[s] = [v.rs[s] EXCEPT !.queued = FALSE]
        /\ \A y \in Stations : y # s => r1[y] = v.rs[y]
    BY <1>2, <1>3
  <2>6. \A y \in Stations : r1[y].tag = v.rs[y].tag
    BY <1>3, <2>5 DEF RSType
  <2>7. ~r1[s].queued
    BY <1>3, <2>5 DEF RSType
  <2>8. \A y \in Stations : Ref(v.rs, r, 1, y) <=> y = s
    BY <1>1, <1>6 DEF Ref, RSLINK_VALID
  <2>9. v.rs[s].queued
    <3>1. 1 \in DOMAIN r
      BY <1>1
    <3> QED
      BY <1>2, <1>3, <2>8, <3>1 DEF ReadyOnce
  <2> HIDE DEF r1, v1, u
  <2>10. Dequeueing(v.rs, r1, v.ready_queue, r)
    BY <1>1, <1>2, <2>5, <2>6, <2>7, <2>8 DEF Dequeueing
  <2>11. ReadyOnce(r1, v.ready_queue, Rest(nd, n+1))
    BY <1>1, <2>10, ReadyDequeued
  <2>12. /\ u \in Worlds
         /\ u.rs = [r1 EXCEPT ![s].queued = TRUE]
         /\ Inserted(v.ready_queue, x, u.ready_queue)
         /\ u.panics = v.panics
    <3>1. /\ u \in Worlds
          /\ u.rs = [v1.rs EXCEPT ![s].queued = TRUE]
          /\ Inserted(v1.ready_queue, [rs |-> s, tag |-> v1.rs[s].tag,
                                       seq |-> v1.rs[s].seq], u.ready_queue)
          /\ u.panics = v1.panics \cup
               (IF v1.rs[s].queued THEN {"node is already queued"} ELSE {})
      BY <1>3, <2>1, <2>4, Enqueue
    <3> QED
      BY <2>4, <2>7, <3>1
  <2>13. u.rs = v.rs
    <3>1. [r1[s] EXCEPT !.queued = TRUE] = v.rs[s]
      BY <1>3, <2>5, <2>9 DEF RSType
    <3> QED
      BY <1>2, <1>3, <2>3, <2>5, <2>12, <3>1
  <2>14. x \in RLink /\ x.rs = s /\ x.tag = r1[s].tag
    BY <1>3, <2>3 DEF RLink, RSType
  <2>15. LinkOK(w.rs, A, x)
    <3>1. LinkOK(w.rs, A, l)
      BY DEF LinksOK, l
    <3>2. l.tag = x.tag
      BY <1>3, <1>6, <2>6, <2>14 DEF RSLINK_VALID
    <3> QED
      BY <2>14, <3>1, <3>2 DEF LinkOK
  <2> HIDE DEF x
  <2>16. Queueing(r1, u.rs, v.ready_queue, u.ready_queue, x, Rest(nd, n+1))
    <3>1. \A y \in Stations : /\ u.rs[y].tag = r1[y].tag
                              /\ u.rs[y].queued <=> r1[y].queued \/ y = s
      BY <2>5, <2>6, <2>9, <2>13
    <3> QED
      BY <1>2, <1>4, <2>3, <2>7, <2>11, <2>12, <2>14, <3>1 DEF Queueing
  <2>17. ReadyOnce(u.rs, u.ready_queue, Rest(nd, n+1))
    BY <2>16, ReadyEnqueued
  <2>18. LinksOK(w.rs, A, u.ready_queue)
    BY <1>2, <2>12, <2>15, InsertedLinks
  <2>19. RequeueGood(w, u, A, nd, n+1)
    BY <1>2, <2>12, <2>13, <2>17, <2>18 DEF RequeueGood
  <2> QED
    BY <2>19 DEF u, l
<1> QED
  BY <1>5, <1>6

\* The rest of ruu_issue(): every link goes back, no station changes.
LEMMA RequeueAllEffect ==
    ASSUME NEW w \in Worlds, NEW A, NEW nd \in Seq(RLink),
           LinksOK(w.rs, A, nd), LinksOK(w.rs, A, w.ready_queue),
           ReadyOnce(w.rs, w.ready_queue, nd)
    PROVE  LET v == RequeueAll(w, nd)
           IN  /\ v \in Worlds /\ v.rs = w.rs /\ v.panics = w.panics
               /\ ReadyOnce(w.rs, v.ready_queue, <<>>)
               /\ LinksOK(w.rs, A, v.ready_queue)
<1>1. PICK t : /\ t = [n \in 0..Len(nd) |->
                         IF n = 0 THEN w ELSE Requeue(t[n-1], nd[n])]
               /\ RequeueAll(w, nd) = t[Len(nd)]
  BY RequeueWalk
<1> DEFINE D == {n \in Nat : n <= Len(nd) => RequeueGood(w, t[n], A, nd, n)}
<1>2. Len(nd) \in Nat
  OBVIOUS
<1>3. t[0] = w /\ \A n \in Nat : n < Len(nd) => t[n+1] = Requeue(t[n], nd[n+1])
  <2>1. ASSUME NEW n \in Nat, n < Len(nd)
        PROVE  n + 1 \in 0..Len(nd) /\ n + 1 # 0 /\ (n + 1) - 1 = n
    BY <1>2, <2>1
  <2>2. \A n \in 0..Len(nd) : t[n] = IF n = 0 THEN w ELSE Requeue(t[n-1], nd[n])
    BY <1>1
  <2>3. 0 \in 0..Len(nd)
    BY <1>2
  <2>4. ASSUME NEW n \in Nat, n < Len(nd)
        PROVE  t[n+1] = Requeue(t[n], nd[n+1])
    BY <2>1, <2>2, <2>4
  <2> QED
    BY <2>2, <2>3, <2>4
<1>4. 0 \in D
  <2>1. Rest(nd, 0) = nd
    BY DEF Rest
  <2> QED
    BY <1>3, <2>1 DEF RequeueGood
<1>5. ASSUME NEW n \in Nat, n \in D PROVE n + 1 \in D
  <2> SUFFICES ASSUME n + 1 <= Len(nd)
               PROVE  RequeueGood(w, t[n+1], A, nd, n+1)
    OBVIOUS
  <2>1. n < Len(nd) /\ n <= Len(nd)
    BY <1>2
  <2>2. RequeueGood(w, t[n], A, nd, n)
    BY <1>5, <2>1
  <2> QED
    BY <1>3, <2>1, <2>2, RequeueGoodStep
<1>6. Len(nd) \in D
  <2> HIDE DEF D
  <2> QED
    BY <1>2, <1>4, <1>5, Induction
<1>7. Rest(nd, Len(nd)) = <<>>
  BY <1>2 DEF Rest
<1> QED
  BY <1>1, <1>2, <1>6, <1>7 DEF RequeueGood

-----------------------------------------------------------------------------
\* No store among the first m-1 entries of q keeps the m-th from its data:
\* all their addresses are known, and the last one to its address is ready.
LoadClear(rr, q, m) ==
    /\ \A j \in 1..m-1 : Store(rr[q[j]]) => STORE_ADDR_READY(rr[q[j]])
    /\ \A j \in 1..m-1 :
          /\ Store(rr[q[j]]) /\ rr[q[j]].addr = rr[q[m]].addr
          /\ \A k \in j+1..m-1 :
                ~(Store(rr[q[k]]) /\ rr[q[k]].addr = rr[q[m]].addr)
          => OPERANDS_READY(rr[q[j]])

\* u has the addresses whose last store among the first n entries of q is
\* not ready, and no store there has an unknown address.
Known(rr, q, n, u) ==
    /\ \A j \in 1..n : Store(rr[q[j]]) => STORE_ADDR_READY(rr[q[j]])
    /\ \A j \in 1..n :
          /\ Store(rr[q[j]]) /\ ~OPERANDS_READY(rr[q[j]])
          /\ \A k \in j+1..n :
                ~(Store(rr[q[k]]) /\ rr[q[k]].addr = rr[q[j]].addr)
          => \E i \in DOMAIN u : u[i] = rr[q[j]].addr

\* What the scan of the first n entries of q makes of the stations rr.
Refreshed(rr, r2, q, n) ==
    \A s \in Stations :
       /\ Alike(r2[s], rr[s]) /\ r2[s].idep_ready = rr[s].idep_ready
       /\ rr[s].queued => r2[s].queued
       /\ r2[s].queued /\ ~rr[s].queued =>
             \E m \in 1..n : /\ s = q[m] /\ ~Store(rr[s])
                             /\ ~rr[s].issued /\ ~rr[s].completed
                             /\ OPERANDS_READY(rr[s]) /\ LoadClear(rr, q, m)

\* a is the walk of lsq_refresh from w after the first n stations of the LSQ.
RefreshGood(w, a, A, nd, q, n) ==
    /\ a.w \in Worlds /\ a.stop \in BOOLEAN
    /\ a = [w |-> a.w, std_unknowns |-> a.std_unknowns, stop |-> a.stop]
    /\ a.std_unknowns \in Seq(Nat) /\ Len(a.std_unknowns) <= n
    /\ Len(q) <= MAX_STD_UNKNOWNS => a.w.panics = w.panics
    /\ Refreshed(w.rs, a.w.rs, q, n)
    /\ ReadyOnce(a.w.rs, a.w.ready_queue, nd)
    /\ LinksOK(w.rs, A, a.w.ready_queue)
    /\ a.stop \/ Known(w.rs, q, n, a.std_unknowns)

\* A load whose address is not among the unknown ones waits for no store.
LEMMA KnownClear ==
    ASSUME NEW rr, NEW q, NEW n \in Nat, NEW u, Known(rr, q, n, u),
           \A i \in DOMAIN u : u[i] # rr[q[n+1]].addr
    PROVE  LoadClear(rr, q, n+1)
<1>1. (n + 1) - 1 = n
  OBVIOUS
<1>2. \A j \in 1..n : Store(rr[q[j]]) => STORE_ADDR_READY(rr[q[j]])
  BY DEF Known
<1>3. ASSUME NEW j \in 1..n, Store(rr[q[j]]), rr[q[j]].addr = rr[q[n+1]].addr,
             \A k \in j+1..n :
                ~(Store(rr[q[k]]) /\ rr[q[k]].addr = rr[q[n+1]].addr)
      PROVE  OPERANDS_READY(rr[q[j]])
  BY <1>3 DEF Known
<1> QED
  BY <1>1, <1>2, <1>3 DEF LoadClear

\* Loads queued among the first n stations are queued among the first n + 1.
LEMMA RefreshedMore ==
    ASSUME NEW rr, NEW r2, NEW q, NEW n \in Nat, Refreshed(rr, r2, q, n)
    PROVE  Refreshed(rr, r2, q, n+1)
<1>1. 1..n \subseteq 1..n+1
  OBVIOUS
<1> QED
  BY <1>1 DEF Refreshed

\* One iteration of lsq_refresh keeps RefreshGood.
LEMMA RefreshGoodStep ==
    ASSUME NEW w \in Worlds, NEW a, NEW A, NEW nd \in Seq(RLink),
           NEW q \in Seq(Stations), NEW n \in Nat, n < Len(q),
           \A m \in DOMAIN q : q[m] \in A,
           RefreshGood(w, a, A, nd, q, n)
    PROVE  RefreshGood(w, Refresh1(a, q[n+1]), A, nd, q, n+1)
<1> DEFINE s == q[n+1]
           r == a.w.rs[s]
           u == a.std_unknowns
           b == Refresh1(a, s)
<1>1. s \in Stations /\ s \in A /\ n + 1 \in DOMAIN q /\ n + 1 \in Nat
  OBVIOUS
<1>2. /\ a.w \in Worlds /\ a.stop \in BOOLEAN
      /\ a = [w |-> a.w, std_unknowns |-> u, stop |-> a.stop]
      /\ u \in Seq(Nat) /\ Len(u) <= n /\ Len(u) \in Nat
      /\ Len(q) <= MAX_STD_UNKNOWNS => a.w.panics = w.panics
      /\ Refreshed(w.rs, a.w.rs, q, n)
      /\ ReadyOnce(a.w.rs, a.w.ready_queue, nd)
      /\ LinksOK(w.rs, A, a.w.ready_queue)
      /\ a.stop \/ Known(w.rs, q, n, u)
  BY DEF RefreshGood
<1>3. /\ w.rs \in [Stations -> RSType] /\ a.w.rs \in [Stations -> RSType]
      /\ a.w.ready_queue \in Seq(RLink) /\ r \in RSType /\ w.rs[s] \in RSType
  BY <1>1, <1>2 DEF Worlds
<1>4. /\ Alike(r, w.rs[s]) /\ r.idep_ready = w.rs[s].idep_ready
      /\ \A x \in Stations : a.w.rs[x].tag = w.rs[x].tag
  BY <1>1, <1>2 DEF Refreshed, Alike
<1>5. /\ Store(r) <=> Store(w.rs[s])
      /\ STORE_ADDR_READY(r) <=> STORE_ADDR_READY(w.rs[s])
      /\ OPERANDS_READY(r) <=> OPERANDS_READY(w.rs[s])
      /\ r.addr = w.rs[s].addr /\ r.addr \in Nat
  BY <1>3, <1>4 DEF Alike, Store, STORE_ADDR_READY, OPERANDS_READY, RSType
<1>6. Refreshed(w.rs, a.w.rs, q, n+1)
  BY <1>2, RefreshedMore
<1> DEFINE Rdy == OPERANDS_READY(w.rs[s])
<1>7. \A j \in 1..n+1 : j \in 1..n \/ (j = n+1 /\ q[j] = s)
  OBVIOUS
<1> HIDE DEF s
<1>8. ASSUME b = a, a.stop \/ Known(w.rs, q, n+1, u)
      PROVE  RefreshGood(w, b, A, nd, q, n+1)
  <2>1. Len(u) <= n + 1
    BY <1>2
  <2> QED
    BY <1>2, <1>6, <1>8, <2>1 DEF RefreshGood
<1>9. CASE a.stop
  BY <1>8, <1>9 DEF Refresh1, s
<1>10. CASE ~a.stop /\ Store(r) /\ ~STORE_ADDR_READY(r)
  <2>1. b = [a EXCEPT !.stop = TRUE]
    BY <1>10 DEF Refresh1
  <2>2. b.w = a.w /\ b.std_unknowns = u /\ b.stop = TRUE
        /\ b = [w |-> b.w, std_unknowns |-> b.std_unknowns, stop |-> b.stop]
    BY <1>2, <2>1
  <2> HIDE DEF b
  <2>3. Len(u) <= n + 1
    BY <1>2
  <2>4. RefreshGood(w, b, A, nd, q, n+1)
    BY <1>2, <1>6, <2>2, <2>3 DEF RefreshGood
  <2> QED
    BY <2>4 DEF b, s
<1>11. CASE ~a.stop /\ Store(r) /\ STORE_ADDR_READY(r) /\ ~OPERANDS_READY(r)
  <2> DEFINE p == Panic(a.w, Len(u) = MAX_STD_UNKNOWNS, "STD unknown array overflow")
             u2 == Append(u, r.addr)
  <2>1. b = [a EXCEPT !.w = p, !.std_unknowns = u2]
    BY <1>11 DEF Refresh1
  <2>2. /\ Len(q) <= MAX_STD_UNKNOWNS => Len(u) # MAX_STD_UNKNOWNS
        /\ (Len(u) = MAX_STD_UNKNOWNS) \in BOOLEAN
    <3>1. MAX_STD_UNKNOWNS \in Nat /\ Len(q) \in Nat
      BY RuuAssumption
    <3> QED
      BY <1>2, <3>1
  <2>3. "STD unknown array overflow" \in Messages
    BY DEF Messages
  <2>4. /\ p \in Worlds /\ p.rs = a.w.rs /\ p.ready_queue = a.w.ready_queue
        /\ Len(q) <= MAX_STD_UNKNOWNS => p.panics = a.w.panics
    <3>1. /\ p \in Worlds /\ p.rs = a.w.rs /\ p.ready_queue = a.w.ready_queue
          /\ p.panics = a.w.panics \cup
                (IF Len(u) = MAX_STD_UNKNOWNS
                 THEN {"STD unknown array overflow"} ELSE {})
      BY <1>2, <2>2, <2>3, PanicEffect
    <3> QED
      BY <2>2, <3>1
  <2> HIDE DEF p
  <2>5. /\ u2 \in Seq(Nat) /\ Len(u2) = Len(u) + 1 /\ u2[Len(u)+1] = r.addr
        /\ \A i \in 1..Len(u) : u2[i] = u[i]
    BY <1>2, <1>5
  <2>6. DOMAIN u2 = 1..Len(u)+1 /\ DOMAIN u = 1..Len(u)
    BY <1>2, <2>5
  <2>7. b.w = p /\ b.std_unknowns = u2 /\ b.stop = a.stop
        /\ b = [w |-> b.w, std_unknowns |-> b.std_unknowns, stop |-> b.stop]
    <3> HIDE DEF b, u2
    <3> QED
      BY <1>2, <2>1
  <2> HIDE DEF b, u2
  <2>8. Known(w.rs, q, n+1, u2)
    <3>1. Known(w.rs, q, n, u)
      BY <1>2, <1>11
    <3>2. \A j \in 1..n+1 : Store(w.rs[q[j]]) => STORE_ADDR_READY(w.rs[q[j]])
      BY <1>5, <1>7, <1>11, <3>1 DEF Known
    <3>3. ASSUME NEW j \in 1..n+1,
                 Store(w.rs[q[j]]) /\ ~OPERANDS_READY(w.rs[q[j]]),
                 \A k \in j+1..n+1 :
                   ~(Store(w.rs[q[k]]) /\ w.rs[q[k]].addr = w.rs[q[j]].addr)
          PROVE  \E i \in DOMAIN u2 : u2[i] = w.rs[q[j]].addr
      <4>1. CASE j = n + 1
        <5>1. Len(u) + 1 \in DOMAIN u2 /\ u2[Len(u)+1] = w.rs[q[j]].addr
          BY <1>2, <1>5, <1>7, <2>5, <2>6, <4>1 DEF s
        <5> QED
          BY <5>1
      <4>2. CASE j \in 1..n
        <5>1. \A k \in j+1..n : k \in j+1..n+1
          BY <4>2
        <5>2. \E i \in DOMAIN u : u[i] = w.rs[q[j]].addr
          BY <3>1, <3>3, <4>2, <5>1 DEF Known
        <5> QED
          BY <1>2, <2>5, <2>6, <5>2
      <4> QED
        BY <1>7, <4>1, <4>2
    <3> QED
      BY <3>2, <3>3 DEF Known
  <2>9. Len(u2) <= n + 1
    BY <1>2, <2>5
  <2>10. RefreshGood(w, b, A, nd, q, n+1)
    BY <1>2, <1>6, <2>4, <2>5, <2>7, <2>8, <2>9 DEF RefreshGood
  <2> QED
    BY <2>10 DEF b, s
<1>12. CASE ~a.stop /\ Store(r) /\ STORE_ADDR_READY(r) /\ OPERANDS_READY(r)
  <2> DEFINE u2 == [j \in DOMAIN u |-> IF u[j] = r.addr THEN 0 ELSE u[j]]
  <2>1. b = [a EXCEPT !.std_unknowns = u2]
    BY <1>12 DEF Refresh1
  <2>2. DOMAIN u2 = DOMAIN u /\ u2 \in Seq(Nat) /\ Len(u2) = Len(u)
    <3>1. DOMAIN u = 1..Len(u) /\ \A j \in 1..Len(u) : u2[j] \in Nat
      BY <1>2
    <3>2. u2 = [j \in 1..Len(u) |-> u2[j]]
      BY <3>1
    <3> HIDE DEF u2
    <3> QED
      BY <1>2, <3>1, <3>2
  <2>3. b.w = a.w /\ b.std_unknowns = u2 /\ b.stop = a.stop
        /\ b = [w |-> b.w, std_unknowns |-> b.std_unknowns, stop |-> b.stop]
    <3> HIDE DEF b, u2
    <3> QED
      BY <1>2, <2>1
  <2>4. \A i \in DOMAIN u : u[i] # r.addr => u2[i] = u[i]
    OBVIOUS
  <2> HIDE DEF b, u2
  <2>5. Known(w.rs, q, n+1, u2)
    <3>1. Known(w.rs, q, n, u)
      BY <1>2, <1>12
    <3>2. \A j \in 1..n+1 : Store(w.rs[q[j]]) => STORE_ADDR_READY(w.rs[q[j]])
      BY <1>5, <1>7, <1>12, <3>1 DEF Known
    <3>3. ASSUME NEW j \in 1..n+1,
                 Store(w.rs[q[j]]) /\ ~OPERANDS_READY(w.rs[q[j]]),
                 \A k \in j+1..n+1 :
                   ~(Store(w.rs[q[k]]) /\ w.rs[q[k]].addr = w.rs[q[j]].addr)
          PROVE  \E i \in DOMAIN u2 : u2[i] = w.rs[q[j]].addr
      <4>1. j \in 1..n
        BY <1>5, <1>7, <1>12, <3>3
      <4>2. \A k \in j+1..n : k \in j+1..n+1
        BY <4>1
      <4>3. PICK i \in DOMAIN u : u[i] = w.rs[q[j]].addr
        BY <3>1, <3>3, <4>1, <4>2 DEF Known
      <4>4. n+1 \in j+1..n+1
        BY <4>1
      <4>5. w.rs[q[j]].addr # r.addr
        BY <1>5, <1>12, <3>3, <4>4 DEF s
      <4> QED
        BY <2>2, <2>4, <4>3, <4>5
    <3> QED
      BY <3>2, <3>3 DEF Known
  <2>6. Len(u2) <= n + 1
    BY <1>2, <2>2
  <2>7. RefreshGood(w, b, A, nd, q, n+1)
    BY <1>2, <1>6, <2>2, <2>3, <2>5, <2>6 DEF RefreshGood
  <2> QED
    BY <2>7 DEF b, s
<1> DEFINE free == \A j \in DOMAIN u : u[j] # r.addr
           go == ~r.queued /\ ~r.issued /\ ~r.completed /\ OPERANDS_READY(r) /\ free
<1>13. ASSUME ~a.stop, ~Store(r) PROVE Known(w.rs, q, n+1, u)
  <2>1. Known(w.rs, q, n, u)
    BY <1>2, <1>13
  <2>2. ~Store(w.rs[q[n+1]])
    BY <1>5, <1>13 DEF s
  <2>3. \A j \in 1..n+1 : Store(w.rs[q[j]]) => STORE_ADDR_READY(w.rs[q[j]])
    BY <1>7, <2>1, <2>2 DEF Known
  <2>4. ASSUME NEW j \in 1..n+1,
               Store(w.rs[q[j]]) /\ ~OPERANDS_READY(w.rs[q[j]]),
               \A k \in j+1..n+1 :
                 ~(Store(w.rs[q[k]]) /\ w.rs[q[k]].addr = w.rs[q[j]].addr)
        PROVE  \E i \in DOMAIN u : u[i] = w.rs[q[j]].addr
    <3>1. j \in 1..n
      BY <1>7, <2>2, <2>4
    <3>2. \A k \in j+1..n : k \in j+1..n+1
      BY <3>1
    <3> QED
      BY <2>1, <2>4, <3>1, <3>2 DEF Known
  <2> QED
    BY <2>3, <2>4 DEF Known
<1>14. CASE ~a.stop /\ ~Store(r) /\ ~go
  <2>1. b = a
    BY <1>14 DEF Refresh1
  <2> QED
    BY <1>8, <1>13, <1>14, <2>1 DEF s
<1>15. CASE ~a.stop /\ ~Store(r) /\ go
  <2> DEFINE v == readyq_enqueue(a.w, s)
             x == [rs |-> s, tag |-> r.tag, seq |-> r.seq]
  <2>1. b = [a EXCEPT !.w = v]
    BY <1>15 DEF Refresh1
  <2>2. /\ v \in Worlds /\ v.rs = [a.w.rs EXCEPT ![s].queued = TRUE]
        /\ Inserted(a.w.ready_queue, x, v.ready_queue)
        /\ v.panics = a.w.panics
    <3>1. /\ v \in Worlds /\ v.rs = [a.w.rs EXCEPT ![s].queued = TRUE]
          /\ Inserted(a.w.ready_queue, x, v.ready_queue)
          /\ v.panics = a.w.panics \cup
                (IF r.queued THEN {"node is already queued"} ELSE {})
      BY <1>1, <1>2, Enqueue
    <3> QED
      BY <1>15, <3>1
  <2> HIDE DEF v
  <2>3. b.w = v /\ b.std_unknowns = u /\ b.stop = a.stop
        /\ b = [w |-> b.w, std_unknowns |-> b.std_unknowns, stop |-> b.stop]
    <3> HIDE DEF b
    <3> QED
      BY <1>2, <2>1
  <2> HIDE DEF b
  <2>4. /\ v.rs[s] = [r EXCEPT !.queued = TRUE]
        /\ \A y \in Stations : y # s => v.rs[y] = a.w.rs[y]
    BY <1>1, <1>3, <2>2
  <2>5. /\ Alike(v.rs[s], r) /\ v.rs[s].idep_ready = r.idep_ready
        /\ v.rs[s].queued
    BY <1>3, <2>4 DEF RSType, Alike
  <2>6. LoadClear(w.rs, q, n+1)
    <3>1. \A i \in DOMAIN u : u[i] # w.rs[q[n+1]].addr
      BY <1>5, <1>15 DEF s
    <3> QED
      BY <1>2, <1>15, <3>1, KnownClear
  <2>7. Refreshed(w.rs, v.rs, q, n+1)
    <3> SUFFICES ASSUME NEW y \in Stations
        PROVE  /\ Alike(v.rs[y], w.rs[y]) /\ v.rs[y].idep_ready = w.rs[y].idep_ready
               /\ w.rs[y].queued => v.rs[y].queued
               /\ v.rs[y].queued /\ ~w.rs[y].queued =>
                    \E m \in 1..n+1 : /\ y = q[m] /\ ~Store(w.rs[y])
                             /\ ~w.rs[y].issued /\ ~w.rs[y].completed
                             /\ OPERANDS_READY(w.rs[y]) /\ LoadClear(w.rs, q, m)
      BY DEF Refreshed
    <3>1. CASE y # s
      BY <1>6, <2>4, <3>1 DEF Refreshed
    <3>2. CASE y = s
      <4>1. n + 1 \in 1..n+1 /\ y = q[n+1]
        BY <3>2 DEF s
      <4>2. ~w.rs[s].issued /\ ~w.rs[s].completed
        BY <1>4, <1>15 DEF Alike
      <4>3. Alike(v.rs[y], w.rs[y]) /\ v.rs[y].idep_ready = w.rs[y].idep_ready
        BY <1>4, <2>5, <3>2 DEF Alike
      <4> QED
        BY <1>5, <1>15, <2>5, <2>6, <3>2, <4>1, <4>2, <4>3
    <3> QED
      BY <3>1, <3>2
  <2>8. x \in RLink /\ x.rs = s /\ x.tag = r.tag
    BY <1>1, <1>3 DEF RLink, RSType
  <2>9. LinkOK(w.rs, A, x)
    BY <1>1, <1>4, <2>8 DEF LinkOK
  <2> HIDE DEF x
  <2>10. Queueing(a.w.rs, v.rs, a.w.ready_queue, v.ready_queue, x, nd)
    <3>1. \A y \in Stations : /\ v.rs[y].tag = a.w.rs[y].tag
                              /\ v.rs[y].queued <=> a.w.rs[y].queued \/ y = s
      BY <2>4, <2>5 DEF Alike
    <3> QED
      BY <1>2, <1>3, <1>15, <2>2, <2>8, <3>1 DEF Queueing
  <2>11. ReadyOnce(v.rs, v.ready_queue, nd)
    BY <2>10, ReadyEnqueued
  <2>12. LinksOK(w.rs, A, v.ready_queue)
    BY <1>2, <1>3, <2>2, <2>9, InsertedLinks
  <2>13. Len(u) <= n + 1
    BY <1>2
  <2>14. RefreshGood(w, b, A, nd, q, n+1)
    BY <1>2, <1>13, <1>15, <2>2, <2>3, <2>7, <2>11, <2>12, <2>13 DEF RefreshGood
  <2> QED
    BY <2>14 DEF b, s
<1> QED
  BY <1>9, <1>10, <1>11, <1>12, <1>14, <1>15

\* lsq_refresh(): only loads that no older store can hold up are queued.
LEMMA RefreshAllEffect ==
    ASSUME NEW w \in Worlds, NEW A, NEW nd \in Seq(RLink),
           NEW q \in Seq(Stations), \A m \in DOMAIN q : q[m] \in A,
           LinksOK(w.rs, A, w.ready_queue), ReadyOnce(w.rs, w.ready_queue, nd)
    PROVE  RefreshGood(w, RefreshAll(w, q), A, nd, q, Len(q))
<1>1. PICK t : /\ t = [n \in 0..Len(q) |->
                         IF n = 0 THEN First(w) ELSE Refresh1(t[n-1], q[n])]
               /\ RefreshAll(w, q) = t[Len(q)]
  BY RefreshScan
<1> DEFINE D == {n \in Nat : n <= Len(q) => RefreshGood(w, t[n], A, nd, q, n)}
<1>2. Len(q) \in Nat
  OBVIOUS
<1>3. t[0] = First(w) /\ \A n \in Nat : n < Len(q) => t[n+1] = Refresh1(t[n], q[n+1])
  <2>1. ASSUME NEW n \in Nat, n < Len(q)
        PROVE  n + 1 \in 0..Len(q) /\ n + 1 # 0 /\ (n + 1) - 1 = n
    BY <1>2, <2>1
  <2>2. \A n \in 0..Len(q) : t[n] = IF n = 0 THEN First(w) ELSE Refresh1(t[n-1], q[n])
    BY <1>1
  <2>3. 0 \in 0..Len(q)
    BY <1>2
  <2>4. ASSUME NEW n \in Nat, n < Len(q)
        PROVE  t[n+1] = Refresh1(t[n], q[n+1])
    BY <2>1, <2>2, <2>4
  <2> QED
    BY <2>2, <2>3, <2>4
<1>4. 0 \in D
  <2>1. RefreshGood(w, First(w), A, nd, q, 0)
    <3>1. Refreshed(w.rs, w.rs, q, 0) /\ Known(w.rs, q, 0, <<>>)
      BY DEF Refreshed, Alike, Known
    <3> QED
      BY <3>1 DEF First, RefreshGood
  <2> QED
    BY <1>3, <2>1
<1>5. ASSUME NEW n \in Nat, n \in D PROVE n + 1 \in D
  <2> SUFFICES ASSUME n + 1 <= Len(q)
               PROVE  RefreshGood(w, t[n+1], A, nd, q, n+1)
    OBVIOUS
  <2>1. n < Len(q) /\ n <= Len(q)
    BY <1>2
  <2>2. RefreshGood(w, t[n], A, nd, q, n)
    BY <1>5, <2>1
  <2> QED
    BY <1>3, <2>1, <2>2, RefreshGoodStep
<1>6. Len(q) \in D
  <2> HIDE DEF D
  <2> QED
    BY <1>2, <1>4, <1>5, Induction
<1> QED
  BY <1>1, <1>2, <1>6

=============================================================================
