-------------------------- MODULE RuuChainProofs --------------------------
(***************************************************************************)
(* What links instructions: output chains, create vectors, ready queue and *)
(* event queue.  Core joins what has to hold of them together:             *)
(*                                                                         *)
(*  Structure  an operand that is not ready has one valid link in the      *)
(*             chain of one producer in flight, and a completed producer   *)
(*             has none; the create vectors name the youngest producer on  *)
(*             the path; a station that is not in use keeps nothing but    *)
(*             its tag                                                     *)
(*  Queues     a queued station has one link, an executing one has one     *)
(*             event, and both have all operands                           *)
(*                                                                         *)
(* Each operation of the pipeline on these is shown to keep Core: linking  *)
(* an operand, installing an output, the broadcast at completion, freeing  *)
(* a station at retirement or in a squash, queueing, and taking an event.  *)
(***************************************************************************)
EXTENDS RuuOpsProofs

\* The j-th link of output o of station p is a valid one to operand k of s.
ChainAt(rr, p, o, j, s, k) ==
    /\ j \in DOMAIN rr[p].odep_list[o]
    /\ rr[p].odep_list[o][j] = [rs |-> s, tag |-> rr[s].tag, opnum |-> k]

\* An output without a register has no consumers.
ChainsClean(rr, A) ==
    \A p \in Stations, o \in 1..2 :
       /\ LinksOK(rr, A, rr[p].odep_list[o])
       /\ rr[p].onames[o] = NA => rr[p].odep_list[o] = <<>>

\* The operands that wait are those with a link, but for those of "open",
\* which dispatch has still to link.
ChainsExact(rr, A, open) ==
    \A s \in A, k \in 1..3 :
       (\E p \in Stations, o \in 1..2, j \in Nat : ChainAt(rr, p, o, j, s, k))
          <=> ~rr[s].idep_ready[k] /\ <<s, k>> \notin open

ChainsOnce(rr, A) ==
    \A s \in A, k \in 1..3 :
       \A p, p2 \in Stations, o, o2 \in 1..2, j, j2 \in Nat :
          ChainAt(rr, p, o, j, s, k) /\ ChainAt(rr, p2, o2, j2, s, k)
             => p = p2 /\ o = o2 /\ j = j2

ChainsOlder(rr, A) ==
    \A s \in A, k \in 1..3, p \in Stations, o \in 1..2, j \in Nat :
       ChainAt(rr, p, o, j, s, k) => rr[p].seq < rr[s].seq

ChainsOK(rr, A, open) ==
    /\ ChainsClean(rr, A) /\ ChainsExact(rr, A, open)
    /\ ChainsOnce(rr, A) /\ ChainsOlder(rr, A)

\* An instruction that is complete has no consumers left.
ChainsDone(rr) ==
    \A p \in Stations, o \in 1..2 : rr[p].completed => rr[p].odep_list[o] = <<>>

\* The instructions of A, speculative or not, that write a register.
Writes(rr, A, reg, sp) ==
    {s \in A : rr[s].spec_mode = sp /\ \E k \in 1..2 : rr[s].onames[k] = reg}

\* c names the youngest of them, or nothing if that one is complete; the
\* outputs of "due" are complete and still named.
Names(rr, A, reg, c, sp, due) ==
    /\ c # CVLINK_NULL =>
         /\ c.rs \in Writes(rr, A, reg, sp) /\ c.odep_num \in 1..2
         /\ rr[c.rs].completed => <<c.rs, c.odep_num>> \in due
         /\ rr[c.rs].onames[c.odep_num] = reg
         /\ \A t \in Writes(rr, A, reg, sp) : rr[t].seq <= rr[c.rs].seq
    /\ c = CVLINK_NULL =>
         \A t \in Writes(rr, A, reg, sp) : ~rr[t].completed =>
            \E u \in Writes(rr, A, reg, sp) :
               rr[u].completed /\ rr[t].seq < rr[u].seq

RenamesOK(w, A, due) ==
    /\ \A reg \in Regs : Names(w.rs, A, reg, w.create_vector[reg], FALSE, due)
    /\ \A reg \in w.use_spec_cv :
          Names(w.rs, A, reg, w.spec_create_vector[reg], TRUE, due)
    /\ \A reg \in Regs :
          reg \in w.use_spec_cv <=> Writes(w.rs, A, reg, TRUE) # {}

\* The same but for operands and consumers.
Kept(a, b) ==
    /\ a.kind = b.kind /\ a.fu = b.fu /\ a.longlat = b.longlat
    /\ a.addr = b.addr /\ a.ea_comp = b.ea_comp /\ a.tag = b.tag
    /\ a.recover_inst = b.recover_inst /\ a.spec_mode = b.spec_mode
    /\ a.seq = b.seq /\ a.issued = b.issued /\ a.completed = b.completed
    /\ a.onames = b.onames /\ a.queued = b.queued

\* Stations that are the same in these and in the others are the same.
LEMMA SameStation ==
    ASSUME NEW r \in RSType, NEW y \in RSType, Kept(r, y),
           r.idep_ready = y.idep_ready, r.odep_list = y.odep_list
    PROVE  r = y
<1>1. r = [kind |-> r.kind, fu |-> r.fu, longlat |-> r.longlat, addr |-> r.addr,
          ea_comp |-> r.ea_comp, recover_inst |-> r.recover_inst, spec_mode |-> r.spec_mode,
          tag |-> r.tag, seq |-> r.seq,
          queued |-> r.queued, issued |-> r.issued, completed |-> r.completed,
          onames |-> r.onames, odep_list |-> r.odep_list, idep_ready |-> r.idep_ready]
  BY DEF RSType
<1>2. y = [kind |-> y.kind, fu |-> y.fu, longlat |-> y.longlat, addr |-> y.addr,
          ea_comp |-> y.ea_comp, recover_inst |-> y.recover_inst, spec_mode |-> y.spec_mode,
          tag |-> y.tag, seq |-> y.seq,
          queued |-> y.queued, issued |-> y.issued, completed |-> y.completed,
          onames |-> y.onames, odep_list |-> y.odep_list, idep_ready |-> y.idep_ready]
  BY DEF RSType
<1> QED
  BY <1>1, <1>2, Zenon DEF Kept

\* The create vectors stay right as long as nothing they depend on changes.
LEMMA RenamesFrame ==
    ASSUME NEW w, NEW v, NEW A \in SUBSET Stations, NEW due, RenamesOK(w, A, due),
           v.create_vector = w.create_vector,
           v.spec_create_vector = w.spec_create_vector,
           v.use_spec_cv = w.use_spec_cv,
           \A x \in A : /\ v.rs[x].onames = w.rs[x].onames
                        /\ v.rs[x].spec_mode = w.rs[x].spec_mode
                        /\ v.rs[x].completed = w.rs[x].completed
                        /\ v.rs[x].seq = w.rs[x].seq
    PROVE  RenamesOK(v, A, due)
<1>1. \A reg, sp : Writes(v.rs, A, reg, sp) = Writes(w.rs, A, reg, sp)
  BY DEF Writes
<1>2. \A reg, sp : Writes(w.rs, A, reg, sp) \subseteq A
  BY DEF Writes
<1>3. \A reg, c, sp : Names(w.rs, A, reg, c, sp, due) => Names(v.rs, A, reg, c, sp, due)
  BY <1>1, <1>2 DEF Names
<1> QED
  BY <1>1, <1>3 DEF RenamesOK

\* c is where operand k of station s comes from, never s itself.
Linkable(w, s, k, name, c) ==
    /\ w \in Worlds /\ s \in Stations /\ k \in 1..3 /\ name \in Regs \cup {NA}
    /\ c = CREATE_VECTOR(w, name)
    /\ name # NA /\ c # CVLINK_NULL =>
          c.rs \in Stations /\ c.odep_num \in 1..2 /\ c.rs # s

\* The operand is on the chain of c if "link", and ready otherwise.
Linked(w, v, s, k, link, c) ==
    /\ v \in Worlds
    /\ v.ready_queue = w.ready_queue /\ v.panics = w.panics
    /\ v.create_vector = w.create_vector
    /\ v.spec_create_vector = w.spec_create_vector
    /\ v.use_spec_cv = w.use_spec_cv
    /\ \A x \in Stations : Kept(v.rs[x], w.rs[x])
    /\ \A x \in Stations : x # s => v.rs[x].idep_ready = w.rs[x].idep_ready
    /\ \A j \in 1..3 : v.rs[s].idep_ready[j] <=>
          IF j = k THEN ~link ELSE w.rs[s].idep_ready[j]
    /\ \A x \in Stations, o \in 1..2 :
          v.rs[x].odep_list[o] =
             IF link /\ x = c.rs /\ o = c.odep_num
             THEN <<[rs |-> s, tag |-> w.rs[s].tag, opnum |-> k]>>
                    \o w.rs[x].odep_list[o]
             ELSE w.rs[x].odep_list[o]

\* A consumer is linked to the producer the create vector names.
LEMMA LinkEffect ==
    ASSUME NEW w, NEW s, NEW k, NEW name, NEW c, Linkable(w, s, k, name, c)
    PROVE  Linked(w, ruu_link_idep(w, s, k, name), s, k,
                  name # NA /\ c # CVLINK_NULL, c)
<1>0. /\ w \in Worlds /\ s \in Stations /\ k \in 1..3 /\ name \in Regs \cup {NA}
      /\ c = CREATE_VECTOR(w, name)
      /\ name # NA /\ c # CVLINK_NULL =>
            c.rs \in Stations /\ c.odep_num \in 1..2 /\ c.rs # s
  BY DEF Linkable
<1> USE <1>0
<1> DEFINE v == ruu_link_idep(w, s, k, name)
           link == name # NA /\ c # CVLINK_NULL
           l == [rs |-> s, tag |-> w.rs[s].tag, opnum |-> k]
           r1 == [w.rs EXCEPT ![s].idep_ready[k] = ~link]
           q == <<l>> \o w.rs[c.rs].odep_list[c.odep_num]
           r2 == IF link THEN [r1 EXCEPT ![c.rs].odep_list[c.odep_num] = q] ELSE r1
<1>1. w.rs \in [Stations -> RSType] /\ w.rs[s] \in RSType /\ link \in BOOLEAN
  BY DEF Worlds
<1>2. w.rs[s].idep_ready \in [1..3 -> BOOLEAN] /\ w.rs[s].tag \in Nat /\ l \in OLink
  BY <1>1 DEF RSType, OLink
<1>3. link => w.rs[c.rs] \in RSType /\ w.rs[c.rs].odep_list \in [1..2 -> Seq(OLink)]
              /\ q \in Seq(OLink)
  <2> SUFFICES ASSUME link PROVE w.rs[c.rs] \in RSType
              /\ w.rs[c.rs].odep_list \in [1..2 -> Seq(OLink)] /\ q \in Seq(OLink)
    OBVIOUS
  <2>1. w.rs[c.rs] \in RSType
    BY <1>1
  <2>2. w.rs[c.rs].odep_list \in [1..2 -> Seq(OLink)]
    BY <2>1 DEF RSType
  <2>3. w.rs[c.rs].odep_list[c.odep_num] \in Seq(OLink)
    BY <2>2
  <2> HIDE DEF l
  <2> QED
    BY <1>2, <2>1, <2>2, <2>3
<1> HIDE DEF l
<1>4. /\ [w.rs[s].idep_ready EXCEPT ![k] = ~link] \in [1..3 -> BOOLEAN]
      /\ \A j \in 1..3 : [w.rs[s].idep_ready EXCEPT ![k] = ~link][j] <=>
                     IF j = k THEN ~link ELSE w.rs[s].idep_ready[j]
  BY <1>1, <1>2
<1>5. /\ r1 \in [Stations -> RSType]
      /\ r1[s] = [w.rs[s] EXCEPT !.idep_ready = [w.rs[s].idep_ready EXCEPT ![k] = ~link]]
      /\ \A x \in Stations : x # s => r1[x] = w.rs[x]
  <2>1. [w.rs[s] EXCEPT !.idep_ready = [w.rs[s].idep_ready EXCEPT ![k] = ~link]] \in RSType
    <3> HIDE DEF link
    <3> QED
      BY <1>1, <1>4 DEF RSType
  <2> HIDE DEF link
  <2> QED
    BY <1>1, <2>1
<1> HIDE DEF r1, link, q
<1>6. /\ r1[s].idep_ready = [w.rs[s].idep_ready EXCEPT ![k] = ~link]
      /\ Kept(r1[s], w.rs[s]) /\ r1[s].odep_list = w.rs[s].odep_list
  BY <1>1, <1>5 DEF RSType, Kept
<1>7. link => c.rs # s /\ c.rs \in Stations /\ c.odep_num \in 1..2
  BY DEF link
<1>8. /\ r2 \in [Stations -> RSType]
      /\ link => r2[c.rs] = [w.rs[c.rs] EXCEPT !.odep_list = [w.rs[c.rs].odep_list EXCEPT ![c.odep_num] = q]]
      /\ \A x \in Stations : ~(link /\ x = c.rs) => r2[x] = r1[x]
  <2>1. CASE ~link
    BY <1>5, <2>1
  <2>2. CASE link
    <3>1. r1[c.rs] = w.rs[c.rs]
      BY <1>5, <1>7, <2>2
    <3>2. [w.rs[c.rs].odep_list EXCEPT ![c.odep_num] = q] \in [1..2 -> Seq(OLink)]
      BY <1>3, <1>7, <2>2
    <3>3. [w.rs[c.rs] EXCEPT !.odep_list = [w.rs[c.rs].odep_list EXCEPT ![c.odep_num] = q]] \in RSType
      BY <1>3, <2>2, <3>2 DEF RSType
    <3> QED
      BY <1>5, <1>7, <2>2, <3>1, <3>3
  <2> QED
    BY <2>1, <2>2
<1>9. link => /\ r2[c.rs].odep_list = [w.rs[c.rs].odep_list EXCEPT ![c.odep_num] = q]
              /\ Kept(r2[c.rs], w.rs[c.rs])
              /\ r2[c.rs].idep_ready = w.rs[c.rs].idep_ready
  <2> DEFINE d == [w.rs[c.rs].odep_list EXCEPT ![c.odep_num] = q]
             y == w.rs[c.rs]
  <2> SUFFICES ASSUME link
               PROVE  /\ r2[c.rs].odep_list = d /\ Kept(r2[c.rs], y)
                      /\ r2[c.rs].idep_ready = y.idep_ready
    OBVIOUS
  <2>1. r2[c.rs] = [y EXCEPT !.odep_list = d] /\ y \in RSType
    BY <1>3, <1>8
  <2> HIDE DEF d, y, r2
  <2> QED
    BY <2>1 DEF RSType, Kept
<1>10. v = [w EXCEPT !.rs = r2]
  <2>1. CASE ~link
    <3>1. [w EXCEPT !.rs[s].idep_ready[k] = TRUE] = [w EXCEPT !.rs = r1]
      BY <1>1, <1>2, <2>1 DEF Worlds, r1
    <3>2. v = [w EXCEPT !.rs[s].idep_ready[k] = TRUE]
      BY <2>1 DEF ruu_link_idep, link
    <3> QED
      BY <2>1, <3>1, <3>2
  <2>2. CASE link
    <3>1. v = [w EXCEPT !.rs[s].idep_ready[k] = FALSE,
                        !.rs[c.rs].odep_list[c.odep_num] = q]
      BY <1>7, <2>2 DEF ruu_link_idep, link, l, q
    <3>2. r1 = [w.rs EXCEPT ![s].idep_ready[k] = FALSE]
      BY <2>2 DEF r1
    <3>4. r2 = [r1 EXCEPT ![c.rs].odep_list[c.odep_num] = q]
      BY <2>2
    <3>5. v = [[w EXCEPT !.rs = r1] EXCEPT !.rs[c.rs].odep_list[c.odep_num] = q]
      BY <3>1, <3>2 DEF Worlds
    <3>6. [w EXCEPT !.rs = r1].rs = r1
      BY DEF Worlds
    <3> HIDE DEF r2, v
    <3> QED
      BY <3>4, <3>5, <3>6 DEF Worlds
  <2> QED
    BY <2>1, <2>2
<1> HIDE DEF r2, v
<1>11. /\ v \in Worlds /\ v.rs = r2
       /\ v.ready_queue = w.ready_queue /\ v.panics = w.panics
       /\ v.create_vector = w.create_vector
       /\ v.spec_create_vector = w.spec_create_vector
       /\ v.use_spec_cv = w.use_spec_cv
  BY <1>8, <1>10 DEF Worlds
<1>12. \A x \in Stations : Kept(v.rs[x], w.rs[x])
  <2>1. \A x \in Stations : Kept(r1[x], w.rs[x])
    BY <1>5, <1>6 DEF Kept
  <2> QED
    BY <1>8, <1>9, <1>11, <2>1
<1>13. \A x \in Stations : x # s => v.rs[x].idep_ready = w.rs[x].idep_ready
  BY <1>5, <1>8, <1>9, <1>11
<1>14. \A j \in 1..3 : v.rs[s].idep_ready[j] <=>
          IF j = k THEN ~link ELSE w.rs[s].idep_ready[j]
  BY <1>4, <1>6, <1>7, <1>8, <1>11
<1>15. ASSUME NEW x \in Stations, NEW o \in 1..2
       PROVE  v.rs[x].odep_list[o] =
                 IF link /\ x = c.rs /\ o = c.odep_num
                 THEN <<l>> \o w.rs[x].odep_list[o]
                 ELSE w.rs[x].odep_list[o]
  <2>1. CASE link /\ x = c.rs
    <3>1. v.rs[x].odep_list = [w.rs[c.rs].odep_list EXCEPT ![c.odep_num] = q]
      BY <1>9, <1>11, <2>1
    <3>2. [w.rs[c.rs].odep_list EXCEPT ![c.odep_num] = q][o] =
             IF o = c.odep_num THEN q ELSE w.rs[c.rs].odep_list[o]
      BY <1>3, <2>1
    <3> QED
      BY <2>1, <3>1, <3>2 DEF q
  <2>2. CASE ~(link /\ x = c.rs)
    BY <1>5, <1>6, <1>8, <1>11, <2>2
  <2> QED
    BY <2>1, <2>2
<1>16. QED
  BY <1>11, <1>12, <1>13, <1>14, <1>15 DEF v, link, l, Linked

-----------------------------------------------------------------------------
\* The chains of v are those of w with one link put in front of one of them.
ChainsCons(rr, r2, p, o, l) ==
    /\ \A x \in Stations : r2[x].tag = rr[x].tag /\ r2[x].seq = rr[x].seq
    /\ \A x \in Stations, i \in 1..2 :
          r2[x].odep_list[i] = IF x = p /\ i = o THEN <<l>> \o rr[x].odep_list[i]
                                                 ELSE rr[x].odep_list[i]

\* The links after that are the new one and, one place further, the old ones.
LEMMA ConsAt ==
    ASSUME NEW rr \in [Stations -> RSType], NEW r2, NEW p \in Stations,
           NEW o \in 1..2, NEW l \in OLink, ChainsCons(rr, r2, p, o, l),
           NEW x \in Stations, NEW i \in 1..2, NEW j \in Nat,
           NEW s \in Stations, NEW k \in 1..3
    PROVE  ChainAt(r2, x, i, j, s, k) <=>
             IF x = p /\ i = o
             THEN \/ j = 1 /\ l = [rs |-> s, tag |-> rr[s].tag, opnum |-> k]
                  \/ j > 1 /\ ChainAt(rr, x, i, j-1, s, k)
             ELSE ChainAt(rr, x, i, j, s, k)
<1>1. r2[s].tag = rr[s].tag
  BY DEF ChainsCons
<1>2. CASE ~(x = p /\ i = o)
  <2>1. r2[x].odep_list[i] = rr[x].odep_list[i]
    BY <1>2 DEF ChainsCons
  <2> QED
    BY <1>1, <1>2, <2>1 DEF ChainAt
<1>3. CASE x = p /\ i = o
  <2> DEFINE q == rr[x].odep_list[i]
  <2>1. q \in Seq(OLink)
    BY DEF RSType
  <2>2. r2[x].odep_list[i] = <<l>> \o q
    BY <1>3 DEF ChainsCons
  <2> HIDE DEF q
  <2>3. Len(q) \in Nat /\ DOMAIN q = 1..Len(q)
    BY <2>1
  <2>4. Len(<<l>> \o q) = Len(q) + 1 /\ DOMAIN (<<l>> \o q) = 1..Len(q)+1
    BY <2>1, <2>3
  <2>5. (<<l>> \o q)[1] = l /\ \A m \in 2..Len(q)+1 : (<<l>> \o q)[m] = q[m-1]
    BY <2>1, <2>3
  <2>6. CASE j = 0
    <3>1. j \notin DOMAIN (<<l>> \o q)
      BY <2>4, <2>6
    <3> QED
      BY <1>3, <2>2, <2>6, <3>1 DEF ChainAt
  <2>7. CASE j = 1
    <3>1. j \in DOMAIN (<<l>> \o q)
      BY <2>3, <2>4, <2>7
    <3> QED
      BY <1>1, <1>3, <2>2, <2>5, <2>7, <3>1 DEF ChainAt
  <2>8. CASE j > 1
    <3>1. j \in DOMAIN (<<l>> \o q) <=> j - 1 \in DOMAIN q
      BY <2>3, <2>4, <2>8
    <3>2. j \in DOMAIN (<<l>> \o q) => (<<l>> \o q)[j] = q[j-1]
      BY <2>3, <2>4, <2>5, <2>8
    <3> HIDE DEF ChainsCons
    <3>3. ChainAt(r2, x, i, j, s, k) <=>
            j \in DOMAIN (<<l>> \o q) /\ (<<l>> \o q)[j] = [rs |-> s, tag |-> rr[s].tag, opnum |-> k]
      BY <1>1, <2>2 DEF ChainAt
    <3>4. ChainAt(rr, x, i, j-1, s, k) <=>
            j-1 \in DOMAIN q /\ q[j-1] = [rs |-> s, tag |-> rr[s].tag, opnum |-> k]
      BY DEF ChainAt, q
    <3> QED
      BY <1>3, <2>8, <3>1, <3>2, <3>3, <3>4
  <2> QED
    BY <2>6, <2>7, <2>8
<1> QED
  BY <1>2, <1>3

\* Operand k of the youngest station s, not linked yet.
Unlinked(rr, A, open, s, k) ==
    /\ rr \in [Stations -> RSType] /\ A \subseteq Stations /\ s \in A
    /\ k \in 1..3 /\ <<s, k>> \in open
    /\ ChainsOK(rr, A, open) /\ ChainsDone(rr)
    /\ rr[s].onames = <<NA, NA>>
    /\ \A x \in A : x # s => rr[x].seq < rr[s].seq

\* It is put on the chain of output o of the station p, which is in flight.
OnChain(rr, r2, A, s, k, p, o) ==
    /\ p \in A /\ o \in 1..2 /\ rr[p].onames[o] # NA /\ ~rr[p].completed
    /\ ChainsCons(rr, r2, p, o, [rs |-> s, tag |-> rr[s].tag, opnum |-> k])
    /\ \A x \in Stations : Kept(r2[x], rr[x])
    /\ \A x \in Stations, i \in 1..3 :
          r2[x].idep_ready[i] <=> rr[x].idep_ready[i] /\ ~(x = s /\ i = k)

\* Then the chains are right, with one operand less to link.
LEMMA LinkChains ==
    ASSUME NEW rr, NEW r2, NEW A, NEW open, NEW s, NEW k, NEW p, NEW o,
           Unlinked(rr, A, open, s, k), OnChain(rr, r2, A, s, k, p, o)
    PROVE  ChainsOK(r2, A, open \ {<<s, k>>}) /\ ChainsDone(r2)
<1>0. /\ p \in A /\ o \in 1..2 /\ rr[p].onames[o] # NA /\ ~rr[p].completed
      /\ ChainsCons(rr, r2, p, o, [rs |-> s, tag |-> rr[s].tag, opnum |-> k])
      /\ \A x \in Stations : Kept(r2[x], rr[x])
      /\ \A x \in Stations, i \in 1..3 :
            r2[x].idep_ready[i] <=> rr[x].idep_ready[i] /\ ~(x = s /\ i = k)
  BY DEF OnChain
<1> USE <1>0
<1> DEFINE l == [rs |-> s, tag |-> rr[s].tag, opnum |-> k]
<1>1. /\ rr \in [Stations -> RSType] /\ A \subseteq Stations /\ s \in Stations
      /\ k \in 1..3 /\ p \in Stations
  BY DEF Unlinked
<1>2. rr[s] \in RSType /\ l \in OLink
  BY <1>1 DEF RSType, OLink
<1>3. \A x \in Stations : /\ r2[x].tag = rr[x].tag /\ r2[x].seq = rr[x].seq
                          /\ r2[x].onames = rr[x].onames
                          /\ r2[x].completed = rr[x].completed
  BY DEF Kept
<1>3a. p # s /\ rr[p].seq < rr[s].seq
  BY DEF Unlinked
<1> HIDE DEF l
<1>4. ASSUME NEW x \in Stations, NEW i \in 1..2, NEW j \in Nat,
             NEW t \in Stations, NEW m \in 1..3
      PROVE  ChainAt(r2, x, i, j, t, m) <=>
               IF x = p /\ i = o
               THEN \/ j = 1 /\ t = s /\ m = k
                    \/ j > 1 /\ ChainAt(rr, x, i, j-1, t, m)
               ELSE ChainAt(rr, x, i, j, t, m)
  <2>1. ChainsCons(rr, r2, p, o, l)
    BY DEF l
  <2>2. l = [rs |-> t, tag |-> rr[t].tag, opnum |-> m] <=> t = s /\ m = k
    BY DEF l
  <2>3. ChainAt(r2, x, i, j, t, m) <=>
             IF x = p /\ i = o
             THEN \/ j = 1 /\ l = [rs |-> t, tag |-> rr[t].tag, opnum |-> m]
                  \/ j > 1 /\ ChainAt(rr, x, i, j-1, t, m)
             ELSE ChainAt(rr, x, i, j, t, m)
    <3> HIDE DEF Unlinked
    <3> QED
      BY <1>1, <1>2, <2>1, ConsAt, ZenonT(30)
  <2> QED
    BY <2>2, <2>3
<1>5. ChainsClean(r2, A)
  <2> SUFFICES ASSUME NEW x \in Stations, NEW i \in 1..2
               PROVE  /\ LinksOK(r2, A, r2[x].odep_list[i])
                      /\ r2[x].onames[i] = NA => r2[x].odep_list[i] = <<>>
    BY DEF ChainsClean
  <2>1. /\ LinksOK(rr, A, rr[x].odep_list[i])
        /\ rr[x].onames[i] = NA => rr[x].odep_list[i] = <<>>
    BY DEF Unlinked, ChainsOK, ChainsClean
  <2>2. rr[x].odep_list[i] \in Seq(OLink)
    BY <1>1 DEF RSType
  <2>3. LinksOK(r2, A, rr[x].odep_list[i])
    <3> DEFINE q == rr[x].odep_list[i]
    <3>1. q \in Seq(OLink) /\ LinksOK(rr, A, q)
      BY <2>1, <2>2
    <3> HIDE DEF q
    <3>2. \A m \in DOMAIN q : q[m] \in OLink
      BY <3>1
    <3>3. \A m \in DOMAIN q : q[m].rs \in Stations
      BY <3>2 DEF OLink
    <3>4. LinksOK(r2, A, q)
      BY <1>3, <3>1, <3>3 DEF LinksOK, LinkOK
    <3> QED
      BY <3>4 DEF q
  <2>4. CASE ~(x = p /\ i = o)
    BY <1>3, <2>1, <2>3, <2>4 DEF ChainsCons
  <2>5. CASE x = p /\ i = o
    <3> DEFINE q == rr[x].odep_list[i]
    <3>1. r2[x].odep_list[i] = <<l>> \o q
      BY <2>5 DEF ChainsCons, l
    <3>2. LinkOK(r2, A, l)
      <4>1. l.rs = s /\ l.tag = rr[s].tag /\ s \in A
        BY DEF l, Unlinked
      <4> QED
        BY <1>1, <1>3, <4>1 DEF LinkOK
    <3>3. q \in Seq(OLink)
      BY <2>2
    <3> HIDE DEF q
    <3>4. Inserted(q, l, <<l>> \o q)
      BY <1>2, <3>3, ConsInserts
    <3>5. LinksOK(r2, A, <<l>> \o q)
      BY <2>3, <3>2, <3>3, <3>4, InsertedLinks DEF q
    <3> QED
      BY <1>3, <2>5, <3>1, <3>5
  <2> QED
    BY <2>4, <2>5
<1>6. ChainsExact(r2, A, open \ {<<s, k>>})
  <2> SUFFICES ASSUME NEW t \in A, NEW m \in 1..3
               PROVE  (\E x \in Stations, i \in 1..2, j \in Nat : ChainAt(r2, x, i, j, t, m))
                        <=> ~r2[t].idep_ready[m] /\ <<t, m>> \notin open \ {<<s, k>>}
    BY DEF ChainsExact
  <2>1. (\E x \in Stations, i \in 1..2, j \in Nat : ChainAt(rr, x, i, j, t, m))
                        <=> ~rr[t].idep_ready[m] /\ <<t, m>> \notin open
    BY DEF Unlinked, ChainsOK, ChainsExact
  <2>2. t \in Stations
    BY <1>1
  <2>3. CASE t = s /\ m = k
    <3>1. ChainAt(r2, p, o, 1, t, m)
      BY <1>1, <1>4, <2>3
    <3>2. ~r2[t].idep_ready[m] /\ <<t, m>> \notin open \ {<<s, k>>}
      BY <2>2, <2>3
    <3> QED
      BY <1>1, <3>1, <3>2
  <2>4. CASE ~(t = s /\ m = k)
    <3>1. (\E x \in Stations, i \in 1..2, j \in Nat : ChainAt(r2, x, i, j, t, m))
            => \E x \in Stations, i \in 1..2, j \in Nat : ChainAt(rr, x, i, j, t, m)
      <4> SUFFICES ASSUME NEW x \in Stations, NEW i \in 1..2, NEW j \in Nat, ChainAt(r2, x, i, j, t, m)
                   PROVE  \E j2 \in Nat : ChainAt(rr, x, i, j2, t, m)
        OBVIOUS
      <4>1. ChainAt(rr, x, i, j, t, m) \/ (j > 1 /\ ChainAt(rr, x, i, j-1, t, m))
        BY <1>4, <2>2, <2>4
      <4> QED
        BY <4>1
    <3>2. (\E x \in Stations, i \in 1..2, j \in Nat : ChainAt(rr, x, i, j, t, m))
            => \E x \in Stations, i \in 1..2, j \in Nat : ChainAt(r2, x, i, j, t, m)
      <4> SUFFICES ASSUME NEW x \in Stations, NEW i \in 1..2, NEW j \in Nat, ChainAt(rr, x, i, j, t, m)
                   PROVE  \E j2 \in Nat : ChainAt(r2, x, i, j2, t, m)
        OBVIOUS
      <4>0. rr[x] \in RSType
        BY <1>1
      <4>1. rr[x].odep_list[i] \in Seq(OLink)
        BY <4>0 DEF RSType
      <4>2. j >= 1
        BY <4>1 DEF ChainAt
      <4>3. ChainAt(r2, x, i, j, t, m) \/ ChainAt(r2, x, i, j+1, t, m)
        <5>1. CASE x = p /\ i = o
          <6>1. ChainAt(rr, x, i, (j+1)-1, t, m) /\ j + 1 > 1 /\ j + 1 \in Nat
            BY <4>2
          <6> QED
            BY <1>4, <2>2, <5>1, <6>1
        <5>2. CASE ~(x = p /\ i = o)
          BY <1>4, <2>2, <5>2
        <5> QED
          BY <5>1, <5>2
      <4> QED
        BY <4>3
    <3>3. <<t, m>> \in open \ {<<s, k>>} <=> <<t, m>> \in open
      BY <2>4
    <3>4. r2[t].idep_ready[m] <=> rr[t].idep_ready[m]
      BY <2>2, <2>4
    <3> QED
      BY <2>1, <3>1, <3>2, <3>3, <3>4
  <2> QED
    BY <2>3, <2>4
<1>7. \A x \in Stations, i \in 1..2, j \in Nat : ~ChainAt(rr, x, i, j, s, k)
  BY DEF Unlinked, ChainsOK, ChainsExact
<1>8. ChainsOnce(r2, A)
  <2> SUFFICES ASSUME NEW t \in A, NEW m \in 1..3, NEW x \in Stations, NEW x2 \in Stations,
                      NEW i \in 1..2, NEW i2 \in 1..2, NEW j \in Nat, NEW j2 \in Nat,
                      ChainAt(r2, x, i, j, t, m), ChainAt(r2, x2, i2, j2, t, m)
               PROVE  x = x2 /\ i = i2 /\ j = j2
    BY DEF ChainsOnce
  <2>1. t \in Stations
    BY <1>1
  <2>2. \A y, y2 \in Stations, h, h2 \in 1..2, n, n2 \in Nat :
          ChainAt(rr, y, h, n, t, m) /\ ChainAt(rr, y2, h2, n2, t, m)
             => y = y2 /\ h = h2 /\ n = n2
    BY DEF Unlinked, ChainsOK, ChainsOnce
  <2>3. CASE t = s /\ m = k
    BY <1>4, <1>7, <2>1, <2>3
  <2>4. CASE ~(t = s /\ m = k)
    <3>1. IF x = p /\ i = o THEN j > 1 /\ j - 1 \in Nat /\ ChainAt(rr, x, i, j-1, t, m)
                            ELSE ChainAt(rr, x, i, j, t, m)
      BY <1>4, <2>1, <2>4
    <3>2. IF x2 = p /\ i2 = o THEN j2 > 1 /\ j2 - 1 \in Nat /\ ChainAt(rr, x2, i2, j2-1, t, m)
                            ELSE ChainAt(rr, x2, i2, j2, t, m)
      BY <1>4, <2>1, <2>4
    <3> QED
      BY <2>2, <3>1, <3>2
  <2> QED
    BY <2>3, <2>4
<1>9. ChainsOlder(r2, A)
  <2> SUFFICES ASSUME NEW t \in A, NEW m \in 1..3, NEW x \in Stations, NEW i \in 1..2,
                      NEW j \in Nat, ChainAt(r2, x, i, j, t, m)
               PROVE  r2[x].seq < r2[t].seq
    BY DEF ChainsOlder
  <2>1. t \in Stations
    BY <1>1
  <2>2. \A n \in Nat : ChainAt(rr, x, i, n, t, m) => rr[x].seq < rr[t].seq
    BY DEF Unlinked, ChainsOK, ChainsOlder
  <2>3. \/ x = p /\ t = s
        \/ j - 1 \in Nat /\ ChainAt(rr, x, i, j-1, t, m)
        \/ ChainAt(rr, x, i, j, t, m)
    BY <1>4, <2>1
  <2> QED
    BY <1>3, <1>3a, <2>1, <2>2, <2>3
<1>10. ChainsDone(r2)
  <2> SUFFICES ASSUME NEW x \in Stations, NEW i \in 1..2, r2[x].completed
               PROVE  r2[x].odep_list[i] = <<>>
    BY DEF ChainsDone
  <2>1. rr[x].completed /\ x # p
    BY <1>3
  <2> QED
    BY <2>1 DEF Unlinked, ChainsDone, ChainsCons
<1> QED
  BY <1>5, <1>6, <1>8, <1>9, <1>10 DEF ChainsOK
-----------------------------------------------------------------------------
\* r2 has the same chains, and the same operands wait for a link.
ChainsLike(rr, r2, A, open, open2) ==
    /\ \A x \in Stations :
          /\ r2[x].tag = rr[x].tag /\ r2[x].seq = rr[x].seq
          /\ \A o \in 1..2 : /\ r2[x].odep_list[o] = rr[x].odep_list[o]
                             /\ r2[x].onames[o] = NA => rr[x].onames[o] = NA
    /\ \A s \in A, k \in 1..3 :
          ~r2[s].idep_ready[k] /\ <<s, k>> \notin open2
             <=> ~rr[s].idep_ready[k] /\ <<s, k>> \notin open

\* Then the chains are still right.
LEMMA ChainsFrame ==
    ASSUME NEW rr, rr \in [Stations -> RSType], NEW r2, NEW A, A \subseteq Stations,
           NEW open, NEW open2, ChainsOK(rr, A, open),
           ChainsLike(rr, r2, A, open, open2)
    PROVE  ChainsOK(r2, A, open2)
<1>1. \A x \in Stations, o \in 1..2, j \in Nat, s \in Stations, k \in 1..3 :
         ChainAt(r2, x, o, j, s, k) <=> ChainAt(rr, x, o, j, s, k)
  BY DEF ChainsLike, ChainAt
<1>2. ChainsClean(r2, A)
  <2> SUFFICES ASSUME NEW x \in Stations, NEW o \in 1..2
               PROVE  /\ LinksOK(r2, A, r2[x].odep_list[o])
                      /\ r2[x].onames[o] = NA => r2[x].odep_list[o] = <<>>
    BY DEF ChainsClean
  <2> DEFINE q == rr[x].odep_list[o]
  <2>1. /\ LinksOK(rr, A, q)
        /\ rr[x].onames[o] = NA => q = <<>>
        /\ r2[x].odep_list[o] = q /\ rr[x] \in RSType
        /\ r2[x].onames[o] = NA => rr[x].onames[o] = NA
    BY DEF ChainsOK, ChainsClean, ChainsLike
  <2>2. q \in Seq(OLink)
    BY <2>1 DEF RSType
  <2> HIDE DEF q
  <2>3. \A m \in DOMAIN q : q[m] \in OLink
    BY <2>2
  <2>4. \A m \in DOMAIN q : q[m].rs \in Stations
    BY <2>3 DEF OLink
  <2>5. LinksOK(r2, A, q)
    BY <2>1, <2>4 DEF LinksOK, LinkOK, ChainsLike
  <2> QED
    BY <2>1, <2>5
<1>3. ChainsExact(r2, A, open2)
  <2> SUFFICES ASSUME NEW s \in A, NEW k \in 1..3
      PROVE  (\E p \in Stations, o \in 1..2, j \in Nat : ChainAt(r2, p, o, j, s, k))
                <=> ~r2[s].idep_ready[k] /\ <<s, k>> \notin open2
    BY DEF ChainsExact
  <2>1. (\E p \in Stations, o \in 1..2, j \in Nat : ChainAt(rr, p, o, j, s, k))
                <=> ~rr[s].idep_ready[k] /\ <<s, k>> \notin open
    BY DEF ChainsOK, ChainsExact
  <2>2. s \in Stations
    OBVIOUS
  <2> QED
    BY <1>1, <2>1, <2>2 DEF ChainsLike
<1>4. ChainsOnce(r2, A)
  BY <1>1 DEF ChainsOK, ChainsOnce
<1>5. ChainsOlder(r2, A)
  <2> SUFFICES ASSUME NEW s \in A, NEW k \in 1..3, NEW p \in Stations, NEW o \in 1..2,
                      NEW j \in Nat, ChainAt(r2, p, o, j, s, k)
               PROVE  r2[p].seq < r2[s].seq
    BY DEF ChainsOlder
  <2>1. ChainAt(rr, p, o, j, s, k) /\ s \in Stations
    BY <1>1
  <2>2. rr[p].seq < rr[s].seq
    BY <2>1 DEF ChainsOK, ChainsOlder
  <2> QED
    BY <2>1, <2>2 DEF ChainsLike
<1> QED
  BY <1>2, <1>3, <1>4, <1>5 DEF ChainsOK

\* Output k of the youngest station s gets a register.
Installing(w, A, s, k) ==
    /\ w \in Worlds /\ A \subseteq Stations /\ s \in A /\ k \in 1..2
    /\ spec_mode \in BOOLEAN /\ w.rs[s].spec_mode = spec_mode
    /\ ~w.rs[s].completed /\ w.rs[s].onames[k] = NA
    /\ \A x \in A : x # s => w.rs[x].seq < w.rs[s].seq
    /\ RenamesOK(w, A, {}) /\ ChainsOK(w.rs, A, {}) /\ ChainsDone(w.rs)

\* ruu_install_odep(): from now on the register is the one of station s.
LEMMA InstallEffect ==
    ASSUME NEW w, NEW A, NEW s, NEW k, NEW name \in Regs \cup {NA},
           Installing(w, A, s, k)
    PROVE  LET v == ruu_install_odep(w, s, k, name)
           IN  /\ v \in Worlds
               /\ v.ready_queue = w.ready_queue /\ v.panics = w.panics
               /\ \A x \in Stations : x # s => v.rs[x] = w.rs[x]
               /\ v.rs[s].onames = [w.rs[s].onames EXCEPT ![k] = name]
               /\ v.rs[s] = [w.rs[s] EXCEPT !.onames = v.rs[s].onames]
               /\ RenamesOK(v, A, {}) /\ ChainsOK(v.rs, A, {}) /\ ChainsDone(v.rs)
<1> DEFINE v == ruu_install_odep(w, s, k, name)
           c == [rs |-> s, odep_num |-> k]
           y == [w.rs[s] EXCEPT !.onames = [w.rs[s].onames EXCEPT ![k] = name]]
           r1 == [w.rs EXCEPT ![s] = y]
           sp == IF name # NA /\ spec_mode THEN w.use_spec_cv \cup {name} ELSE w.use_spec_cv
           cv == IF name # NA /\ ~spec_mode THEN [w.create_vector EXCEPT ![name] = c]
                                            ELSE w.create_vector
           sv == IF name # NA /\ spec_mode THEN [w.spec_create_vector EXCEPT ![name] = c]
                                            ELSE w.spec_create_vector
<1>1. /\ w \in Worlds /\ A \subseteq Stations /\ s \in A /\ s \in Stations /\ k \in 1..2
      /\ w.rs \in [Stations -> RSType] /\ w.rs[s] \in RSType
      /\ spec_mode \in BOOLEAN /\ w.rs[s].spec_mode = spec_mode
      /\ w.create_vector \in [Regs -> CVLink] /\ w.spec_create_vector \in [Regs -> CVLink]
      /\ w.use_spec_cv \subseteq Regs /\ NA \notin Regs
  BY DEF Installing, Worlds, Regs
<1>2. w.rs[s].odep_list \in [1..2 -> Seq(OLink)] /\ w.rs[s].onames \in [1..2 -> Regs \cup {NA}]
  BY <1>1 DEF RSType
<1>3. w.rs[s].odep_list[k] = <<>> /\ [w.rs[s].odep_list EXCEPT ![k] = <<>>] = w.rs[s].odep_list
  <2>1. w.rs[s].odep_list[k] = <<>>
    BY <1>1 DEF Installing, ChainsOK, ChainsClean
  <2> QED
    BY <1>1, <1>2, <2>1
<1>4. y \in RSType /\ y.onames = [w.rs[s].onames EXCEPT ![k] = name] /\ y.onames \in [1..2 -> Regs \cup {NA}]
  BY <1>1, <1>2 DEF RSType
<1>5. /\ r1 \in [Stations -> RSType] /\ r1[s] = y
      /\ \A x \in Stations : x # s => r1[x] = w.rs[x]
  <2> HIDE DEF y
  <2> QED
    BY <1>1, <1>4
<1>6. c \in CVLink /\ c # CVLINK_NULL /\ c.rs = s /\ c.odep_num = k
  BY <1>1 DEF CVLink, CVLINK_NULL
<1>7. v = [w EXCEPT !.rs = r1, !.use_spec_cv = sp, !.create_vector = cv,
                    !.spec_create_vector = sv]
  <2> DEFINE w1 == [w EXCEPT !.rs[s].onames[k] = name]
  <2>1. w1 = [w EXCEPT !.rs = r1]
    BY <1>1, <1>2 DEF Worlds
  <2>2. w1 \in Worlds /\ w1.rs = r1 /\ w1.use_spec_cv = w.use_spec_cv
        /\ w1.create_vector = w.create_vector /\ w1.spec_create_vector = w.spec_create_vector
    <3> HIDE DEF r1, w1
    <3> QED
      BY <1>1, <1>5, <2>1 DEF Worlds
  <2>3. [r1 EXCEPT ![s].odep_list[k] = <<>>] = r1
    <3>1. r1[s].odep_list = w.rs[s].odep_list
      <4> HIDE DEF r1
      <4> QED
        BY <1>1, <1>5
    <3>2. [r1[s] EXCEPT !.odep_list[k] = <<>>] = r1[s]
      <4>1. r1[s] \in RSType
        BY <1>1, <1>5
      <4>2. [r1[s].odep_list EXCEPT ![k] = <<>>] = r1[s].odep_list
        BY <1>3, <3>1
      <4> HIDE DEF r1
      <4> QED
        BY <4>1, <4>2 DEF RSType
    <3> HIDE DEF r1
    <3> QED
      BY <1>1, <1>5, <3>2
  <2>4. CASE name = NA
    <3>1. v = w1
      BY <2>4 DEF ruu_install_odep
    <3>2. w1 = [w EXCEPT !.rs = r1, !.use_spec_cv = w.use_spec_cv, !.create_vector = w.create_vector,
                    !.spec_create_vector = w.spec_create_vector]
      <4> HIDE DEF r1, w1
      <4> QED
        BY <1>1, <2>1 DEF Worlds
    <3> QED
      BY <2>4, <3>1, <3>2
  <2>5. CASE name # NA /\ spec_mode
    <3>1. v = [w1 EXCEPT !.rs[s].odep_list[k] = <<>>, !.use_spec_cv = @ \cup {name},
                        !.spec_create_vector[name] = c]
      BY <2>5 DEF ruu_install_odep
    <3>2. v = [w1 EXCEPT !.rs = [r1 EXCEPT ![s].odep_list[k] = <<>>], !.use_spec_cv = w.use_spec_cv \cup {name},
                        !.spec_create_vector = [w.spec_create_vector EXCEPT ![name] = c]]
      <4> HIDE DEF r1, w1, v, c
      <4> QED
        BY <1>1, <2>2, <3>1 DEF Worlds
    <3>3. sp = w.use_spec_cv \cup {name} /\ cv = w.create_vector
          /\ sv = [w.spec_create_vector EXCEPT ![name] = c]
      BY <2>5
    <3>4. v = [w1 EXCEPT !.rs = r1, !.use_spec_cv = sp, !.spec_create_vector = sv]
      BY <2>3, <3>2, <3>3
    <3> HIDE DEF r1, w1, v, c, sp, sv, cv
    <3> QED
      BY <1>1, <2>1, <3>3, <3>4 DEF Worlds
  <2>6. CASE name # NA /\ ~spec_mode
    <3>1. v = [w1 EXCEPT !.rs[s].odep_list[k] = <<>>, !.create_vector[name] = c]
      BY <2>6 DEF ruu_install_odep
    <3>2. v = [w1 EXCEPT !.rs = [r1 EXCEPT ![s].odep_list[k] = <<>>],
                        !.create_vector = [w.create_vector EXCEPT ![name] = c]]
      <4> HIDE DEF r1, w1, v, c
      <4> QED
        BY <1>1, <2>2, <3>1 DEF Worlds
    <3>3. sp = w.use_spec_cv /\ sv = w.spec_create_vector
          /\ cv = [w.create_vector EXCEPT ![name] = c]
      BY <2>6
    <3>4. v = [w1 EXCEPT !.rs = r1, !.create_vector = cv]
      BY <2>3, <3>2, <3>3
    <3> HIDE DEF r1, w1, v, c, sp, sv, cv
    <3> QED
      BY <1>1, <2>1, <3>3, <3>4 DEF Worlds
  <2> QED
    BY <1>1, <2>4, <2>5, <2>6
<1>8. /\ sp \subseteq Regs
      /\ cv \in [Regs -> CVLink] /\ sv \in [Regs -> CVLink]
      /\ \A reg \in Regs : cv[reg] = IF reg = name /\ ~spec_mode THEN c ELSE w.create_vector[reg]
      /\ \A reg \in Regs : sv[reg] = IF reg = name /\ spec_mode THEN c ELSE w.spec_create_vector[reg]
      /\ \A reg \in Regs : reg \in sp <=> reg \in w.use_spec_cv \/ (reg = name /\ spec_mode)
  <2> HIDE DEF c
  <2> QED
    BY <1>1, <1>6
<1> HIDE DEF v, sp, cv, sv, r1, c
<1>9. v \in Worlds /\ v.rs = r1 /\ v.use_spec_cv = sp /\ v.create_vector = cv
      /\ v.spec_create_vector = sv /\ v.ready_queue = w.ready_queue /\ v.panics = w.panics
  BY <1>1, <1>5, <1>7, <1>8 DEF Worlds
<1>10. /\ \A x \in Stations : x # s => v.rs[x] = w.rs[x]
       /\ v.rs[s].onames = [w.rs[s].onames EXCEPT ![k] = name]
       /\ v.rs[s] = [w.rs[s] EXCEPT !.onames = v.rs[s].onames]
  BY <1>4, <1>5, <1>9
<1>10a. \A o \in 1..2 : v.rs[s].onames[o] = IF o = k THEN name ELSE w.rs[s].onames[o]
  BY <1>1, <1>2, <1>10
<1>11. /\ v.rs[s].spec_mode = w.rs[s].spec_mode /\ v.rs[s].completed = w.rs[s].completed
       /\ v.rs[s].seq = w.rs[s].seq /\ v.rs[s].tag = w.rs[s].tag
       /\ v.rs[s].odep_list = w.rs[s].odep_list /\ v.rs[s].idep_ready = w.rs[s].idep_ready
  BY <1>1, <1>10 DEF RSType
<1>12. w.rs[s].onames[k] = NA /\ ~w.rs[s].completed
  BY DEF Installing
<1>13. ChainsOK(v.rs, A, {})
  <2>1. ChainsLike(w.rs, v.rs, A, {}, {})
    BY <1>1, <1>10, <1>10a, <1>11, <1>12 DEF ChainsLike
  <2>2. ChainsOK(w.rs, A, {})
    BY DEF Installing
  <2> QED
    BY <1>1, <2>1, <2>2, ChainsFrame
<1>14. ChainsDone(v.rs)
  BY <1>1, <1>10, <1>11 DEF Installing, ChainsDone
<1>15. \A reg \in Regs, b \in BOOLEAN :
          Writes(v.rs, A, reg, b) = IF reg = name /\ b = spec_mode
                                    THEN Writes(w.rs, A, reg, b) \cup {s}
                                    ELSE Writes(w.rs, A, reg, b)
  <2> SUFFICES ASSUME NEW reg \in Regs, NEW b \in BOOLEAN, NEW x \in A
               PROVE  x \in Writes(v.rs, A, reg, b) <=>
                        \/ x \in Writes(w.rs, A, reg, b)
                        \/ reg = name /\ b = spec_mode /\ x = s
    BY <1>1 DEF Writes
  <2>1. CASE x # s
    BY <1>1, <1>10, <2>1 DEF Writes
  <2>2. CASE x = s
    <3>1. (\E o \in 1..2 : v.rs[s].onames[o] = reg) <=>
             (\E o \in 1..2 : w.rs[s].onames[o] = reg) \/ reg = name
      BY <1>1, <1>10a, <1>12
    <3> QED
      BY <1>1, <1>11, <2>2, <3>1 DEF Writes
  <2> QED
    BY <2>1, <2>2
<1>16. \A x \in Stations : v.rs[x].completed = w.rs[x].completed /\ v.rs[x].seq = w.rs[x].seq
                           /\ v.rs[x].spec_mode = w.rs[x].spec_mode /\ w.rs[x].seq \in Nat
  BY <1>1, <1>10, <1>11 DEF RSType
<1>17. ASSUME NEW reg \in Regs, NEW b \in BOOLEAN, NEW d, Names(w.rs, A, reg, d, b, {}),
              ~(reg = name /\ b = spec_mode)
       PROVE  Names(v.rs, A, reg, d, b, {})
  <2>1. Writes(v.rs, A, reg, b) = Writes(w.rs, A, reg, b)
    BY <1>15, <1>17
  <2>2. Writes(w.rs, A, reg, b) \subseteq Stations
    BY <1>1 DEF Writes
  <2>3. d # CVLINK_NULL => /\ d.rs \in Stations /\ d.odep_num \in 1..2
                           /\ w.rs[d.rs].onames[d.odep_num] = reg
    BY <1>17, <2>2 DEF Names
  <2>4. d # CVLINK_NULL => v.rs[d.rs].onames[d.odep_num] = reg
    <3>1. CASE d.rs # s
      BY <1>10, <2>3, <3>1
    <3>2. CASE d.rs = s
      BY <1>1, <1>10a, <1>12, <2>3, <3>2
    <3> QED
      BY <3>1, <3>2
  <2> QED
    BY <1>16, <1>17, <2>1, <2>2, <2>4 DEF Names
<1>18. ASSUME name # NA
       PROVE  Names(v.rs, A, name, c, spec_mode, {})
  <2>1. Writes(v.rs, A, name, spec_mode) = Writes(w.rs, A, name, spec_mode) \cup {s}
    BY <1>1, <1>15, <1>18
  <2>2. \A t \in A : w.rs[t].seq <= w.rs[s].seq
    BY <1>1, <1>16 DEF Installing
  <2>3. \A t \in Writes(v.rs, A, name, spec_mode) : v.rs[t].seq <= v.rs[s].seq
    BY <1>1, <1>16, <2>2 DEF Writes
  <2>4. v.rs[s].onames[k] = name
    BY <1>1, <1>10a
  <2> QED
    BY <1>1, <1>6, <1>12, <1>16, <2>1, <2>3, <2>4 DEF Names
<1>19. RenamesOK(v, A, {})
  <2>0. RenamesOK(w, A, {})
    BY DEF Installing
  <2>1. ASSUME NEW reg \in Regs
        PROVE  Names(v.rs, A, reg, v.create_vector[reg], FALSE, {})
    <3>1. CASE reg = name /\ ~spec_mode
      BY <1>1, <1>8, <1>9, <1>18, <3>1
    <3>2. CASE ~(reg = name /\ ~spec_mode)
      <4>1. v.create_vector[reg] = w.create_vector[reg]
        BY <1>8, <1>9, <3>2
      <4>2. Names(w.rs, A, reg, w.create_vector[reg], FALSE, {})
        BY <2>0 DEF RenamesOK
      <4> QED
        BY <1>1, <1>17, <3>2, <4>1, <4>2
    <3> QED
      BY <3>1, <3>2
  <2>2. ASSUME NEW reg \in v.use_spec_cv
        PROVE  Names(v.rs, A, reg, v.spec_create_vector[reg], TRUE, {})
    <3>0. reg \in Regs
      BY <1>8, <1>9
    <3>1. CASE reg = name /\ spec_mode
      BY <1>1, <1>8, <1>9, <1>18, <3>0, <3>1
    <3>2. CASE ~(reg = name /\ spec_mode)
      <4>1. v.spec_create_vector[reg] = w.spec_create_vector[reg] /\ reg \in w.use_spec_cv
        BY <1>8, <1>9, <3>0, <3>2
      <4>2. Names(w.rs, A, reg, w.spec_create_vector[reg], TRUE, {})
        BY <2>0, <4>1 DEF RenamesOK
      <4> QED
        BY <1>1, <1>17, <3>0, <3>2, <4>1, <4>2
    <3> QED
      BY <3>1, <3>2
  <2>3. ASSUME NEW reg \in Regs
        PROVE  reg \in v.use_spec_cv <=> Writes(v.rs, A, reg, TRUE) # {}
    <3>1. reg \in w.use_spec_cv <=> Writes(w.rs, A, reg, TRUE) # {}
      BY <2>0 DEF RenamesOK
    <3> QED
      BY <1>1, <1>8, <1>9, <1>15, <3>1
  <2> QED
    BY <2>1, <2>2, <2>3 DEF RenamesOK
<1> QED
  BY <1>9, <1>10, <1>13, <1>14, <1>19 DEF v
-----------------------------------------------------------------------------
\* Only the tag of a free station means something.
Freed(r) == r = [Blank EXCEPT !.tag = r.tag]

\* The stations A are in use; their chains and the create vectors are right.
Structure(w, A) ==
    /\ w \in Worlds /\ A \subseteq Stations
    /\ \A s \in Stations \ A : Freed(w.rs[s])
    /\ \A s, t \in A : w.rs[s].seq = w.rs[t].seq => s = t
    /\ ChainsOK(w.rs, A, {}) /\ ChainsDone(w.rs) /\ RenamesOK(w, A, {})

\* A station just filled in for i.
New(r, i, seq, tag) ==
    /\ r.kind = i.kind /\ r.fu = i.fu /\ r.longlat = i.longlat
    /\ r.addr = i.addr /\ r.ea_comp = (i.kind = "agen")
    /\ r.recover_inst = FALSE /\ r.spec_mode = spec_mode
    /\ r.tag = tag /\ r.seq = seq
    /\ r.queued = FALSE /\ r.issued = FALSE /\ r.completed = FALSE

\* Dispatch fills station s in, which makes the world v of w; the operands
\* of "open" have still to be linked.
Putting(w, v, A, s, i, seq, open) ==
    /\ v \in Worlds /\ A \subseteq Stations /\ s \in A
    /\ v.ready_queue = w.ready_queue /\ v.panics = w.panics
    /\ \A x \in Stations : x # s => /\ Kept(v.rs[x], w.rs[x])
                                    /\ v.rs[x].idep_ready = w.rs[x].idep_ready
    /\ New(v.rs[s], i, seq, w.rs[s].tag)
    /\ \A x \in A : x # s => v.rs[x].seq < seq
    /\ ChainsOK(v.rs, A, open) /\ ChainsDone(v.rs) /\ RenamesOK(v, A, {})

\* What dispatch writes into a station.
Filling(i) == /\ i.kind \in Kinds /\ i.fu \in DOMAIN FuTable \cup {NA}
              /\ i.longlat \in BOOLEAN /\ i.addr \in Nat

\* Station s is free for an instruction younger than all in flight.
Fillable(w, A, s, i, seq) ==
    /\ s \in Stations \ A /\ Filling(i) /\ seq \in Nat /\ spec_mode \in BOOLEAN
    /\ Structure(w, A) /\ \A x \in A : w.rs[x].seq < seq

\* Its outputs have still no register.
Linking(w, v, A, s, i, seq, open) ==
    Putting(w, v, A, s, i, seq, open) /\ v.rs[s].onames = <<NA, NA>>

\* A free station has no consumers, and no valid link is to it.
LEMMA FillEffect ==
    ASSUME NEW w, NEW A, NEW s, NEW i, NEW seq, Fillable(w, A, s, i, seq)
    PROVE  Linking(w, Fill(w, s, i, seq), A \cup {s}, s, i, seq, {s} \X (1..3))
<1>0. /\ s \in Stations \ A /\ Filling(i) /\ seq \in Nat /\ spec_mode \in BOOLEAN
      /\ Structure(w, A) /\ \A x \in A : w.rs[x].seq < seq
  BY DEF Fillable
<1> USE <1>0
<1> DEFINE v == Fill(w, s, i, seq)
           y == [Blank EXCEPT
                   !.kind = i.kind, !.fu = i.fu, !.longlat = i.longlat, !.addr = i.addr,
                   !.ea_comp = i.kind = "agen", !.spec_mode = spec_mode, !.seq = seq,
                   !.tag = w.rs[s].tag, !.odep_list = w.rs[s].odep_list]
           B == A \cup {s}
           all == {s} \X (1..3)
<1>1. w \in Worlds /\ w.rs \in [Stations -> RSType] /\ w.rs[s] \in RSType
      /\ A \subseteq Stations /\ s \notin A /\ s \in Stations
  BY DEF Structure, Worlds
<1>2. Freed(w.rs[s])
  BY DEF Structure
<1>3. w.rs[s].odep_list = << <<>>, <<>> >>
  BY <1>2 DEF Freed, Blank
<1>4. y \in RSType /\ New(y, i, seq, w.rs[s].tag) /\ y.onames = <<NA, NA>>
      /\ y.odep_list = << <<>>, <<>> >> /\ y.idep_ready = <<FALSE, FALSE, FALSE>>
  <2>1. w.rs[s].tag \in Nat /\ w.rs[s].odep_list \in [1..2 -> Seq(OLink)]
    BY <1>1 DEF RSType
  <2>2. PICK b \in BOOLEAN : b = (i.kind = "agen")
    OBVIOUS
  <2>3. [Blank EXCEPT
           !.kind = i.kind, !.fu = i.fu, !.longlat = i.longlat, !.addr = i.addr,
           !.ea_comp = b, !.spec_mode = spec_mode, !.seq = seq,
           !.tag = w.rs[s].tag, !.odep_list = w.rs[s].odep_list] \in RSType
    BY <2>1, BlankType DEF RSType, Filling
  <2>4. y \in RSType
    BY <2>2, <2>3
  <2>5. New(y, i, seq, w.rs[s].tag) /\ y.onames = <<NA, NA>>
        /\ y.odep_list = w.rs[s].odep_list /\ y.idep_ready = <<FALSE, FALSE, FALSE>>
    BY DEF Blank, New
  <2> HIDE DEF y
  <2> QED
    BY <1>3, <2>4, <2>5
<1> HIDE DEF y
<1>5. v = [w EXCEPT !.rs = [w.rs EXCEPT ![s] = y]]
  BY <1>1 DEF Fill, y, Worlds
<1> HIDE DEF v
<1>6. /\ v \in Worlds /\ v.ready_queue = w.ready_queue /\ v.panics = w.panics
      /\ v.create_vector = w.create_vector /\ v.use_spec_cv = w.use_spec_cv
      /\ v.spec_create_vector = w.spec_create_vector
      /\ v.rs = [w.rs EXCEPT ![s] = y] /\ v.rs \in [Stations -> RSType]
  <2>1. [w.rs EXCEPT ![s] = y] \in [Stations -> RSType]
    BY <1>1, <1>4
  <2> QED
    BY <1>1, <1>5, <2>1 DEF Worlds
<1>7. v.rs[s] = y /\ \A x \in Stations : x # s => v.rs[x] = w.rs[x]
  BY <1>1, <1>6
<1>8. v.rs[s].tag = w.rs[s].tag /\ v.rs[s].odep_list[1] = <<>> /\ v.rs[s].odep_list[2] = <<>>
      /\ v.rs[s].onames[1] = NA /\ v.rs[s].onames[2] = NA
      /\ v.rs[s].completed = FALSE /\ v.rs[s].seq = seq
  BY <1>4, <1>7 DEF New
<1>9. \A x \in Stations, o \in 1..2 : /\ v.rs[x].tag = w.rs[x].tag
                                      /\ v.rs[x].odep_list[o] = w.rs[x].odep_list[o]
  BY <1>3, <1>7, <1>8
<1>10. \A x \in Stations, o \in 1..2, j \in Nat, t \in Stations, k \in 1..3 :
          ChainAt(v.rs, x, o, j, t, k) <=> ChainAt(w.rs, x, o, j, t, k)
  BY <1>9 DEF ChainAt
<1>11. \A x \in Stations, o \in 1..2, j \in Nat, k \in 1..3 :
          ~ChainAt(w.rs, x, o, j, s, k) /\ ~ChainAt(v.rs, s, o, j, x, k)
  <2> SUFFICES ASSUME NEW x \in Stations, NEW o \in 1..2, NEW j \in Nat, NEW k \in 1..3
               PROVE  ~ChainAt(w.rs, x, o, j, s, k) /\ ~ChainAt(v.rs, s, o, j, x, k)
    OBVIOUS
  <2>1. ~ChainAt(v.rs, s, o, j, x, k)
    <3>1. v.rs[s].odep_list[o] = <<>>
      BY <1>8
    <3>2. DOMAIN v.rs[s].odep_list[o] = {}
      BY <3>1
    <3> QED
      BY <3>2 DEF ChainAt
  <2>2. ~ChainAt(w.rs, x, o, j, s, k)
    <3> SUFFICES ASSUME ChainAt(w.rs, x, o, j, s, k) PROVE FALSE
      OBVIOUS
    <3> DEFINE l == [rs |-> s, tag |-> w.rs[s].tag, opnum |-> k]
    <3>1. LinkOK(w.rs, A, w.rs[x].odep_list[o][j])
      BY DEF ChainAt, Structure, ChainsOK, ChainsClean, LinksOK
    <3>2. LinkOK(w.rs, A, l)
      BY <3>1 DEF ChainAt
    <3>3. l.rs = s /\ l.tag = w.rs[s].tag /\ w.rs[s].tag \in Nat
      BY <1>1 DEF RSType
    <3> HIDE DEF l
    <3> QED
      BY <1>1, <3>2, <3>3 DEF LinkOK
  <2> QED
    BY <2>1, <2>2
<1>12. ChainsOK(w.rs, A, {}) /\ ChainsDone(w.rs) /\ RenamesOK(w, A, {})
  BY DEF Structure
<1>13. ChainsClean(v.rs, B)
  <2> SUFFICES ASSUME NEW x \in Stations, NEW o \in 1..2
               PROVE  /\ LinksOK(v.rs, B, v.rs[x].odep_list[o])
                      /\ v.rs[x].onames[o] = NA => v.rs[x].odep_list[o] = <<>>
    BY DEF ChainsClean
  <2> DEFINE q == w.rs[x].odep_list[o]
  <2>1. /\ LinksOK(w.rs, A, q)
        /\ w.rs[x].onames[o] = NA => q = <<>>
        /\ v.rs[x].odep_list[o] = q /\ w.rs[x] \in RSType
    BY <1>1, <1>9, <1>12 DEF ChainsOK, ChainsClean
  <2>2. q \in Seq(OLink)
    BY <2>1 DEF RSType
  <2> HIDE DEF q
  <2>3. \A m \in DOMAIN q : q[m] \in OLink
    BY <2>2
  <2>4. \A m \in DOMAIN q : q[m].rs \in Stations
    BY <2>3 DEF OLink
  <2>5. LinksOK(v.rs, B, q)
    BY <1>9, <2>1, <2>4 DEF LinksOK, LinkOK
  <2> QED
    BY <1>7, <1>8, <2>1, <2>5
<1>14. ChainsExact(v.rs, B, all)
  <2> SUFFICES ASSUME NEW t \in B, NEW k \in 1..3
      PROVE  (\E p \in Stations, o \in 1..2, j \in Nat : ChainAt(v.rs, p, o, j, t, k))
                <=> ~v.rs[t].idep_ready[k] /\ <<t, k>> \notin all
    BY DEF ChainsExact
  <2>1. CASE t = s
    BY <1>1, <1>10, <1>11, <2>1
  <2>2. CASE t # s
    <3>1. (\E p \in Stations, o \in 1..2, j \in Nat : ChainAt(w.rs, p, o, j, t, k))
                <=> ~w.rs[t].idep_ready[k] /\ <<t, k>> \notin {}
      BY <1>12, <2>2 DEF ChainsOK, ChainsExact
    <3>2. t \in Stations /\ <<t, k>> \notin all
      BY <1>1, <2>2
    <3> QED
      BY <1>7, <1>10, <2>2, <3>1, <3>2
  <2> QED
    BY <2>1, <2>2
<1>15. ChainsOnce(v.rs, B)
  <2> SUFFICES ASSUME NEW t \in B, NEW k \in 1..3, NEW p \in Stations, NEW p2 \in Stations,
                      NEW o \in 1..2, NEW o2 \in 1..2, NEW j \in Nat, NEW j2 \in Nat,
                      ChainAt(v.rs, p, o, j, t, k), ChainAt(v.rs, p2, o2, j2, t, k)
               PROVE  p = p2 /\ o = o2 /\ j = j2
    BY DEF ChainsOnce
  <2>1. ChainAt(w.rs, p, o, j, t, k) /\ ChainAt(w.rs, p2, o2, j2, t, k)
    BY <1>1, <1>10
  <2>2. t \in A
    BY <1>11, <2>1
  <2> QED
    BY <1>12, <2>1, <2>2 DEF ChainsOK, ChainsOnce
<1>16. ChainsOlder(v.rs, B)
  <2> SUFFICES ASSUME NEW t \in B, NEW k \in 1..3, NEW p \in Stations,
                      NEW o \in 1..2, NEW j \in Nat, ChainAt(v.rs, p, o, j, t, k)
               PROVE  v.rs[p].seq < v.rs[t].seq
    BY DEF ChainsOlder
  <2>1. ChainAt(w.rs, p, o, j, t, k)
    BY <1>1, <1>10
  <2>2. t \in A /\ t # s /\ p # s
    BY <1>1, <1>11, <2>1
  <2>3. w.rs[p].seq < w.rs[t].seq
    BY <1>12, <2>1, <2>2 DEF ChainsOK, ChainsOlder
  <2> QED
    BY <1>1, <1>7, <2>2, <2>3
<1>17. ChainsOK(v.rs, B, all) /\ ChainsDone(v.rs)
  BY <1>8, <1>9, <1>7, <1>12, <1>13, <1>14, <1>15, <1>16 DEF ChainsOK, ChainsDone
<1>18. RenamesOK(v, B, {})
  <2>1. \A reg \in Regs, b \in BOOLEAN : Writes(v.rs, B, reg, b) = Writes(v.rs, A, reg, b)
    <3>1. NA \notin Regs
      BY DEF Regs
    <3>2. \A reg \in Regs : ~\E k \in 1..2 : v.rs[s].onames[k] = reg
      BY <1>8, <3>1
    <3> QED
      BY <3>2 DEF Writes
  <2>2. RenamesOK(v, A, {})
    <3>1. \A x \in A : v.rs[x] = w.rs[x]
      BY <1>1, <1>7
    <3> QED
      BY <1>1, <1>6, <1>12, <3>1, RenamesFrame
  <2>3. v.use_spec_cv \subseteq Regs
    BY <1>6 DEF Worlds
  <2>4. \A reg \in Regs, b \in BOOLEAN : \A c :
          Names(v.rs, A, reg, c, b, {}) => Names(v.rs, B, reg, c, b, {})
    BY <2>1 DEF Names
  <2>5. \A reg \in Regs : Names(v.rs, B, reg, v.create_vector[reg], FALSE, {})
    BY <2>2, <2>4 DEF RenamesOK
  <2>6. \A reg \in v.use_spec_cv : Names(v.rs, B, reg, v.spec_create_vector[reg], TRUE, {})
    BY <2>2, <2>3, <2>4 DEF RenamesOK
  <2>7. \A reg \in Regs : reg \in v.use_spec_cv <=> Writes(v.rs, B, reg, TRUE) # {}
    BY <2>1, <2>2 DEF RenamesOK
  <2> QED
    BY <2>5, <2>6, <2>7 DEF RenamesOK
<1>19. Putting(w, v, B, s, i, seq, all)
  <2>1. \A x \in B : x # s => v.rs[x].seq < seq
    BY <1>1, <1>7
  <2>2. \A x \in Stations : x # s => /\ Kept(v.rs[x], w.rs[x])
                                     /\ v.rs[x].idep_ready = w.rs[x].idep_ready
    BY <1>7 DEF Kept
  <2>3. New(v.rs[s], i, seq, w.rs[s].tag)
    BY <1>4, <1>7
  <2> QED
    BY <1>1, <1>6, <1>17, <1>18, <2>1, <2>2, <2>3 DEF Putting
<1> QED
  BY <1>4, <1>7, <1>19 DEF v, Linking
\* Linking one operand of the new station.
LEMMA PutLink ==
    ASSUME NEW w, NEW v, NEW A, NEW s, NEW i, NEW seq, NEW open,
           Linking(w, v, A, s, i, seq, open),
           NEW k \in 1..3, <<s, k>> \in open, NEW name \in Regs \cup {NA}
    PROVE  Linking(w, ruu_link_idep(v, s, k, name), A, s, i, seq, open \ {<<s, k>>})
<1>0. Putting(w, v, A, s, i, seq, open) /\ v.rs[s].onames = <<NA, NA>>
  BY DEF Linking
<1> USE <1>0
<1> DEFINE c == CREATE_VECTOR(v, name)
           u == ruu_link_idep(v, s, k, name)
           link == name # NA /\ c # CVLINK_NULL
           l == [rs |-> s, tag |-> v.rs[s].tag, opnum |-> k]
<1>1. /\ v \in Worlds /\ A \subseteq Stations /\ s \in A /\ s \in Stations
      /\ v.rs \in [Stations -> RSType] /\ v.use_spec_cv \subseteq Regs
      /\ ChainsOK(v.rs, A, open) /\ ChainsDone(v.rs) /\ RenamesOK(v, A, {})
      /\ v.rs[s].seq = seq
  BY DEF Putting, Worlds, New
<1>2. link => \E sp : Names(v.rs, A, name, c, sp, {})
  <2> SUFFICES ASSUME link PROVE \E sp : Names(v.rs, A, name, c, sp, {})
    OBVIOUS
  <2>1. name \in Regs
    OBVIOUS
  <2>2. CASE name \in v.use_spec_cv
    BY <1>1, <2>1, <2>2 DEF RenamesOK, CREATE_VECTOR
  <2>3. CASE name \notin v.use_spec_cv
    BY <1>1, <2>1, <2>3 DEF RenamesOK, CREATE_VECTOR
  <2> QED
    BY <2>2, <2>3
<1>3. link => /\ c.rs \in A /\ c.rs \in Stations /\ c.odep_num \in 1..2
              /\ v.rs[c.rs].onames[c.odep_num] = name
              /\ ~v.rs[c.rs].completed /\ c.rs # s
  <2> SUFFICES ASSUME link
               PROVE  /\ c.rs \in A /\ c.rs \in Stations /\ c.odep_num \in 1..2
                      /\ v.rs[c.rs].onames[c.odep_num] = name
                      /\ ~v.rs[c.rs].completed /\ c.rs # s
    OBVIOUS
  <2>1. PICK sp : Names(v.rs, A, name, c, sp, {})
    BY <1>2
  <2>2. /\ c.rs \in A /\ c.odep_num \in 1..2 /\ ~v.rs[c.rs].completed
        /\ v.rs[c.rs].onames[c.odep_num] = name
    BY <2>1 DEF Names, Writes
  <2>3. c.rs # s
    <3> SUFFICES ASSUME c.rs = s PROVE FALSE
      OBVIOUS
    <3>1. v.rs[s].onames[c.odep_num] = NA
      BY <2>2
    <3> QED
      BY <2>2, <3>1
  <2> QED
    BY <1>1, <2>2, <2>3
<1> HIDE DEF c
<1>4. Linked(v, u, s, k, link, c)
  <2>1. Linkable(v, s, k, name, c)
    BY <1>1, <1>3 DEF c, Linkable
  <2> QED
    BY <2>1, LinkEffect
<1> HIDE DEF u, l
<1>5. ChainsOK(u.rs, A, open \ {<<s, k>>}) /\ ChainsDone(u.rs)
  <2>1. CASE link
    <3>1. Unlinked(v.rs, A, open, s, k)
      <4>1. \A x \in A : x # s => v.rs[x].seq < v.rs[s].seq
        BY <1>1 DEF Putting
      <4> QED
        BY <1>1, <4>1 DEF Unlinked
    <3>2. ChainsCons(v.rs, u.rs, c.rs, c.odep_num, l)
      <4>1. \A x \in Stations : u.rs[x].tag = v.rs[x].tag /\ u.rs[x].seq = v.rs[x].seq
        BY <1>4 DEF Linked, Kept
      <4> QED
        BY <1>4, <2>1, <4>1 DEF Linked, ChainsCons, l
    <3>3. \A x \in Stations, j \in 1..3 :
              u.rs[x].idep_ready[j] <=> v.rs[x].idep_ready[j] /\ ~(x = s /\ j = k)
      BY <1>4, <2>1 DEF Linked
    <3>4. c.rs \in A /\ c.odep_num \in 1..2 /\ v.rs[c.rs].onames[c.odep_num] # NA
          /\ ~v.rs[c.rs].completed
      BY <1>3, <2>1
    <3>5. \A x \in Stations : Kept(u.rs[x], v.rs[x])
      BY <1>4 DEF Linked
    <3>6. ChainsCons(v.rs, u.rs, c.rs, c.odep_num, [rs |-> s, tag |-> v.rs[s].tag, opnum |-> k])
      BY <3>2 DEF l
    <3>7. OnChain(v.rs, u.rs, A, s, k, c.rs, c.odep_num)
      BY <3>3, <3>4, <3>5, <3>6 DEF OnChain
    <3> QED
      BY <3>1, <3>7, LinkChains
  <2>2. CASE ~link
    <3>1. ChainsLike(v.rs, u.rs, A, open, open \ {<<s, k>>})
      <4>1. \A x \in Stations : /\ u.rs[x].tag = v.rs[x].tag /\ u.rs[x].seq = v.rs[x].seq
                                /\ u.rs[x].onames = v.rs[x].onames
        BY <1>4 DEF Linked, Kept
      <4>2. \A x \in Stations, o \in 1..2 : u.rs[x].odep_list[o] = v.rs[x].odep_list[o]
        BY <1>4, <2>2 DEF Linked
      <4>3. ASSUME NEW t \in A, NEW j \in 1..3
            PROVE  ~u.rs[t].idep_ready[j] /\ <<t, j>> \notin open \ {<<s, k>>}
                     <=> ~v.rs[t].idep_ready[j] /\ <<t, j>> \notin open
        <5>1. CASE t = s /\ j = k
          BY <1>4, <2>2, <5>1 DEF Linked
        <5>2. CASE ~(t = s /\ j = k)
          <6>1. u.rs[t].idep_ready[j] <=> v.rs[t].idep_ready[j]
            BY <1>1, <1>4, <5>2 DEF Linked
          <6> QED
            BY <5>2, <6>1
        <5> QED
          BY <5>1, <5>2
      <4> QED
        BY <4>1, <4>2, <4>3 DEF ChainsLike
    <3>2. ChainsOK(u.rs, A, open \ {<<s, k>>})
      BY <1>1, <3>1, ChainsFrame
    <3>3. \A x \in Stations, o \in 1..2 : /\ u.rs[x].odep_list[o] = v.rs[x].odep_list[o]
                                          /\ u.rs[x].completed = v.rs[x].completed
      BY <1>4, <2>2 DEF Linked, Kept
    <3>4. ChainsDone(u.rs)
      BY <1>1, <3>3 DEF ChainsDone
    <3> QED
      BY <3>2, <3>4
  <2> QED
    BY <2>1, <2>2
<1>6. RenamesOK(u, A, {})
  <2>1. \A x \in A : /\ u.rs[x].onames = v.rs[x].onames
                     /\ u.rs[x].spec_mode = v.rs[x].spec_mode
                     /\ u.rs[x].completed = v.rs[x].completed
                     /\ u.rs[x].seq = v.rs[x].seq
    BY <1>1, <1>4 DEF Linked, Kept
  <2> QED
    BY <1>1, <1>4, <2>1, RenamesFrame DEF Linked
<1>7. \A x \in Stations : x # s => /\ Kept(u.rs[x], w.rs[x])
                                   /\ u.rs[x].idep_ready = w.rs[x].idep_ready
  BY <1>4 DEF Linked, Putting, Kept
<1>8. New(u.rs[s], i, seq, w.rs[s].tag) /\ u.rs[s].onames = <<NA, NA>>
  <2>1. New(v.rs[s], i, seq, w.rs[s].tag) /\ Kept(u.rs[s], v.rs[s])
    BY <1>1, <1>4 DEF Linked, Putting
  <2> QED
    BY <2>1 DEF New, Kept
<1>9. \A x \in A : x # s => u.rs[x].seq < seq
  <2>1. \A x \in A : u.rs[x].seq = v.rs[x].seq
    BY <1>1, <1>4 DEF Linked, Kept
  <2> QED
    BY <2>1 DEF Putting
<1>10. u.ready_queue = w.ready_queue /\ u.panics = w.panics
  BY <1>4 DEF Linked, Putting
<1>11. Putting(w, u, A, s, i, seq, open \ {<<s, k>>})
  BY <1>1, <1>4, <1>5, <1>6, <1>7, <1>8, <1>9, <1>10 DEF Linked, Putting
<1> QED
  BY <1>8, <1>11 DEF u, Linking

\* Giving one output of the new station its register.
LEMMA PutInstall ==
    ASSUME NEW w, NEW v, NEW A, NEW s, NEW i, NEW seq,
           Putting(w, v, A, s, i, seq, {}), spec_mode \in BOOLEAN,
           NEW k \in 1..2, v.rs[s].onames[k] = NA, NEW name \in Regs \cup {NA}
    PROVE  LET u == ruu_install_odep(v, s, k, name)
           IN  /\ Putting(w, u, A, s, i, seq, {})
               /\ u.rs[s].onames = [v.rs[s].onames EXCEPT ![k] = name]
<1> DEFINE u == ruu_install_odep(v, s, k, name)
<1>1. /\ v \in Worlds /\ A \subseteq Stations /\ s \in A /\ s \in Stations
      /\ v.rs \in [Stations -> RSType] /\ v.rs[s] \in RSType
      /\ New(v.rs[s], i, seq, w.rs[s].tag)
  BY DEF Putting, Worlds
<1>2. Installing(v, A, s, k)
  BY <1>1 DEF Installing, Putting, New
<1>3. /\ u \in Worlds
      /\ u.ready_queue = v.ready_queue /\ u.panics = v.panics
      /\ \A x \in Stations : x # s => u.rs[x] = v.rs[x]
      /\ u.rs[s].onames = [v.rs[s].onames EXCEPT ![k] = name]
      /\ u.rs[s] = [v.rs[s] EXCEPT !.onames = u.rs[s].onames]
      /\ RenamesOK(u, A, {}) /\ ChainsOK(u.rs, A, {}) /\ ChainsDone(u.rs)
  <2> HIDE DEF u
  <2> QED
    BY <1>2, InstallEffect DEF u
<1> HIDE DEF u
<1>4. New(u.rs[s], i, seq, w.rs[s].tag)
  BY <1>1, <1>3 DEF New, RSType
<1>5. \A x \in A : x # s => u.rs[x].seq < seq
  BY <1>1, <1>3 DEF Putting
<1>6. \A x \in Stations : x # s => /\ Kept(u.rs[x], w.rs[x])
                                   /\ u.rs[x].idep_ready = w.rs[x].idep_ready
  BY <1>3 DEF Putting
<1>7. u.ready_queue = w.ready_queue /\ u.panics = w.panics
  BY <1>3 DEF Putting
<1>8. Putting(w, u, A, s, i, seq, {})
  BY <1>1, <1>3, <1>4, <1>5, <1>6, <1>7 DEF Putting
<1> QED
  BY <1>3, <1>8 DEF u

\* Dispatch into a free station: the window grows by its youngest.
LEMMA PutEffect ==
    ASSUME NEW w, NEW A, NEW s, NEW i, NEW seq, Fillable(w, A, s, i, seq),
           NEW ins \in [1..3 -> Regs \cup {NA}], NEW outs \in [1..2 -> Regs \cup {NA}]
    PROVE  /\ Putting(w, Put(w, s, i, seq, ins, outs), A \cup {s}, s, i, seq, {})
           /\ Structure(Put(w, s, i, seq, ins, outs), A \cup {s})
           /\ \A k \in 1..2 : Put(w, s, i, seq, ins, outs).rs[s].onames[k] = outs[k]
<1>0. /\ s \in Stations \ A /\ Filling(i) /\ seq \in Nat /\ spec_mode \in BOOLEAN
      /\ Structure(w, A) /\ \A x \in A : w.rs[x].seq < seq
  BY DEF Fillable
<1> DEFINE B == A \cup {s}
           w0 == Fill(w, s, i, seq)
           w1 == ruu_link_idep(w0, s, 1, ins[1])
           w2 == ruu_link_idep(w1, s, 2, ins[2])
           w3 == ruu_link_idep(w2, s, 3, ins[3])
           w4 == ruu_install_odep(w3, s, 1, outs[1])
           w5 == ruu_install_odep(w4, s, 2, outs[2])
           o1 == {s} \X (1..3)
           o2 == o1 \ {<<s, 1>>}
           o3 == o2 \ {<<s, 2>>}
<1>1. Put(w, s, i, seq, ins, outs) = w5
  BY Zenon DEF Put, LinkIdeps, InstallOdeps
<1>2. Linking(w, w0, B, s, i, seq, o1)
  BY FillEffect
<1>3. \A k \in 1..3 : ins[k] \in Regs \cup {NA}
  OBVIOUS
<1>4. \A k \in 1..2 : outs[k] \in Regs \cup {NA}
  OBVIOUS
<1>4a. <<s, 1>> \in o1 /\ <<s, 2>> \in o2 /\ <<s, 3>> \in o3 /\ o3 \ {<<s, 3>>} = {}
  OBVIOUS
<1> HIDE DEF w0, B, o1, o2, o3
<1>5. Linking(w, w1, B, s, i, seq, o2)
  <2>1. 1 \in 1..3 /\ ins[1] \in Regs \cup {NA} /\ <<s, 1>> \in o1
    BY <1>3, <1>4a
  <2>2. Linking(w, w1, B, s, i, seq, o1 \ {<<s, 1>>})
    BY <1>2, <2>1, PutLink, ZenonT(30)
  <2> QED
    BY <1>4a, <2>2 DEF o2
<1> HIDE DEF w1
<1>6. Linking(w, w2, B, s, i, seq, o3)
  <2>1. 2 \in 1..3 /\ ins[2] \in Regs \cup {NA} /\ <<s, 2>> \in o2
    BY <1>3, <1>4a
  <2>2. Linking(w, w2, B, s, i, seq, o2 \ {<<s, 2>>})
    BY <1>5, <2>1, PutLink, ZenonT(30)
  <2> QED
    BY <1>4a, <2>2 DEF o3
<1> HIDE DEF w2
<1>7a. Linking(w, w3, B, s, i, seq, {})
  <2>1. 3 \in 1..3 /\ ins[3] \in Regs \cup {NA} /\ <<s, 3>> \in o3
    BY <1>3, <1>4a
  <2>2. Linking(w, w3, B, s, i, seq, o3 \ {<<s, 3>>})
    BY <1>6, <2>1, PutLink, ZenonT(30)
  <2> QED
    BY <1>4a, <2>2 DEF o3
<1> HIDE DEF w3
<1>7. /\ Putting(w, w3, B, s, i, seq, {}) /\ w3.rs[s].onames = <<NA, NA>>
  BY <1>7a DEF Linking
<1>8. /\ Putting(w, w4, B, s, i, seq, {})
      /\ w4.rs[s].onames[1] = outs[1] /\ w4.rs[s].onames[2] = NA
  <2>1. w3.rs[s].onames[1] = NA /\ 1 \in 1..2
    BY <1>7
  <2>2. Putting(w, w4, B, s, i, seq, {}) /\ w4.rs[s].onames = [w3.rs[s].onames EXCEPT ![1] = outs[1]]
    BY <1>0, <1>4, <1>7, <2>1, PutInstall
  <2> QED
    BY <1>7, <2>2
<1> HIDE DEF w4
<1>9a. /\ Putting(w, w5, B, s, i, seq, {})
       /\ w5.rs[s].onames = [w4.rs[s].onames EXCEPT ![2] = outs[2]]
  <2>1. 2 \in 1..2
    OBVIOUS
  <2> QED
    BY <1>0, <1>4, <1>8, <2>1, PutInstall
<1>9. Putting(w, w5, B, s, i, seq, {})
  BY <1>9a
<1>9b. \A k \in 1..2 : w5.rs[s].onames[k] = outs[k]
  <2>1. w4 \in Worlds /\ s \in Stations
    BY <1>8 DEF Putting
  <2>2. w4.rs[s] \in RSType
    BY <2>1 DEF Worlds
  <2>3. PICK f : f = w4.rs[s].onames
    OBVIOUS
  <2>4. f \in [1..2 -> Regs \cup {NA}]
    BY <2>2, <2>3 DEF RSType
  <2>5. \A k \in 1..2 : k = 1 \/ k = 2
    OBVIOUS
  <2> QED
    BY <1>8, <1>9a, <2>3, <2>4, <2>5
<1> HIDE DEF w5
<1>10. Structure(w5, B)
  <2>1. w5 \in Worlds /\ B \subseteq Stations
        /\ ChainsOK(w5.rs, B, {}) /\ ChainsDone(w5.rs) /\ RenamesOK(w5, B, {})
    BY <1>9 DEF Putting
  <2>2. w5.rs \in [Stations -> RSType] /\ w \in Worlds /\ w.rs \in [Stations -> RSType] /\ A \subseteq Stations
    BY <1>0, <2>1 DEF Worlds, Structure
  <2>3. \A x \in Stations : x # s => w5.rs[x].seq = w.rs[x].seq
    BY <1>9 DEF Putting, Kept
  <2>4. w5.rs[s].seq = seq
    BY <1>9 DEF Putting, New
  <2>5. \A x, t \in B : w5.rs[x].seq = w5.rs[t].seq => x = t
    <3>1. \A x \in A : w5.rs[x].seq = w.rs[x].seq /\ w.rs[x].seq < seq /\ w.rs[x].seq \in Nat
      BY <1>0, <2>2, <2>3 DEF RSType
    <3> QED
      BY <1>0, <2>4, <3>1 DEF B, Structure
  <2>6. ASSUME NEW x \in Stations \ B PROVE Freed(w5.rs[x])
    <3> DEFINE r == w5.rs[x]
               y == w.rs[x]
    <3>1. Freed(y) /\ Kept(r, y) /\ r.idep_ready = y.idep_ready /\ r \in RSType /\ y \in RSType
      BY <1>0, <1>9, <2>2, <2>6 DEF Putting, Structure, B
    <3>2. r.onames[1] = NA /\ r.onames[2] = NA
      BY <3>1 DEF Freed, Blank, Kept
    <3>3. r.odep_list[1] = <<>> /\ r.odep_list[2] = <<>>
      BY <2>1, <3>2 DEF ChainsOK, ChainsClean
    <3>4. r.odep_list \in [1..2 -> Seq(OLink)]
      BY <3>1 DEF RSType
    <3>5. y.odep_list = << <<>>, <<>> >>
      BY <3>1 DEF Freed, Blank
    <3> HIDE DEF r, y
    <3>6. r.odep_list = y.odep_list
      <4>1. y.odep_list \in [1..2 -> Seq(OLink)]
        BY <3>1 DEF RSType
      <4>2. y.odep_list[1] = <<>> /\ y.odep_list[2] = <<>>
        BY <3>5
      <4>3. \A o \in 1..2 : r.odep_list[o] = y.odep_list[o]
        BY <3>3, <4>2
      <4> QED
        BY <3>4, <4>1, <4>3
    <3>7. r = y
      BY <3>1, <3>6, SameStation
    <3> QED
      BY <3>1, <3>7 DEF r
  <2> QED
    BY <2>1, <2>5, <2>6 DEF Structure
<1> QED
  BY <1>1, <1>9, <1>9b, <1>10 DEF B
-----------------------------------------------------------------------------
\* The stations that execute are those with a valid event, each once.
EventOnce(rr, ev) ==
    \A s \in Stations :
       /\ \A j, k \in DOMAIN ev : Ref(rr, ev, j, s) /\ Ref(rr, ev, k, s) => j = k
       /\ rr[s].issued /\ ~rr[s].completed <=> \E k \in DOMAIN ev : Ref(rr, ev, k, s)

\* Operands are ready before issue, and issue comes before completion.
StatusOK(rr) ==
    \A s \in Stations :
       /\ rr[s].queued => OPERANDS_READY(rr[s]) /\ ~rr[s].issued
       /\ rr[s].issued => OPERANDS_READY(rr[s])
       /\ rr[s].completed => rr[s].issued

\* The queues agree with the stations.
Queues(w, A, nd, ev) ==
    /\ nd \in Seq(RLink) /\ ev \in Seq(Event)
    /\ LinksOK(w.rs, A, w.ready_queue) /\ LinksOK(w.rs, A, nd)
    /\ LinksOK(w.rs, A, ev)
    /\ ReadyOnce(w.rs, w.ready_queue, nd) /\ EventOnce(w.rs, ev)
    /\ StatusOK(w.rs)

\* A set of stations that grows keeps every link.
LEMMA LinksGrow ==
    ASSUME NEW rr, NEW r2, NEW A, NEW B, A \subseteq B, NEW S, NEW q \in Seq(S),
           \A l \in S : l.rs \in Stations,
           \A x \in Stations : r2[x].tag = rr[x].tag,
           LinksOK(rr, A, q)
    PROVE  LinksOK(r2, B, q)
<1>1. \A k \in DOMAIN q : q[k] \in S
  OBVIOUS
<1> QED
  BY <1>1 DEF LinksOK, LinkOK

\* v is w but for what the queues do not show.
QueuesLike(w, v, A, B) ==
    /\ w \in Worlds /\ v.ready_queue = w.ready_queue /\ A \subseteq B
    /\ \A x \in Stations :
          /\ v.rs[x].tag = w.rs[x].tag /\ v.rs[x].queued = w.rs[x].queued
          /\ v.rs[x].issued = w.rs[x].issued /\ v.rs[x].completed = w.rs[x].completed
          /\ v.rs[x].queued \/ v.rs[x].issued => OPERANDS_READY(v.rs[x])

\* Then the queues still agree.
LEMMA QueuesFrame ==
    ASSUME NEW w, NEW v, NEW A, NEW B, NEW nd, NEW ev,
           Queues(w, A, nd, ev), QueuesLike(w, v, A, B)
    PROVE  Queues(v, B, nd, ev)
<1>1. w.ready_queue \in Seq(RLink) /\ nd \in Seq(RLink) /\ ev \in Seq(Event)
      /\ A \subseteq B
  BY DEF QueuesLike, Worlds, Queues
<1>2. /\ \A l \in RLink : l.rs \in Stations
      /\ \A l \in Event : l.rs \in Stations
  BY DEF RLink, Event
<1>3. \A x \in Stations : v.rs[x].tag = w.rs[x].tag
  BY DEF QueuesLike
<1>4. LinksOK(v.rs, B, w.ready_queue)
  <2>1. LinksOK(w.rs, A, w.ready_queue)
    BY DEF Queues
  <2> QED
    BY <1>1, <1>2, <1>3, <2>1, LinksGrow
<1>5. LinksOK(v.rs, B, nd)
  <2>1. LinksOK(w.rs, A, nd)
    BY DEF Queues
  <2> QED
    BY <1>1, <1>2, <1>3, <2>1, LinksGrow
<1>6. LinksOK(v.rs, B, ev)
  <2>1. LinksOK(w.rs, A, ev)
    BY DEF Queues
  <2> QED
    BY <1>1, <1>2, <1>3, <2>1, LinksGrow
<1>7. ReadyOnce(v.rs, w.ready_queue, nd)
  <2>1. ReadyOnce(w.rs, w.ready_queue, nd)
    BY DEF Queues
  <2>2. \A x \in Stations : v.rs[x].queued = w.rs[x].queued
    BY DEF QueuesLike
  <2> QED
    BY <1>3, <2>1, <2>2 DEF ReadyOnce, Ref
<1>8. EventOnce(v.rs, ev)
  BY DEF Queues, QueuesLike, EventOnce, Ref
<1>9. StatusOK(v.rs)
  BY DEF Queues, QueuesLike, StatusOK
<1> QED
  BY <1>1, <1>4, <1>5, <1>6, <1>7, <1>8, <1>9 DEF Queues, QueuesLike

\* v is w but for what neither the chains nor the create vectors show.
StructureLike(w, v, A) ==
    /\ v \in Worlds
    /\ v.create_vector = w.create_vector /\ v.use_spec_cv = w.use_spec_cv
    /\ v.spec_create_vector = w.spec_create_vector
    /\ \A x \in Stations \ A : v.rs[x] = w.rs[x]
    /\ \A x \in Stations :
          /\ v.rs[x].tag = w.rs[x].tag /\ v.rs[x].seq = w.rs[x].seq
          /\ v.rs[x].onames = w.rs[x].onames
          /\ v.rs[x].odep_list = w.rs[x].odep_list
          /\ v.rs[x].idep_ready = w.rs[x].idep_ready
          /\ v.rs[x].spec_mode = w.rs[x].spec_mode
          /\ v.rs[x].completed = w.rs[x].completed

\* Then they are still right.
LEMMA StructureFrame ==
    ASSUME NEW w, NEW v, NEW A, Structure(w, A), StructureLike(w, v, A)
    PROVE  Structure(v, A)
<1>1. A \subseteq Stations /\ w \in Worlds /\ w.rs \in [Stations -> RSType]
      /\ ChainsOK(w.rs, A, {}) /\ ChainsDone(w.rs) /\ RenamesOK(w, A, {})
  BY DEF Structure, Worlds
<1>2. ChainsOK(v.rs, A, {})
  <2>1. ChainsLike(w.rs, v.rs, A, {}, {})
    BY <1>1 DEF StructureLike, ChainsLike
  <2> QED
    BY <1>1, <2>1, ChainsFrame
<1>3. ChainsDone(v.rs)
  BY <1>1 DEF StructureLike, ChainsDone
<1>4. RenamesOK(v, A, {})
  <2>1. \A x \in A : /\ v.rs[x].onames = w.rs[x].onames
                     /\ v.rs[x].spec_mode = w.rs[x].spec_mode
                     /\ v.rs[x].completed = w.rs[x].completed
                     /\ v.rs[x].seq = w.rs[x].seq
    BY <1>1 DEF StructureLike
  <2>2. v.create_vector = w.create_vector /\ v.use_spec_cv = w.use_spec_cv
        /\ v.spec_create_vector = w.spec_create_vector
    BY DEF StructureLike
  <2> QED
    BY <1>1, <2>1, <2>2, RenamesFrame
<1> QED
  BY <1>1, <1>2, <1>3, <1>4 DEF Structure, StructureLike

\* Put leaves the queues alone.
LEMMA PutQueues ==
    ASSUME NEW w, NEW v, NEW A, NEW s, NEW i, NEW seq, NEW nd, NEW ev,
           Fillable(w, A, s, i, seq), Queues(w, A, nd, ev),
           Putting(w, v, A \cup {s}, s, i, seq, {})
    PROVE  Queues(v, A \cup {s}, nd, ev)
<1>1. w \in Worlds /\ s \in Stations /\ Freed(w.rs[s])
  BY DEF Fillable, Structure
<1>2. /\ v.ready_queue = w.ready_queue
      /\ \A x \in Stations : x # s => /\ Kept(v.rs[x], w.rs[x])
                                      /\ v.rs[x].idep_ready = w.rs[x].idep_ready
      /\ New(v.rs[s], i, seq, w.rs[s].tag)
  BY DEF Putting
<1>3. /\ w.rs[s].queued = FALSE /\ w.rs[s].issued = FALSE /\ w.rs[s].completed = FALSE
  BY <1>1 DEF Freed, Blank
<1>4. ASSUME NEW x \in Stations
      PROVE  /\ v.rs[x].tag = w.rs[x].tag /\ v.rs[x].queued = w.rs[x].queued
             /\ v.rs[x].issued = w.rs[x].issued /\ v.rs[x].completed = w.rs[x].completed
             /\ v.rs[x].queued \/ v.rs[x].issued => OPERANDS_READY(v.rs[x])
  <2>1. CASE x = s
    BY <1>2, <1>3, <2>1 DEF New
  <2>2. CASE x # s
    <3>1. w.rs[x].queued \/ w.rs[x].issued => OPERANDS_READY(w.rs[x])
      BY DEF Queues, StatusOK
    <3> QED
      BY <1>2, <2>2, <3>1 DEF Kept, OPERANDS_READY
  <2> QED
    BY <2>1, <2>2
<1>5. QueuesLike(w, v, A, A \cup {s})
  BY <1>1, <1>2, <1>4 DEF QueuesLike
<1> QED
  BY <1>5, QueuesFrame

\* The whole state that the helpers thread through a stage is right.
Core(w, A, nd, ev) == Structure(w, A) /\ Queues(w, A, nd, ev)

\* v is w with station s put on the ready queue.
Queued(w, v, s) ==
    /\ v \in Worlds /\ v.panics = w.panics
    /\ v.create_vector = w.create_vector /\ v.use_spec_cv = w.use_spec_cv
    /\ v.spec_create_vector = w.spec_create_vector
    /\ \A x \in Stations : /\ Alike(v.rs[x], w.rs[x])
                           /\ v.rs[x].idep_ready = w.rs[x].idep_ready
                           /\ v.rs[x].queued = (w.rs[x].queued \/ x = s)

\* A station whose operands are ready is queued.
LEMMA EnqueueCore ==
    ASSUME NEW w, NEW A, NEW nd, NEW ev, Core(w, A, nd, ev), NEW s \in A,
           OPERANDS_READY(w.rs[s]), ~w.rs[s].queued, ~w.rs[s].issued
    PROVE  LET v == readyq_enqueue(w, s)
           IN  Core(v, A, nd, ev) /\ Queued(w, v, s)
<1> DEFINE v == readyq_enqueue(w, s)
           l == [rs |-> s, tag |-> w.rs[s].tag, seq |-> w.rs[s].seq]
<1>1. /\ w \in Worlds /\ A \subseteq Stations /\ s \in Stations
      /\ w.rs \in [Stations -> RSType] /\ w.rs[s] \in RSType
      /\ w.ready_queue \in Seq(RLink) /\ nd \in Seq(RLink)
      /\ Structure(w, A) /\ Queues(w, A, nd, ev)
  BY DEF Core, Structure, Queues, Worlds
<1>2. /\ v \in Worlds /\ v.rs = [w.rs EXCEPT ![s].queued = TRUE]
      /\ Inserted(w.ready_queue, l, v.ready_queue) /\ v.panics = w.panics
      /\ v.create_vector = w.create_vector
      /\ v.spec_create_vector = w.spec_create_vector
      /\ v.use_spec_cv = w.use_spec_cv
  <2>1. /\ v \in Worlds /\ v.rs = [w.rs EXCEPT ![s].queued = TRUE]
        /\ Inserted(w.ready_queue, l, v.ready_queue)
        /\ v.panics = w.panics \cup (IF w.rs[s].queued THEN {"node is already queued"} ELSE {})
        /\ v.create_vector = w.create_vector
        /\ v.spec_create_vector = w.spec_create_vector
        /\ v.use_spec_cv = w.use_spec_cv
    <3> HIDE DEF v, l
    <3> QED
      BY <1>1, Enqueue DEF v, l
  <2> QED
    BY <2>1
<1>3. l \in RLink /\ l.rs = s /\ l.tag = w.rs[s].tag
  BY <1>1 DEF RLink, RSType
<1> HIDE DEF v, l
<1>4. /\ \A x \in Stations : x # s => v.rs[x] = w.rs[x]
      /\ v.rs[s] = [w.rs[s] EXCEPT !.queued = TRUE]
  BY <1>1, <1>2
<1>5. /\ Alike(v.rs[s], w.rs[s]) /\ v.rs[s].idep_ready = w.rs[s].idep_ready
      /\ v.rs[s].queued = TRUE
  BY <1>1, <1>4 DEF Alike, RSType
<1>6. Queued(w, v, s)
  <2>1. ASSUME NEW x \in Stations
        PROVE  /\ Alike(v.rs[x], w.rs[x]) /\ v.rs[x].idep_ready = w.rs[x].idep_ready
               /\ v.rs[x].queued = (w.rs[x].queued \/ x = s)
    <3>1. CASE x = s
      BY <1>5, <3>1
    <3>2. CASE x # s
      <4>1. w.rs[x].queued \in BOOLEAN
        BY <1>1 DEF RSType
      <4> QED
        BY <1>4, <3>2, <4>1 DEF Alike
    <3> QED
      BY <3>1, <3>2
  <2> QED
    BY <1>2, <2>1 DEF Queued
<1>7. Structure(v, A)
  <2>1. \A x \in Stations \ A : v.rs[x] = w.rs[x]
    BY <1>4
  <2>2. StructureLike(w, v, A)
    BY <1>2, <1>6, <2>1 DEF StructureLike, Queued, Alike
  <2> QED
    BY <1>1, <2>2, StructureFrame
<1>8. LinksOK(v.rs, A, v.ready_queue)
  <2>1. LinkOK(w.rs, A, l) /\ LinksOK(w.rs, A, w.ready_queue)
    BY <1>1, <1>3 DEF LinkOK, Queues
  <2>2. LinksOK(w.rs, A, v.ready_queue) /\ v.ready_queue \in Seq(RLink)
    BY <1>1, <1>2, <1>3, <2>1, InsertedLinks, InsertedType
  <2>3. \A x \in RLink : x.rs \in Stations
    BY DEF RLink
  <2>4. \A x \in Stations : v.rs[x].tag = w.rs[x].tag
    BY <1>6 DEF Queued, Alike
  <2> QED
    BY <2>2, <2>3, <2>4, LinksGrow
<1>9. ReadyOnce(v.rs, v.ready_queue, nd)
  <2>1. Queueing(w.rs, v.rs, w.ready_queue, v.ready_queue, l, nd)
    <3>1. ReadyOnce(w.rs, w.ready_queue, nd)
      BY <1>1 DEF Queues
    <3>2. \A x \in Stations : /\ v.rs[x].tag = w.rs[x].tag
                              /\ v.rs[x].queued <=> w.rs[x].queued \/ x = l.rs
      BY <1>3, <1>6 DEF Queued, Alike
    <3> QED
      BY <1>1, <1>2, <1>3, <3>1, <3>2 DEF Queueing
  <2> QED
    BY <2>1, ReadyEnqueued
<1>10. Queues(v, A, nd, ev)
  <2>1. LinksOK(v.rs, A, nd) /\ LinksOK(v.rs, A, ev)
    <3>1. \A x \in Stations : v.rs[x].tag = w.rs[x].tag
      BY <1>6 DEF Queued, Alike
    <3>2. /\ \A x \in RLink : x.rs \in Stations
          /\ \A x \in Event : x.rs \in Stations
      BY DEF RLink, Event
    <3>3. LinksOK(w.rs, A, nd) /\ LinksOK(w.rs, A, ev) /\ ev \in Seq(Event)
      BY <1>1 DEF Queues
    <3>4. LinksOK(v.rs, A, nd)
      BY <1>1, <3>1, <3>2, <3>3, LinksGrow
    <3>5. LinksOK(v.rs, A, ev)
      BY <3>1, <3>2, <3>3, LinksGrow
    <3> QED
      BY <3>4, <3>5
  <2>2. EventOnce(v.rs, ev)
    BY <1>1, <1>6 DEF Queues, Queued, Alike, EventOnce, Ref
  <2>3. StatusOK(v.rs)
    <3>1. \A x \in Stations : /\ v.rs[x].issued = w.rs[x].issued
                              /\ v.rs[x].completed = w.rs[x].completed
                              /\ OPERANDS_READY(v.rs[x]) <=> OPERANDS_READY(w.rs[x])
                              /\ v.rs[x].queued => w.rs[x].queued \/ x = s
      BY <1>6 DEF Queued, Alike, OPERANDS_READY
    <3> QED
      BY <1>1, <3>1 DEF Queues, StatusOK
  <2> QED
    BY <1>1, <1>8, <1>9, <2>1, <2>2, <2>3 DEF Queues
<1> QED
  BY <1>6, <1>7, <1>10 DEF v, Core
-----------------------------------------------------------------------------
\* Station s has completed; the outputs of "due" have still to be broadcast.
Completing(w, A, nd, ev, s, due) ==
    /\ w \in Worlds /\ A \subseteq Stations /\ s \in A /\ w.rs[s].completed
    /\ \A x \in Stations \ A : Freed(w.rs[x])
    /\ \A x, y \in A : w.rs[x].seq = w.rs[y].seq => x = y
    /\ ChainsOK(w.rs, A, {}) /\ RenamesOK(w, A, due)
    /\ \A p \in Stations, o \in 1..2 :
          w.rs[p].completed /\ <<p, o>> \notin due => w.rs[p].odep_list[o] = <<>>
    /\ Queues(w, A, nd, ev)

\* The same instruction in the same state of execution.
Same(a, b) ==
    /\ a.kind = b.kind /\ a.fu = b.fu /\ a.longlat = b.longlat
    /\ a.addr = b.addr /\ a.ea_comp = b.ea_comp /\ a.tag = b.tag
    /\ a.recover_inst = b.recover_inst /\ a.spec_mode = b.spec_mode
    /\ a.seq = b.seq /\ a.issued = b.issued /\ a.completed = b.completed
    /\ a.onames = b.onames

\* Operands may have become ready, and operations other than loads queued.
Woke(w, v) ==
    /\ v.panics = w.panics
    /\ \A x \in Stations :
          /\ Same(v.rs[x], w.rs[x])
          /\ \A k \in 1..3 : w.rs[x].idep_ready[k] => v.rs[x].idep_ready[k]
          /\ v.rs[x].queued => w.rs[x].queued \/ (in_LSQ(x) => Store(w.rs[x]))

\* The links of an output that are valid are to operands that wait.
LEMMA ChainFresh ==
    ASSUME NEW rr \in [Stations -> RSType], NEW A, ChainsOK(rr, A, {}),
           NEW s \in Stations, NEW k \in 1..2
    PROVE  /\ Fresh(rr, rr[s].odep_list[k])
           /\ \A x \in Stations, m \in 1..3 :
                 Hit(rr, rr[s].odep_list[k], Len(rr[s].odep_list[k]), x, m) <=>
                    \E j \in Nat : ChainAt(rr, s, k, j, x, m)
           /\ \A x \in Stations, m \in 1..3, j \in Nat :
                 ChainAt(rr, s, k, j, x, m) => x \in A /\ ~rr[x].idep_ready[m]
<1> DEFINE q == rr[s].odep_list[k]
<1>1. rr[s] \in RSType
  OBVIOUS
<1>2. q \in Seq(OLink) /\ LinksOK(rr, A, q)
  BY <1>1 DEF RSType, ChainsOK, ChainsClean
<1>3. ASSUME NEW x \in Stations, NEW m \in 1..3, NEW j \in Nat, ChainAt(rr, s, k, j, x, m)
      PROVE  x \in A /\ ~rr[x].idep_ready[m]
  <2> DEFINE l == [rs |-> x, tag |-> rr[x].tag, opnum |-> m]
  <2>1. LinkOK(rr, A, l)
    BY <1>2, <1>3 DEF ChainAt, LinksOK
  <2>2. l.rs = x /\ l.tag = rr[x].tag /\ rr[x].tag \in Nat
    BY DEF RSType
  <2> HIDE DEF l
  <2>3. x \in A
    BY <2>1, <2>2 DEF LinkOK
  <2> QED
    BY <1>3, <2>3 DEF ChainsOK, ChainsExact
<1>4. \A x, m, j : ChainAt(rr, s, k, j, x, m) <=>
         j \in DOMAIN q /\ q[j] = [rs |-> x, tag |-> rr[x].tag, opnum |-> m]
  BY DEF ChainAt
<1> HIDE DEF q
<1>5. Len(q) \in Nat /\ DOMAIN q = 1..Len(q)
  BY <1>2
<1>6. \A j \in DOMAIN q : q[j] \in OLink /\ q[j] = [rs |-> q[j].rs, tag |-> q[j].tag, opnum |-> q[j].opnum]
                          /\ q[j].rs \in Stations /\ q[j].opnum \in 1..3 /\ j \in Nat
  <2>1. \A j \in DOMAIN q : q[j] \in OLink /\ j \in Nat
    BY <1>2, <1>5
  <2> QED
    BY <2>1 DEF OLink
<1>7. Fresh(rr, q)
  <2>1. ASSUME NEW m \in DOMAIN q, RSLINK_VALID(rr, q[m])
        PROVE  ChainAt(rr, s, k, m, q[m].rs, q[m].opnum)
    BY <1>4, <1>6, <2>1 DEF RSLINK_VALID
  <2>2. ASSUME NEW m \in DOMAIN q, RSLINK_VALID(rr, q[m])
        PROVE  ~rr[q[m].rs].idep_ready[q[m].opnum]
    BY <1>3, <1>6, <2>1, <2>2
  <2>3. ASSUME NEW i \in DOMAIN q, NEW j \in DOMAIN q, RSLINK_VALID(rr, q[i]), q[i] = q[j]
        PROVE  i = j
    <3> DEFINE x == q[i].rs
               m == q[i].opnum
    <3>1. ChainAt(rr, s, k, i, x, m) /\ ChainAt(rr, s, k, j, x, m)
      BY <2>1, <2>3
    <3>2. x \in A /\ x \in Stations /\ m \in 1..3 /\ i \in Nat /\ j \in Nat
      BY <1>3, <1>6, <3>1
    <3> HIDE DEF x, m
    <3> QED
      BY <3>1, <3>2 DEF ChainsOK, ChainsOnce
  <2> QED
    BY <2>2, <2>3 DEF Fresh
<1>8. ASSUME NEW x \in Stations, NEW m \in 1..3
      PROVE  Hit(rr, q, Len(q), x, m) <=> \E j \in Nat : ChainAt(rr, s, k, j, x, m)
  BY <1>4, <1>5 DEF Hit
<1> QED
  BY <1>3, <1>7, <1>8 DEF q

\* What the broadcast of output k of s makes of w, if it has a register.
Sent(w, v, s, k, chain) ==
    /\ v \in Worlds /\ v.panics = w.panics /\ v.use_spec_cv = w.use_spec_cv
    /\ \A x \in Stations :
          /\ Same(v.rs[x], w.rs[x])
          /\ \A o \in 1..2 : v.rs[x].odep_list[o] =
                IF x = s /\ o = k THEN <<>> ELSE w.rs[x].odep_list[o]
          /\ \A m \in 1..3 : v.rs[x].idep_ready[m] <=>
                w.rs[x].idep_ready[m] \/ Hit(w.rs, chain, Len(chain), x, m)
          /\ v.rs[x].queued <=>
                \/ w.rs[x].queued
                \/ /\ \E m \in 1..3 : Hit(w.rs, chain, Len(chain), x, m)
                   /\ OPERANDS_READY(v.rs[x]) /\ (in_LSQ(x) => Store(w.rs[x]))
    /\ \A reg \in Regs :
          /\ v.create_vector[reg] =
               IF /\ reg = w.rs[s].onames[k] /\ ~w.rs[s].spec_mode
                  /\ w.create_vector[reg] = [rs |-> s, odep_num |-> k]
               THEN CVLINK_NULL ELSE w.create_vector[reg]
          /\ v.spec_create_vector[reg] =
               IF /\ reg = w.rs[s].onames[k] /\ w.rs[s].spec_mode
                  /\ w.spec_create_vector[reg] = [rs |-> s, odep_num |-> k]
               THEN CVLINK_NULL ELSE w.spec_create_vector[reg]

\* The loop of ruu_writeback() over the consumers of an output.
LEMMA BroadcastSends ==
    ASSUME NEW w, NEW A, NEW nd, NEW ev, NEW s, NEW due, NEW k \in 1..2,
           Completing(w, A, nd, ev, s, due), w.rs[s].onames[k] # NA
    PROVE  LET v == Broadcast(w, s, k)
           IN  /\ Sent(w, v, s, k, w.rs[s].odep_list[k])
               /\ ReadyOnce(v.rs, v.ready_queue, nd)
               /\ LinksOK(v.rs, A, v.ready_queue)
<1> DEFINE r == w.rs[s]
           c == [rs |-> s, odep_num |-> k]
           chain == r.odep_list[k]
           u == WakeAll(w, chain)
           reg == r.onames[k]
           v == Broadcast(w, s, k)
           d == [u.rs[s].odep_list EXCEPT ![k] = <<>>]
           r2 == [u.rs EXCEPT ![s] = [u.rs[s] EXCEPT !.odep_list = d]]
           sv == Forget(w.spec_create_vector, r.spec_mode, reg, c)
           cv == Forget(w.create_vector, ~r.spec_mode, reg, c)
<1>1. /\ w \in Worlds /\ A \subseteq Stations /\ s \in Stations
      /\ w.rs \in [Stations -> RSType] /\ r \in RSType
      /\ ChainsOK(w.rs, A, {}) /\ Queues(w, A, nd, ev) /\ nd \in Seq(RLink)
      /\ w.create_vector \in [Regs -> CVLink] /\ w.spec_create_vector \in [Regs -> CVLink]
  BY DEF Completing, Worlds, Queues
<1>2. chain \in Seq(OLink) /\ reg \in Regs /\ LinksOK(w.rs, A, chain)
  BY <1>1 DEF RSType, ChainsOK, ChainsClean
<1>3. Fresh(w.rs, chain)
  BY <1>1, ChainFresh
<1>4. QueuedReady(w.rs) /\ ReadyOnce(w.rs, w.ready_queue, nd) /\ LinksOK(w.rs, A, w.ready_queue)
  BY <1>1 DEF Queues, StatusOK, QueuedReady
<1>5. WakeGood(w, u, A, nd, chain, Len(chain))
  <2> HIDE DEF chain
  <2> QED
    BY <1>1, <1>2, <1>3, <1>4, WakeAllEffect
<1> HIDE DEF u
<1>6. /\ u \in Worlds /\ u.rs \in [Stations -> RSType] /\ u.rs[s] \in RSType
      /\ u.create_vector = w.create_vector /\ u.spec_create_vector = w.spec_create_vector
      /\ u.use_spec_cv = w.use_spec_cv /\ u.panics = w.panics
      /\ Woken(w.rs, u.rs, chain, Len(chain)) /\ ReadyOnce(u.rs, u.ready_queue, nd)
      /\ LinksOK(w.rs, A, u.ready_queue) /\ u.ready_queue \in Seq(RLink)
  BY <1>1, <1>5 DEF WakeGood, Worlds
<1>7. v = [u EXCEPT !.rs = r2, !.spec_create_vector = sv, !.create_vector = cv]
  <2>1. v = [u EXCEPT
                !.rs[s].odep_list[k] = <<>>,
                !.spec_create_vector = Forget(u.spec_create_vector, r.spec_mode, reg, c),
                !.create_vector = Forget(u.create_vector, ~r.spec_mode, reg, c)]
    BY DEF Broadcast, u
  <2>2. v = [u EXCEPT !.rs[s].odep_list[k] = <<>>, !.spec_create_vector = sv, !.create_vector = cv]
    BY <1>6, <2>1
  <2> HIDE DEF v, c, sv, cv
  <2> QED
    BY <1>6, <2>2 DEF Worlds
<1>8. d \in [1..2 -> Seq(OLink)] /\ \A o \in 1..2 : d[o] = IF o = k THEN <<>> ELSE u.rs[s].odep_list[o]
  <2>1. u.rs[s].odep_list \in [1..2 -> Seq(OLink)] /\ <<>> \in Seq(OLink)
    BY <1>6 DEF RSType
  <2> QED
    BY <2>1
<1> HIDE DEF d
<1>9. [u.rs[s] EXCEPT !.odep_list = d] \in RSType
  BY <1>6, <1>8 DEF RSType
<1>10. /\ r2 \in [Stations -> RSType] /\ r2[s] = [u.rs[s] EXCEPT !.odep_list = d]
       /\ \A x \in Stations : x # s => r2[x] = u.rs[x]
  BY <1>1, <1>6, <1>9
<1>11. sv \in [Regs -> CVLink] /\ cv \in [Regs -> CVLink]
  <2>1. CVLINK_NULL \in CVLink
    BY DEF CVLink
  <2> HIDE DEF c
  <2> QED
    BY <1>1, <1>2, <2>1 DEF Forget
<1>12. \A g \in Regs :
          /\ cv[g] = IF g = reg /\ ~r.spec_mode /\ w.create_vector[g] = c
                     THEN CVLINK_NULL ELSE w.create_vector[g]
          /\ sv[g] = IF g = reg /\ r.spec_mode /\ w.spec_create_vector[g] = c
                     THEN CVLINK_NULL ELSE w.spec_create_vector[g]
  <2> HIDE DEF c
  <2> QED
    BY <1>1, <1>2 DEF Forget
<1> HIDE DEF v, r2, sv, cv
<1>13. /\ v \in Worlds /\ v.rs = r2 /\ v.ready_queue = u.ready_queue
       /\ v.panics = w.panics /\ v.use_spec_cv = w.use_spec_cv
       /\ v.create_vector = cv /\ v.spec_create_vector = sv
  BY <1>6, <1>7, <1>10, <1>11 DEF Worlds
<1>14. /\ Alike(v.rs[s], [u.rs[s] EXCEPT !.odep_list = d]) /\ v.rs[s].odep_list = d
       /\ v.rs[s].idep_ready = u.rs[s].idep_ready /\ v.rs[s].queued = u.rs[s].queued
       /\ Same(v.rs[s], u.rs[s])
  BY <1>6, <1>10, <1>13 DEF Alike, Same, RSType
<1>15. \A x \in Stations : /\ Same(v.rs[x], u.rs[x])
                           /\ v.rs[x].idep_ready = u.rs[x].idep_ready
                           /\ v.rs[x].queued = u.rs[x].queued
                           /\ \A o \in 1..2 : v.rs[x].odep_list[o] =
                                 IF x = s /\ o = k THEN <<>> ELSE u.rs[x].odep_list[o]
  BY <1>8, <1>10, <1>13, <1>14 DEF Same
<1>16. ASSUME NEW x \in Stations
       PROVE  /\ Same(v.rs[x], w.rs[x])
              /\ \A o \in 1..2 : v.rs[x].odep_list[o] =
                    IF x = s /\ o = k THEN <<>> ELSE w.rs[x].odep_list[o]
              /\ \A m \in 1..3 : v.rs[x].idep_ready[m] <=>
                    w.rs[x].idep_ready[m] \/ Hit(w.rs, chain, Len(chain), x, m)
              /\ v.rs[x].queued <=>
                    \/ w.rs[x].queued
                    \/ /\ \E m \in 1..3 : Hit(w.rs, chain, Len(chain), x, m)
                       /\ OPERANDS_READY(v.rs[x]) /\ (in_LSQ(x) => Store(w.rs[x]))
  <2> HIDE DEF chain
  <2>1. /\ Alike(u.rs[x], w.rs[x])
        /\ \A m \in 1..3 : u.rs[x].idep_ready[m] <=>
              w.rs[x].idep_ready[m] \/ Hit(w.rs, chain, Len(chain), x, m)
        /\ u.rs[x].queued <=>
              \/ w.rs[x].queued
              \/ /\ \E m \in 1..3 : Hit(w.rs, chain, Len(chain), x, m)
                 /\ OPERANDS_READY(u.rs[x]) /\ (in_LSQ(x) => Store(w.rs[x]))
    BY <1>6 DEF Woken
  <2>2. OPERANDS_READY(v.rs[x]) <=> OPERANDS_READY(u.rs[x])
    BY <1>15 DEF OPERANDS_READY
  <2>3. Same(v.rs[x], w.rs[x]) /\ u.rs[x].odep_list = w.rs[x].odep_list
    BY <1>15, <2>1 DEF Same, Alike
  <2> QED
    BY <1>15, <2>1, <2>2, <2>3
<1>17. Sent(w, v, s, k, chain)
  <2> HIDE DEF chain
  <2> QED
    BY <1>12, <1>13, <1>16 DEF Sent
<1>18. \A x \in Stations : v.rs[x].tag = u.rs[x].tag /\ v.rs[x].tag = w.rs[x].tag
                           /\ v.rs[x].queued = u.rs[x].queued
  BY <1>15, <1>16 DEF Same
<1>19. ReadyOnce(v.rs, v.ready_queue, nd)
  BY <1>6, <1>13, <1>18 DEF ReadyOnce, Ref
<1>20. LinksOK(v.rs, A, v.ready_queue)
  <2>1. \A l \in RLink : l.rs \in Stations
    BY DEF RLink
  <2> QED
    BY <1>6, <1>13, <1>18, <2>1, LinksGrow
<1> QED
  BY <1>17, <1>19, <1>20 DEF v

\* The chains after the broadcast: those of the output are gone, and the
\* operands on them are ready.
LEMMA SentChains ==
    ASSUME NEW w, NEW v, NEW A \in SUBSET Stations, NEW s \in Stations, NEW k \in 1..2,
           w \in Worlds, ChainsOK(w.rs, A, {}),
           Sent(w, v, s, k, w.rs[s].odep_list[k])
    PROVE  ChainsOK(v.rs, A, {})
<1> DEFINE chain == w.rs[s].odep_list[k]
<1>1. w.rs \in [Stations -> RSType] /\ v.rs \in [Stations -> RSType]
  BY DEF Worlds, Sent
<1>2. \A x \in Stations : /\ v.rs[x].tag = w.rs[x].tag /\ v.rs[x].seq = w.rs[x].seq
                          /\ v.rs[x].onames = w.rs[x].onames
                          /\ \A o \in 1..2 : v.rs[x].odep_list[o] =
                                IF x = s /\ o = k THEN <<>> ELSE w.rs[x].odep_list[o]
  BY DEF Sent, Same
<1>3. /\ \A x \in Stations, m \in 1..3 :
             Hit(w.rs, chain, Len(chain), x, m) <=> \E j \in Nat : ChainAt(w.rs, s, k, j, x, m)
      /\ \A x \in Stations, m \in 1..3, j \in Nat :
             ChainAt(w.rs, s, k, j, x, m) => x \in A /\ ~w.rs[x].idep_ready[m]
  BY <1>1, ChainFresh
<1>4. \A x \in Stations, m \in 1..3 : v.rs[x].idep_ready[m] <=>
         w.rs[x].idep_ready[m] \/ \E j \in Nat : ChainAt(w.rs, s, k, j, x, m)
  BY <1>3 DEF Sent
<1>5. ASSUME NEW p \in Stations, NEW o \in 1..2, NEW j \in Nat, NEW x \in Stations, NEW m \in 1..3
      PROVE  ChainAt(v.rs, p, o, j, x, m) <=> ChainAt(w.rs, p, o, j, x, m) /\ ~(p = s /\ o = k)
  <2>1. CASE p = s /\ o = k
    <3>1. v.rs[p].odep_list[o] = <<>>
      BY <1>2, <2>1
    <3>2. DOMAIN v.rs[p].odep_list[o] = {}
      BY <3>1
    <3> QED
      BY <2>1, <3>2 DEF ChainAt
  <2>2. CASE ~(p = s /\ o = k)
    <3>1. v.rs[p].odep_list[o] = w.rs[p].odep_list[o] /\ v.rs[x].tag = w.rs[x].tag
      BY <1>2, <2>2
    <3> QED
      BY <2>2, <3>1 DEF ChainAt
  <2> QED
    BY <2>1, <2>2
<1>6. ChainsClean(v.rs, A)
  <2> SUFFICES ASSUME NEW x \in Stations, NEW o \in 1..2
               PROVE  /\ LinksOK(v.rs, A, v.rs[x].odep_list[o])
                      /\ v.rs[x].onames[o] = NA => v.rs[x].odep_list[o] = <<>>
    BY DEF ChainsClean
  <2> DEFINE q == w.rs[x].odep_list[o]
  <2>1. /\ LinksOK(w.rs, A, q)
        /\ w.rs[x].onames[o] = NA => q = <<>>
        /\ w.rs[x] \in RSType
    BY <1>1 DEF ChainsOK, ChainsClean
  <2>2. q \in Seq(OLink)
    BY <2>1 DEF RSType
  <2>3. v.rs[x].odep_list[o] = IF x = s /\ o = k THEN <<>> ELSE q
    BY <1>2
  <2> HIDE DEF q
  <2>4. \A l \in OLink : l.rs \in Stations
    BY DEF OLink
  <2>5. LinksOK(v.rs, A, q)
    BY <1>2, <2>1, <2>2, <2>4, LinksGrow
  <2>6. LinksOK(v.rs, A, <<>>)
    BY DEF LinksOK
  <2> QED
    BY <1>2, <2>1, <2>3, <2>5, <2>6
<1>7. ChainsExact(v.rs, A, {})
  <2> SUFFICES ASSUME NEW x \in A, NEW m \in 1..3
      PROVE  (\E p \in Stations, o \in 1..2, j \in Nat : ChainAt(v.rs, p, o, j, x, m))
                <=> ~v.rs[x].idep_ready[m]
    BY DEF ChainsExact
  <2>1. (\E p \in Stations, o \in 1..2, j \in Nat : ChainAt(w.rs, p, o, j, x, m))
                <=> ~w.rs[x].idep_ready[m]
    BY DEF ChainsOK, ChainsExact
  <2>2. ASSUME NEW p \in Stations, NEW o \in 1..2, NEW j \in Nat, ChainAt(v.rs, p, o, j, x, m)
        PROVE  ~v.rs[x].idep_ready[m]
    <3>1. ChainAt(w.rs, p, o, j, x, m) /\ ~(p = s /\ o = k)
      BY <1>5, <2>2
    <3>2. \A n \in Nat : ~ChainAt(w.rs, s, k, n, x, m)
      BY <3>1 DEF ChainsOK, ChainsOnce
    <3>3. ~w.rs[x].idep_ready[m]
      BY <2>1, <3>1
    <3> QED
      BY <1>4, <3>2, <3>3
  <2>3. ASSUME ~v.rs[x].idep_ready[m]
        PROVE  \E p \in Stations, o \in 1..2, j \in Nat : ChainAt(v.rs, p, o, j, x, m)
    <3>1. ~w.rs[x].idep_ready[m] /\ \A n \in Nat : ~ChainAt(w.rs, s, k, n, x, m)
      BY <1>4, <2>3
    <3>2. PICK p \in Stations, o \in 1..2, j \in Nat : ChainAt(w.rs, p, o, j, x, m)
      BY <2>1, <3>1
    <3>3. ~(p = s /\ o = k)
      BY <3>1, <3>2
    <3>4. ChainAt(v.rs, p, o, j, x, m)
      BY <1>5, <3>2, <3>3
    <3> QED
      BY <3>4
  <2> QED
    BY <2>2, <2>3
<1>8. ChainsOnce(v.rs, A)
  <2> SUFFICES ASSUME NEW t \in A, NEW m \in 1..3, NEW p \in Stations, NEW p2 \in Stations,
                      NEW o \in 1..2, NEW o2 \in 1..2, NEW j \in Nat, NEW j2 \in Nat,
                      ChainAt(v.rs, p, o, j, t, m), ChainAt(v.rs, p2, o2, j2, t, m)
               PROVE  p = p2 /\ o = o2 /\ j = j2
    BY DEF ChainsOnce
  <2>1. ChainAt(w.rs, p, o, j, t, m) /\ ChainAt(w.rs, p2, o2, j2, t, m)
    BY <1>5
  <2> QED
    BY <2>1 DEF ChainsOK, ChainsOnce
<1>9. ChainsOlder(v.rs, A)
  <2> SUFFICES ASSUME NEW t \in A, NEW m \in 1..3, NEW p \in Stations,
                      NEW o \in 1..2, NEW j \in Nat, ChainAt(v.rs, p, o, j, t, m)
               PROVE  v.rs[p].seq < v.rs[t].seq
    BY DEF ChainsOlder
  <2>1. ChainAt(w.rs, p, o, j, t, m)
    BY <1>5
  <2>2. w.rs[p].seq < w.rs[t].seq
    BY <2>1 DEF ChainsOK, ChainsOlder
  <2> QED
    BY <1>2, <2>2
<1> QED
  BY <1>6, <1>7, <1>8, <1>9 DEF ChainsOK

\* The create vectors after the broadcast do not name the output any more.
LEMMA SentRenames ==
    ASSUME NEW w, NEW v, NEW A, NEW nd, NEW ev, NEW s, NEW due, NEW k \in 1..2,
           Completing(w, A, nd, ev, s, due),
           Sent(w, v, s, k, w.rs[s].odep_list[k])
    PROVE  RenamesOK(v, A, due \ {<<s, k>>})
<1> DEFINE c == [rs |-> s, odep_num |-> k]
           less == due \ {<<s, k>>}
<1>1. /\ w \in Worlds /\ A \subseteq Stations /\ s \in A /\ s \in Stations
      /\ w.rs \in [Stations -> RSType] /\ w.rs[s].completed
      /\ w.create_vector \in [Regs -> CVLink] /\ w.spec_create_vector \in [Regs -> CVLink]
      /\ w.use_spec_cv \subseteq Regs /\ RenamesOK(w, A, due)
      /\ \A x, y \in A : w.rs[x].seq = w.rs[y].seq => x = y
  BY DEF Completing, Worlds
<1>2. \A x \in Stations : /\ v.rs[x].spec_mode = w.rs[x].spec_mode /\ v.rs[x].seq = w.rs[x].seq
                          /\ v.rs[x].onames = w.rs[x].onames /\ v.rs[x].completed = w.rs[x].completed
                          /\ w.rs[x].seq \in Nat
  BY <1>1 DEF Sent, Same, RSType
<1>3. \A reg, sp : Writes(v.rs, A, reg, sp) = Writes(w.rs, A, reg, sp)
  BY <1>1, <1>2 DEF Writes
<1>3a. \A reg, sp : Writes(w.rs, A, reg, sp) \subseteq Stations
  BY <1>1 DEF Writes
<1>4. ASSUME NEW reg, NEW sp, NEW d \in CVLink, d # c, Names(w.rs, A, reg, d, sp, due)
      PROVE  Names(v.rs, A, reg, d, sp, less)
  <2>1. d # CVLINK_NULL => <<d.rs, d.odep_num>> # <<s, k>>
    <3> SUFFICES ASSUME d # CVLINK_NULL, d.rs = s, d.odep_num = k PROVE FALSE
      OBVIOUS
    <3>1. d \in [rs : Stations, odep_num : 1..2]
      BY DEF CVLink
    <3> QED
      BY <1>4, <3>1
  <2>2. d # CVLINK_NULL => d.rs \in Stations
    BY <1>3a, <1>4 DEF Names
  <2> HIDE DEF c
  <2> QED
    BY <1>2, <1>3, <1>3a, <1>4, <2>1, <2>2 DEF Names
<1>5. ASSUME NEW reg \in Regs, NEW sp, Names(w.rs, A, reg, c, sp, due)
      PROVE  /\ Names(v.rs, A, reg, CVLINK_NULL, sp, less)
             /\ w.rs[s].spec_mode = sp /\ reg = w.rs[s].onames[k]
  <2>1. c # CVLINK_NULL /\ c.rs = s /\ c.odep_num = k
    BY DEF CVLINK_NULL
  <2> HIDE DEF c
  <2>2. /\ s \in Writes(w.rs, A, reg, sp) /\ w.rs[s].onames[k] = reg
        /\ \A t \in Writes(w.rs, A, reg, sp) : w.rs[t].seq <= w.rs[s].seq
    BY <1>5, <2>1 DEF Names
  <2>3. \A t \in Writes(w.rs, A, reg, sp) : ~w.rs[t].completed => w.rs[t].seq < w.rs[s].seq
    <3> SUFFICES ASSUME NEW t \in Writes(w.rs, A, reg, sp), ~w.rs[t].completed
                 PROVE  w.rs[t].seq < w.rs[s].seq
      OBVIOUS
    <3>1. t # s /\ t \in A /\ t \in Stations
      BY <1>1 DEF Writes
    <3> QED
      BY <1>1, <1>2, <2>2, <3>1
  <2>4. w.rs[s].spec_mode = sp
    BY <2>2 DEF Writes
  <2>5. Names(v.rs, A, reg, CVLINK_NULL, sp, less)
    BY <1>1, <1>2, <1>3, <1>3a, <2>2, <2>3 DEF Names
  <2> QED
    BY <2>2, <2>4, <2>5
<1>6. ASSUME NEW reg \in Regs PROVE Names(v.rs, A, reg, v.create_vector[reg], FALSE, less)
  <2>0. v.create_vector[reg] =
               IF /\ reg = w.rs[s].onames[k] /\ ~w.rs[s].spec_mode
                  /\ w.create_vector[reg] = c
               THEN CVLINK_NULL ELSE w.create_vector[reg]
    BY DEF Sent
  <2>1. Names(w.rs, A, reg, w.create_vector[reg], FALSE, due) /\ w.create_vector[reg] \in CVLink
    BY <1>1 DEF RenamesOK
  <2> HIDE DEF c, less
  <2>2. CASE w.create_vector[reg] = c
    BY <1>5, <2>0, <2>1, <2>2
  <2>3. CASE w.create_vector[reg] # c
    BY <1>4, <2>0, <2>1, <2>3
  <2> QED
    BY <2>2, <2>3
<1>7. ASSUME NEW reg \in v.use_spec_cv
      PROVE  Names(v.rs, A, reg, v.spec_create_vector[reg], TRUE, less)
  <2>0. reg \in w.use_spec_cv /\ reg \in Regs /\ v.spec_create_vector[reg] =
               IF /\ reg = w.rs[s].onames[k] /\ w.rs[s].spec_mode
                  /\ w.spec_create_vector[reg] = c
               THEN CVLINK_NULL ELSE w.spec_create_vector[reg]
    BY <1>1 DEF Sent
  <2>1. Names(w.rs, A, reg, w.spec_create_vector[reg], TRUE, due)
        /\ w.spec_create_vector[reg] \in CVLink
    BY <1>1, <2>0 DEF RenamesOK
  <2> HIDE DEF c, less
  <2>2. CASE w.spec_create_vector[reg] = c
    BY <1>5, <2>0, <2>1, <2>2
  <2>3. CASE w.spec_create_vector[reg] # c
    BY <1>4, <2>0, <2>1, <2>3
  <2> QED
    BY <2>2, <2>3
<1>8. \A reg \in Regs : reg \in v.use_spec_cv <=> Writes(v.rs, A, reg, TRUE) # {}
  <2>1. v.use_spec_cv = w.use_spec_cv
    BY DEF Sent
  <2>2. \A reg \in Regs : reg \in w.use_spec_cv <=> Writes(w.rs, A, reg, TRUE) # {}
    BY <1>1 DEF RenamesOK
  <2> QED
    BY <1>3, <2>1, <2>2
<1> QED
  BY <1>6, <1>7, <1>8 DEF RenamesOK

\* One output of the completed station is broadcast.
LEMMA BroadcastStep ==
    ASSUME NEW w, NEW A, NEW nd, NEW ev, NEW s, NEW due, NEW k \in 1..2,
           Completing(w, A, nd, ev, s, due)
    PROVE  /\ Completing(Broadcast(w, s, k), A, nd, ev, s, due \ {<<s, k>>})
           /\ Woke(w, Broadcast(w, s, k))
<1> DEFINE v == Broadcast(w, s, k)
           less == due \ {<<s, k>>}
<1>1. /\ w \in Worlds /\ A \subseteq Stations /\ s \in A /\ s \in Stations
      /\ w.rs \in [Stations -> RSType] /\ w.rs[s].completed
      /\ ChainsOK(w.rs, A, {}) /\ Queues(w, A, nd, ev)
      /\ \A x, y \in A : w.rs[x].seq = w.rs[y].seq => x = y
  BY DEF Completing, Worlds
<1>2. CASE w.rs[s].onames[k] = NA
  <2>1. v = w
    BY <1>2 DEF Broadcast
  <2>2. w.rs[s].odep_list[k] = <<>>
    BY <1>1, <1>2 DEF ChainsOK, ChainsClean
  <2>3. RenamesOK(w, A, less)
    <3>1. NA \notin Regs /\ w.use_spec_cv \subseteq Regs
      BY <1>1 DEF Regs, Worlds
    <3>2. \A reg \in Regs : \A d, sp : Names(w.rs, A, reg, d, sp, due) => Names(w.rs, A, reg, d, sp, less)
      <4> SUFFICES ASSUME NEW reg \in Regs, NEW d, NEW sp, Names(w.rs, A, reg, d, sp, due),
                          d # CVLINK_NULL
                   PROVE  <<d.rs, d.odep_num>> # <<s, k>>
        BY DEF Names
      <4>1. w.rs[d.rs].onames[d.odep_num] = reg
        BY DEF Names
      <4> QED
        BY <1>2, <3>1, <4>1
    <3> HIDE DEF less
    <3> QED
      BY <3>1, <3>2 DEF Completing, RenamesOK
  <2>4. Completing(w, A, nd, ev, s, less)
    BY <2>2, <2>3 DEF Completing
  <2>5. Woke(w, w)
    BY DEF Woke, Same
  <2> QED
    BY <2>1, <2>4, <2>5
<1>3. CASE w.rs[s].onames[k] # NA
  <2> DEFINE chain == w.rs[s].odep_list[k]
  <2>1. Sent(w, v, s, k, chain) /\ ReadyOnce(v.rs, v.ready_queue, nd)
        /\ LinksOK(v.rs, A, v.ready_queue)
    <3> HIDE DEF v
    <3> QED
      BY <1>3, BroadcastSends DEF v
  <2> HIDE DEF v
  <2>2. /\ \A x \in Stations, m \in 1..3 :
             Hit(w.rs, chain, Len(chain), x, m) => x \in A /\ ~w.rs[x].idep_ready[m]
    <3>1. /\ \A x \in Stations, m \in 1..3 :
             Hit(w.rs, chain, Len(chain), x, m) <=> \E j \in Nat : ChainAt(w.rs, s, k, j, x, m)
          /\ \A x \in Stations, m \in 1..3, j \in Nat :
             ChainAt(w.rs, s, k, j, x, m) => x \in A /\ ~w.rs[x].idep_ready[m]
      BY <1>1, ChainFresh
    <3> QED
      BY <3>1
  <2>3. ChainsOK(v.rs, A, {})
    BY <1>1, <2>1, SentChains
  <2>4. RenamesOK(v, A, less)
    BY <2>1, SentRenames
  <2> HIDE DEF chain
  <2>5. v \in Worlds /\ v.rs \in [Stations -> RSType] /\ v.panics = w.panics
    BY <2>1 DEF Sent, Worlds
  <2>6. ASSUME NEW x \in Stations
        PROVE  /\ Same(v.rs[x], w.rs[x])
               /\ \A m \in 1..3 : w.rs[x].idep_ready[m] => v.rs[x].idep_ready[m]
               /\ v.rs[x].queued => w.rs[x].queued \/ (in_LSQ(x) => Store(w.rs[x]))
               /\ v.rs[x].queued => \/ w.rs[x].queued
                                    \/ OPERANDS_READY(v.rs[x]) /\ ~w.rs[x].issued
    <3>1. StatusOK(w.rs)
      BY <1>1 DEF Queues
    <3>2. (\E m \in 1..3 : Hit(w.rs, chain, Len(chain), x, m)) => ~w.rs[x].issued
      BY <2>2, <3>1 DEF StatusOK, OPERANDS_READY
    <3> QED
      BY <2>1, <3>2 DEF Sent
  <2>7. Woke(w, v)
    BY <2>5, <2>6 DEF Woke
  <2>8. ASSUME NEW x \in Stations \ A PROVE v.rs[x] = w.rs[x]
    <3>1. v.rs[x] \in RSType /\ w.rs[x] \in RSType /\ x # s
      BY <1>1, <2>5
    <3>2. \A m \in 1..3 : ~Hit(w.rs, chain, Len(chain), x, m)
      BY <2>2
    <3>3. /\ \A m \in 1..3 : v.rs[x].idep_ready[m] <=> w.rs[x].idep_ready[m]
          /\ v.rs[x].queued <=> w.rs[x].queued
          /\ \A o \in 1..2 : v.rs[x].odep_list[o] = w.rs[x].odep_list[o]
      BY <2>1, <3>1, <3>2 DEF Sent
    <3>4. v.rs[x].idep_ready = w.rs[x].idep_ready
      <4>1. v.rs[x].idep_ready \in [1..3 -> BOOLEAN] /\ w.rs[x].idep_ready \in [1..3 -> BOOLEAN]
        BY <3>1 DEF RSType
      <4>2. \A m \in 1..3 : v.rs[x].idep_ready[m] = w.rs[x].idep_ready[m]
        BY <3>3, <4>1
      <4> QED
        BY <4>1, <4>2
    <3>5. v.rs[x].odep_list = w.rs[x].odep_list
      <4>1. v.rs[x].odep_list \in [1..2 -> Seq(OLink)] /\ w.rs[x].odep_list \in [1..2 -> Seq(OLink)]
        BY <3>1 DEF RSType
      <4> QED
        BY <3>3, <4>1
    <3>6. v.rs[x].queued = w.rs[x].queued
      <4>1. v.rs[x].queued \in BOOLEAN /\ w.rs[x].queued \in BOOLEAN
        BY <3>1 DEF RSType
      <4> QED
        BY <3>3, <4>1
    <3>7. Kept(v.rs[x], w.rs[x])
      BY <2>6, <3>6 DEF Kept, Same
    <3> QED
      BY <3>1, <3>4, <3>5, <3>7, SameStation
  <2>9. \A x \in Stations : /\ v.rs[x].tag = w.rs[x].tag /\ v.rs[x].seq = w.rs[x].seq
                            /\ v.rs[x].issued = w.rs[x].issued
                            /\ v.rs[x].completed = w.rs[x].completed
    BY <2>6 DEF Same
  <2>10. Queues(v, A, nd, ev)
    <3>1. \A l \in RLink : l.rs \in Stations
      BY DEF RLink
    <3>2. \A l \in Event : l.rs \in Stations
      BY DEF Event
    <3>3. /\ nd \in Seq(RLink) /\ ev \in Seq(Event) /\ LinksOK(w.rs, A, nd)
          /\ LinksOK(w.rs, A, ev) /\ EventOnce(w.rs, ev) /\ StatusOK(w.rs)
      BY <1>1 DEF Queues
    <3>4. LinksOK(v.rs, A, nd)
      BY <2>9, <3>1, <3>3, LinksGrow
    <3>5. LinksOK(v.rs, A, ev)
      BY <2>9, <3>2, <3>3, LinksGrow
    <3>6. EventOnce(v.rs, ev)
      BY <2>9, <3>3 DEF EventOnce, Ref
    <3>7. StatusOK(v.rs)
      <4> SUFFICES ASSUME NEW x \in Stations
                   PROVE  /\ v.rs[x].queued => OPERANDS_READY(v.rs[x]) /\ ~v.rs[x].issued
                          /\ v.rs[x].issued => OPERANDS_READY(v.rs[x])
                          /\ v.rs[x].completed => v.rs[x].issued
        BY DEF StatusOK
      <4>1. OPERANDS_READY(w.rs[x]) => OPERANDS_READY(v.rs[x])
        BY <2>6 DEF OPERANDS_READY
      <4>2. /\ w.rs[x].queued => OPERANDS_READY(w.rs[x]) /\ ~w.rs[x].issued
            /\ w.rs[x].issued => OPERANDS_READY(w.rs[x])
            /\ w.rs[x].completed => w.rs[x].issued
        BY <3>3 DEF StatusOK
      <4> QED
        BY <2>6, <2>9, <4>1, <4>2
    <3> QED
      BY <2>1, <3>3, <3>4, <3>5, <3>6, <3>7 DEF Queues
  <2>11. ASSUME NEW p \in Stations, NEW o \in 1..2, v.rs[p].completed, <<p, o>> \notin less
         PROVE  v.rs[p].odep_list[o] = <<>>
    <3>1. v.rs[p].odep_list[o] = IF p = s /\ o = k THEN <<>> ELSE w.rs[p].odep_list[o]
      BY <2>1 DEF Sent
    <3>2. w.rs[p].completed
      BY <2>9, <2>11
    <3>3. ~(p = s /\ o = k) => <<p, o>> \notin due
      BY <2>11
    <3> QED
      BY <3>1, <3>2, <3>3 DEF Completing
  <2>12. Completing(v, A, nd, ev, s, less)
    <3>1. v.rs[s].completed
      BY <1>1, <2>9
    <3>2. \A x, y \in A : v.rs[x].seq = v.rs[y].seq => x = y
      BY <1>1, <2>9
    <3>3. \A x \in Stations \ A : Freed(v.rs[x])
      BY <2>8 DEF Completing
    <3> HIDE DEF less
    <3> QED
      BY <1>1, <2>3, <2>4, <2>5, <2>10, <2>11, <3>1, <3>2, <3>3 DEF Completing
  <2> QED
    BY <2>7, <2>12 DEF v
<1> QED
  BY <1>2, <1>3

\* ruu_writeback() of a station whose event has come, up to a misprediction:
\* it is complete, and both outputs are broadcast.
LEMMA CompleteEffect ==
    ASSUME NEW w, NEW A, NEW nd, NEW ev, NEW s,
           Completing(w, A, nd, ev, s, {s} \X (1..2))
    PROVE  /\ Core(Broadcast(Broadcast(w, s, 1), s, 2), A, nd, ev)
           /\ Woke(w, Broadcast(Broadcast(w, s, 1), s, 2))
<1> DEFINE d1 == {s} \X (1..2)
           d2 == d1 \ {<<s, 1>>}
           u == Broadcast(w, s, 1)
           v == Broadcast(u, s, 2)
<1>1. d2 \ {<<s, 2>>} = {} /\ 1 \in 1..2 /\ 2 \in 1..2
  OBVIOUS
<1>2. Completing(u, A, nd, ev, s, d2) /\ Woke(w, u)
  <2> HIDE DEF d1
  <2> QED
    BY <1>1, BroadcastStep DEF d1
<1> HIDE DEF u
<1>3. Completing(v, A, nd, ev, s, d2 \ {<<s, 2>>}) /\ Woke(u, v)
  <2> HIDE DEF d2
  <2> QED
    BY <1>1, <1>2, BroadcastStep
<1>4. Completing(v, A, nd, ev, s, {})
  BY <1>1, <1>3
<1> HIDE DEF v
<1>5. Core(v, A, nd, ev)
  <2>1. Structure(v, A)
    BY <1>4 DEF Completing, Structure, ChainsDone
  <2> QED
    BY <1>4, <2>1 DEF Completing, Core
<1>6. Woke(w, v)
  <2> SUFFICES ASSUME NEW x \in Stations
               PROVE  /\ Same(v.rs[x], w.rs[x])
                      /\ \A k \in 1..3 : w.rs[x].idep_ready[k] => v.rs[x].idep_ready[k]
                      /\ v.rs[x].queued => w.rs[x].queued \/ (in_LSQ(x) => Store(w.rs[x]))
    BY <1>2, <1>3 DEF Woke
  <2>1. /\ Same(u.rs[x], w.rs[x])
        /\ \A k \in 1..3 : w.rs[x].idep_ready[k] => u.rs[x].idep_ready[k]
        /\ u.rs[x].queued => w.rs[x].queued \/ (in_LSQ(x) => Store(w.rs[x]))
    BY <1>2 DEF Woke
  <2>2. /\ Same(v.rs[x], u.rs[x])
        /\ \A k \in 1..3 : u.rs[x].idep_ready[k] => v.rs[x].idep_ready[k]
        /\ v.rs[x].queued => u.rs[x].queued \/ (in_LSQ(x) => Store(u.rs[x]))
    BY <1>3 DEF Woke
  <2>3. Same(v.rs[x], w.rs[x]) /\ (Store(u.rs[x]) <=> Store(w.rs[x]))
    BY <2>1, <2>2 DEF Same, Store
  <2> QED
    BY <2>1, <2>2, <2>3
<1> QED
  BY <1>5, <1>6 DEF u, v

-----------------------------------------------------------------------------
\* v is w with the stations "gone" freed and their tags changed.
Freeing(w, v, A, gone) ==
    /\ v \in Worlds /\ gone \subseteq A
    /\ v.ready_queue = w.ready_queue
    /\ \A x \in Stations : v.rs[x] = IF x \in gone THEN Squashed(w.rs[x]) ELSE w.rs[x]

\* A station with another tag is a station.
LEMMA Retag ==
    ASSUME NEW b \in RSType, NEW n \in Nat
    PROVE  [b EXCEPT !.tag = n] \in RSType
BY DEF RSType

\* What a freed station looks like.
LEMMA SquashedFields ==
    ASSUME NEW r \in RSType
    PROVE  /\ Freed(Squashed(r)) /\ Squashed(r).tag = r.tag + 1
           /\ Squashed(r) \in RSType
           /\ Squashed(r).queued = FALSE /\ Squashed(r).issued = FALSE
           /\ Squashed(r).completed = FALSE /\ Squashed(r).kind = NA
           /\ Squashed(r).odep_list[1] = <<>> /\ Squashed(r).odep_list[2] = <<>>
<1>1. r.tag \in Nat
  BY DEF RSType
<1>2. Squashed(r) \in RSType
  <2>1. PICK n \in Nat : n = r.tag + 1
    BY <1>1
  <2>2. PICK b : b = Blank
    OBVIOUS
  <2>3. b \in RSType
    BY <2>2, BlankType
  <2>4. [b EXCEPT !.tag = n] \in RSType
    BY <2>1, <2>3, Retag
  <2> QED
    BY <2>1, <2>2, <2>4 DEF Squashed
<1>3. Squashed(r).tag = r.tag + 1
  BY DEF Squashed, Blank
<1>4. Freed(Squashed(r))
  BY <1>3 DEF Freed, Squashed
<1> QED
  BY <1>2, <1>3, <1>4 DEF Squashed, Blank

\* A list of links, before the stations "gone" are freed and after.
Listed(w, A, q) ==
    /\ \A k \in DOMAIN q : q[k].rs \in Stations /\ q[k].tag \in Nat
    /\ LinksOK(w.rs, A, q)
Unlisted(w, v, A, gone, q) ==
    /\ LinksOK(v.rs, A \ gone, q)
    /\ \A x \in Stations, k \in DOMAIN q :
          Ref(v.rs, q, k, x) <=> Ref(w.rs, q, k, x) /\ x \notin gone

\* No link to a freed station is valid any more.
LEMMA FreeLinks ==
    ASSUME NEW w, NEW v, NEW A, NEW gone, NEW q, w \in Worlds, A \subseteq Stations,
           Freeing(w, v, A, gone), Listed(w, A, q)
    PROVE  Unlisted(w, v, A, gone, q)
<1>1. w.rs \in [Stations -> RSType] /\ gone \subseteq A
  BY DEF Worlds, Freeing
<1>2. /\ \A k \in DOMAIN q : q[k].rs \in Stations /\ q[k].tag \in Nat
      /\ LinksOK(w.rs, A, q)
  BY DEF Listed
<1>3. \A x \in Stations : /\ w.rs[x].tag \in Nat
                          /\ v.rs[x].tag = IF x \in gone THEN w.rs[x].tag + 1 ELSE w.rs[x].tag
  <2> SUFFICES ASSUME NEW x \in Stations
               PROVE  /\ w.rs[x].tag \in Nat
                      /\ v.rs[x].tag = IF x \in gone THEN w.rs[x].tag + 1 ELSE w.rs[x].tag
    OBVIOUS
  <2>1. w.rs[x] \in RSType
    BY <1>1
  <2> QED
    BY <2>1, SquashedFields DEF Freeing, RSType
<1>4. \A k \in DOMAIN q : /\ q[k].rs \in Stations /\ q[k].tag \in Nat
                          /\ \/ q[k].tag < w.rs[q[k].rs].tag
                             \/ q[k].tag = w.rs[q[k].rs].tag /\ q[k].rs \in A
  BY <1>2 DEF LinksOK, LinkOK
<1>5. LinksOK(v.rs, A \ gone, q)
  <2> SUFFICES ASSUME NEW k \in DOMAIN q PROVE LinkOK(v.rs, A \ gone, q[k])
    BY DEF LinksOK
  <2> DEFINE l == q[k]
  <2>1. /\ l.rs \in Stations /\ l.tag \in Nat
        /\ \/ l.tag < w.rs[l.rs].tag
           \/ l.tag = w.rs[l.rs].tag /\ l.rs \in A
    BY <1>4
  <2> HIDE DEF l
  <2>2. LinkOK(v.rs, A \ gone, l)
    BY <1>3, <2>1 DEF LinkOK
  <2> QED
    BY <2>2 DEF l
<1>6. ASSUME NEW x \in Stations, NEW k \in DOMAIN q
      PROVE  Ref(v.rs, q, k, x) <=> Ref(w.rs, q, k, x) /\ x \notin gone
  <2> DEFINE l == q[k]
  <2>1. /\ l.rs \in Stations /\ l.tag \in Nat
        /\ \/ l.tag < w.rs[l.rs].tag
           \/ l.tag = w.rs[l.rs].tag /\ l.rs \in A
    BY <1>4
  <2>2. (Ref(v.rs, q, k, x) <=> l.rs = x /\ l.tag = v.rs[x].tag)
        /\ (Ref(w.rs, q, k, x) <=> l.rs = x /\ l.tag = w.rs[x].tag)
    BY DEF Ref
  <2> HIDE DEF l
  <2> QED
    BY <1>3, <2>1, <2>2
<1> QED
  BY <1>5, <1>6 DEF Unlisted

\* The queues still agree.
LEMMA FreeQueues ==
    ASSUME NEW w \in Worlds, NEW v, NEW A \in SUBSET Stations, NEW gone, NEW nd, NEW ev,
           Freeing(w, v, A, gone), Queues(w, A, nd, ev)
    PROVE  Queues(v, A \ gone, nd, ev)
<1>1. /\ nd \in Seq(RLink) /\ ev \in Seq(Event) /\ w.ready_queue \in Seq(RLink)
      /\ LinksOK(w.rs, A, w.ready_queue) /\ LinksOK(w.rs, A, nd) /\ LinksOK(w.rs, A, ev)
      /\ ReadyOnce(w.rs, w.ready_queue, nd) /\ EventOnce(w.rs, ev) /\ StatusOK(w.rs)
      /\ v.ready_queue = w.ready_queue /\ w.rs \in [Stations -> RSType]
  BY DEF Queues, Freeing, Worlds
<1>2. /\ Listed(w, A, w.ready_queue) /\ Listed(w, A, nd) /\ Listed(w, A, ev)
  <2>1. \A q : q \in Seq(RLink) => \A k \in DOMAIN q : q[k] \in RLink
    OBVIOUS
  <2>2. \A q : q \in Seq(Event) => \A k \in DOMAIN q : q[k] \in Event
    OBVIOUS
  <2>3. /\ \A l \in RLink : l.rs \in Stations /\ l.tag \in Nat
        /\ \A l \in Event : l.rs \in Stations /\ l.tag \in Nat
    BY DEF RLink, Event
  <2> QED
    BY <1>1, <2>1, <2>2, <2>3 DEF Listed
<1>a. A \subseteq Stations
  OBVIOUS
<1>3. /\ LinksOK(v.rs, A \ gone, w.ready_queue)
      /\ \A x \in Stations, k \in DOMAIN w.ready_queue :
            Ref(v.rs, w.ready_queue, k, x) <=> Ref(w.rs, w.ready_queue, k, x) /\ x \notin gone
  <2>1. PICK q : q = w.ready_queue
    OBVIOUS
  <2>2. Unlisted(w, v, A, gone, q)
    BY <1>2, <1>a, <2>1, FreeLinks
  <2> QED
    BY <2>1, <2>2 DEF Unlisted
<1>4. /\ LinksOK(v.rs, A \ gone, nd)
      /\ \A x \in Stations, k \in DOMAIN nd :
            Ref(v.rs, nd, k, x) <=> Ref(w.rs, nd, k, x) /\ x \notin gone
  BY <1>2, <1>a, FreeLinks DEF Unlisted
<1>5. /\ LinksOK(v.rs, A \ gone, ev)
      /\ \A x \in Stations, k \in DOMAIN ev :
            Ref(v.rs, ev, k, x) <=> Ref(w.rs, ev, k, x) /\ x \notin gone
  BY <1>2, <1>a, FreeLinks DEF Unlisted
<1>6. \A x \in Stations : IF x \in gone
                          THEN /\ v.rs[x].queued = FALSE /\ v.rs[x].issued = FALSE
                               /\ v.rs[x].completed = FALSE
                          ELSE v.rs[x] = w.rs[x]
  <2> SUFFICES ASSUME NEW x \in Stations, x \in gone
               PROVE  v.rs[x].queued = FALSE /\ v.rs[x].issued = FALSE /\ v.rs[x].completed = FALSE
    BY DEF Freeing
  <2>1. w.rs[x] \in RSType /\ v.rs[x] = Squashed(w.rs[x])
    BY <1>1 DEF Freeing
  <2> QED
    BY <2>1, SquashedFields
<1>7. ReadyOnce(v.rs, w.ready_queue, nd)
  <2> SUFFICES ASSUME NEW s \in Stations
        PROVE  /\ \A j, k \in DOMAIN w.ready_queue : Ref(v.rs, w.ready_queue, j, s) /\ Ref(v.rs, w.ready_queue, k, s) => j = k
               /\ \A j, k \in DOMAIN nd : Ref(v.rs, nd, j, s) /\ Ref(v.rs, nd, k, s) => j = k
               /\ \A j \in DOMAIN w.ready_queue : \A k \in DOMAIN nd :
                     ~(Ref(v.rs, w.ready_queue, j, s) /\ Ref(v.rs, nd, k, s))
               /\ v.rs[s].queued <=> \/ \E k \in DOMAIN w.ready_queue : Ref(v.rs, w.ready_queue, k, s)
                                     \/ \E k \in DOMAIN nd : Ref(v.rs, nd, k, s)
    BY DEF ReadyOnce
  <2>1. /\ \A j, k \in DOMAIN w.ready_queue : Ref(w.rs, w.ready_queue, j, s) /\ Ref(w.rs, w.ready_queue, k, s) => j = k
        /\ \A j, k \in DOMAIN nd : Ref(w.rs, nd, j, s) /\ Ref(w.rs, nd, k, s) => j = k
        /\ \A j \in DOMAIN w.ready_queue : \A k \in DOMAIN nd :
              ~(Ref(w.rs, w.ready_queue, j, s) /\ Ref(w.rs, nd, k, s))
        /\ w.rs[s].queued <=> \/ \E k \in DOMAIN w.ready_queue : Ref(w.rs, w.ready_queue, k, s)
                              \/ \E k \in DOMAIN nd : Ref(w.rs, nd, k, s)
    BY <1>1 DEF ReadyOnce
  <2> QED
    BY <1>3, <1>4, <1>6, <2>1
<1>8. EventOnce(v.rs, ev)
  <2> SUFFICES ASSUME NEW s \in Stations
        PROVE  /\ \A j, k \in DOMAIN ev : Ref(v.rs, ev, j, s) /\ Ref(v.rs, ev, k, s) => j = k
               /\ v.rs[s].issued /\ ~v.rs[s].completed <=> \E k \in DOMAIN ev : Ref(v.rs, ev, k, s)
    BY DEF EventOnce
  <2>1. /\ \A j, k \in DOMAIN ev : Ref(w.rs, ev, j, s) /\ Ref(w.rs, ev, k, s) => j = k
        /\ w.rs[s].issued /\ ~w.rs[s].completed <=> \E k \in DOMAIN ev : Ref(w.rs, ev, k, s)
    BY <1>1 DEF EventOnce
  <2> QED
    BY <1>5, <1>6, <2>1
<1>9. StatusOK(v.rs)
  BY <1>1, <1>6 DEF StatusOK
<1> QED
  BY <1>1, <1>3, <1>4, <1>5, <1>7, <1>8, <1>9 DEF Queues

\* Nothing that stays waits for a result of those that go.
LEMMA FreeChains ==
    ASSUME NEW w \in Worlds, NEW v, NEW A \in SUBSET Stations, NEW gone,
           Freeing(w, v, A, gone), ChainsOK(w.rs, A, {}), ChainsDone(w.rs),
           \A p \in gone, x \in A \ gone :
              w.rs[p].seq < w.rs[x].seq => w.rs[p].completed
    PROVE  ChainsOK(v.rs, A \ gone, {}) /\ ChainsDone(v.rs)
<1>1. w.rs \in [Stations -> RSType] /\ gone \subseteq Stations
  BY DEF Worlds, Freeing
<1>2. \A x \in gone : /\ v.rs[x].odep_list[1] = <<>> /\ v.rs[x].odep_list[2] = <<>>
                      /\ v.rs[x].tag = w.rs[x].tag + 1
  <2> SUFFICES ASSUME NEW x \in gone
               PROVE  /\ v.rs[x].odep_list[1] = <<>> /\ v.rs[x].odep_list[2] = <<>>
                      /\ v.rs[x].tag = w.rs[x].tag + 1
    OBVIOUS
  <2>1. w.rs[x] \in RSType /\ v.rs[x] = Squashed(w.rs[x])
    BY <1>1 DEF Freeing
  <2> QED
    BY <2>1, SquashedFields
<1>3. \A x \in Stations : x \notin gone => v.rs[x] = w.rs[x]
  BY DEF Freeing
<1>4. ASSUME NEW p \in Stations, NEW o \in 1..2, NEW j \in Nat, NEW x \in Stations \ gone, NEW m \in 1..3
      PROVE  ChainAt(v.rs, p, o, j, x, m) <=> ChainAt(w.rs, p, o, j, x, m) /\ p \notin gone
  <2>0. v.rs[x] = w.rs[x]
    BY <1>3
  <2>1. CASE p \in gone
    <3>1. v.rs[p].odep_list[o] = <<>>
      BY <1>2, <2>1
    <3>2. DOMAIN v.rs[p].odep_list[o] = {}
      BY <3>1
    <3> QED
      BY <2>1, <3>2 DEF ChainAt
  <2>2. CASE p \notin gone
    BY <1>3, <2>0, <2>2 DEF ChainAt
  <2> QED
    BY <2>1, <2>2
<1>5. ASSUME NEW p \in gone, NEW o \in 1..2, NEW j \in Nat, NEW x \in A \ gone, NEW m \in 1..3
      PROVE  ~ChainAt(w.rs, p, o, j, x, m)
  <2> SUFFICES ASSUME ChainAt(w.rs, p, o, j, x, m) PROVE FALSE
    OBVIOUS
  <2>1. p \in Stations /\ w.rs[p].seq < w.rs[x].seq
    BY <1>1 DEF ChainsOK, ChainsOlder
  <2>2. w.rs[p].completed
    BY <2>1
  <2>3. w.rs[p].odep_list[o] = <<>>
    BY <2>1, <2>2 DEF ChainsDone
  <2>4. DOMAIN w.rs[p].odep_list[o] = {}
    BY <2>3
  <2> QED
    BY <2>4 DEF ChainAt
<1>6. ASSUME NEW p \in Stations, NEW o \in 1..2, NEW j \in Nat, NEW x \in A \ gone, NEW m \in 1..3
      PROVE  ChainAt(v.rs, p, o, j, x, m) <=> ChainAt(w.rs, p, o, j, x, m)
  BY <1>4, <1>5
<1>7. ChainsClean(v.rs, A \ gone)
  <2> SUFFICES ASSUME NEW x \in Stations, NEW o \in 1..2
               PROVE  /\ LinksOK(v.rs, A \ gone, v.rs[x].odep_list[o])
                      /\ v.rs[x].onames[o] = NA => v.rs[x].odep_list[o] = <<>>
    BY DEF ChainsClean
  <2>1. CASE x \in gone
    <3>1. v.rs[x].odep_list[o] = <<>>
      BY <1>2, <2>1
    <3>2. LinksOK(v.rs, A \ gone, <<>>)
      BY DEF LinksOK
    <3> QED
      BY <3>1, <3>2
  <2>2. CASE x \notin gone
    <3> DEFINE q == w.rs[x].odep_list[o]
    <3>1. /\ LinksOK(w.rs, A, q)
          /\ w.rs[x].onames[o] = NA => q = <<>>
          /\ w.rs[x] \in RSType /\ v.rs[x] = w.rs[x]
      BY <1>1, <1>3, <2>2 DEF ChainsOK, ChainsClean
    <3>2. q \in Seq(OLink)
      BY <3>1 DEF RSType
    <3> HIDE DEF q
    <3>3. Listed(w, A, q)
      <4>1. \A k \in DOMAIN q : q[k] \in OLink
        BY <3>2
      <4> QED
        BY <3>1, <4>1 DEF OLink, Listed
    <3>4. LinksOK(v.rs, A \ gone, q)
      BY <3>3, FreeLinks DEF Unlisted
    <3> QED
      BY <3>1, <3>4 DEF q
  <2> QED
    BY <2>1, <2>2
<1>8. ChainsExact(v.rs, A \ gone, {})
  <2> SUFFICES ASSUME NEW x \in A \ gone, NEW m \in 1..3
      PROVE  (\E p \in Stations, o \in 1..2, j \in Nat : ChainAt(v.rs, p, o, j, x, m))
                <=> ~v.rs[x].idep_ready[m] /\ <<x, m>> \notin {}
    BY DEF ChainsExact
  <2>1. (\E p \in Stations, o \in 1..2, j \in Nat : ChainAt(w.rs, p, o, j, x, m))
                <=> ~w.rs[x].idep_ready[m] /\ <<x, m>> \notin {}
    BY DEF ChainsOK, ChainsExact
  <2>2. v.rs[x] = w.rs[x]
    BY <1>3
  <2> QED
    BY <1>6, <2>1, <2>2
<1>9. ChainsOnce(v.rs, A \ gone)
  <2> SUFFICES ASSUME NEW t \in A \ gone, NEW m \in 1..3, NEW p \in Stations, NEW p2 \in Stations,
                      NEW o \in 1..2, NEW o2 \in 1..2, NEW j \in Nat, NEW j2 \in Nat,
                      ChainAt(v.rs, p, o, j, t, m), ChainAt(v.rs, p2, o2, j2, t, m)
               PROVE  p = p2 /\ o = o2 /\ j = j2
    BY DEF ChainsOnce
  <2>1. ChainAt(w.rs, p, o, j, t, m) /\ ChainAt(w.rs, p2, o2, j2, t, m)
    BY <1>6
  <2> QED
    BY <2>1 DEF ChainsOK, ChainsOnce
<1>10. ChainsOlder(v.rs, A \ gone)
  <2> SUFFICES ASSUME NEW t \in A \ gone, NEW m \in 1..3, NEW p \in Stations,
                      NEW o \in 1..2, NEW j \in Nat, ChainAt(v.rs, p, o, j, t, m)
               PROVE  v.rs[p].seq < v.rs[t].seq
    BY DEF ChainsOlder
  <2>1. ChainAt(w.rs, p, o, j, t, m) /\ p \notin gone
    BY <1>4
  <2>2. w.rs[p].seq < w.rs[t].seq
    BY <2>1 DEF ChainsOK, ChainsOlder
  <2> QED
    BY <1>3, <2>1, <2>2
<1>11. ChainsDone(v.rs)
  BY <1>2, <1>3 DEF ChainsDone
<1> QED
  BY <1>7, <1>8, <1>9, <1>10, <1>11 DEF ChainsOK

\* The stations that retire are complete and older than all others, or those
\* that are squashed are all that are speculative.
LEMMA FreeRenames ==
    ASSUME NEW w \in Worlds, NEW v, NEW A \in SUBSET Stations, NEW gone,
           Freeing(w, v, A, gone), RenamesOK(w, A, {}),
           v.create_vector = w.create_vector,
           v.spec_create_vector = w.spec_create_vector,
           \/ /\ v.use_spec_cv = w.use_spec_cv
              /\ \A p \in gone : w.rs[p].completed /\ ~w.rs[p].spec_mode
              /\ \A p \in gone, x \in A \ gone : w.rs[p].seq < w.rs[x].seq
           \/ /\ v.use_spec_cv = {}
              /\ \A x \in A : x \in gone <=> w.rs[x].spec_mode
    PROVE  RenamesOK(v, A \ gone, {})
<1>1. w.rs \in [Stations -> RSType] /\ gone \subseteq A /\ w.use_spec_cv \subseteq Regs
  BY DEF Worlds, Freeing
<1>2. \A x \in A \ gone : v.rs[x] = w.rs[x]
  BY DEF Freeing
<1>3. \A reg, sp : Writes(v.rs, A \ gone, reg, sp) = Writes(w.rs, A, reg, sp) \ gone
  BY <1>2 DEF Writes
<1>4. \A x \in Stations : w.rs[x].seq \in Nat
  BY <1>1 DEF RSType
<1>5. CASE /\ v.use_spec_cv = w.use_spec_cv
           /\ \A p \in gone : w.rs[p].completed /\ ~w.rs[p].spec_mode
           /\ \A p \in gone, x \in A \ gone : w.rs[p].seq < w.rs[x].seq
  <2>1. ASSUME NEW reg, NEW sp, NEW d, Names(w.rs, A, reg, d, sp, {})
        PROVE  Names(v.rs, A \ gone, reg, d, sp, {})
    <3> DEFINE W == Writes(w.rs, A, reg, sp)
    <3>1. W \subseteq A /\ Writes(v.rs, A \ gone, reg, sp) = W \ gone
      BY <1>3 DEF Writes
    <3>2. d # CVLINK_NULL => d.rs \in W \ gone
      BY <1>5, <2>1 DEF Names
    <3>3. ASSUME NEW t \in W \ gone, NEW u \in W, w.rs[u].completed, w.rs[t].seq < w.rs[u].seq
          PROVE  u \notin gone
      <4>1. t \in A \ gone /\ t \in Stations /\ u \in Stations
        BY <3>1
      <4> QED
        BY <1>4, <1>5, <3>3, <4>1
    <3>4. Names(w.rs, A, reg, d, sp, {}) /\ \A x \in W \ gone : v.rs[x] = w.rs[x]
      BY <1>2, <2>1, <3>1
    <3>5. d # CVLINK_NULL =>
             /\ d.rs \in W \ gone /\ d.odep_num \in 1..2
             /\ v.rs[d.rs].completed => <<d.rs, d.odep_num>> \in {}
             /\ v.rs[d.rs].onames[d.odep_num] = reg
             /\ \A t \in W \ gone : v.rs[t].seq <= v.rs[d.rs].seq
      BY <3>2, <3>4 DEF Names
    <3>6. d = CVLINK_NULL =>
             \A t \in W \ gone : ~v.rs[t].completed =>
                \E u \in W \ gone : v.rs[u].completed /\ v.rs[t].seq < v.rs[u].seq
      <4> SUFFICES ASSUME d = CVLINK_NULL, NEW t \in W \ gone, ~v.rs[t].completed
                   PROVE  \E u \in W \ gone : v.rs[u].completed /\ v.rs[t].seq < v.rs[u].seq
        OBVIOUS
      <4>1. PICK u \in W : w.rs[u].completed /\ w.rs[t].seq < w.rs[u].seq
        BY <3>4 DEF Names
      <4>2. u \notin gone
        BY <3>3, <4>1
      <4> QED
        BY <3>4, <4>1, <4>2
    <3> HIDE DEF W
    <3> QED
      BY <3>1, <3>5, <3>6 DEF Names
  <2>2. \A reg : Writes(w.rs, A, reg, TRUE) \ gone = Writes(w.rs, A, reg, TRUE)
    BY <1>5 DEF Writes
  <2>3. \A reg \in Regs : Names(v.rs, A \ gone, reg, v.create_vector[reg], FALSE, {})
    BY <2>1 DEF RenamesOK
  <2>4. \A reg \in v.use_spec_cv : Names(v.rs, A \ gone, reg, v.spec_create_vector[reg], TRUE, {})
    BY <1>5, <2>1 DEF RenamesOK
  <2>5. \A reg \in Regs : reg \in v.use_spec_cv <=> Writes(v.rs, A \ gone, reg, TRUE) # {}
    BY <1>3, <1>5, <2>2 DEF RenamesOK
  <2> QED
    BY <2>3, <2>4, <2>5 DEF RenamesOK
<1>6. CASE /\ v.use_spec_cv = {}
           /\ \A x \in A : x \in gone <=> w.rs[x].spec_mode
  <2>1. \A reg : Writes(w.rs, A, reg, FALSE) \ gone = Writes(w.rs, A, reg, FALSE)
    BY <1>6 DEF Writes
  <2>2. \A reg : Writes(w.rs, A, reg, TRUE) \ gone = {}
    BY <1>6 DEF Writes
  <2>3. ASSUME NEW reg \in Regs
        PROVE  Names(v.rs, A \ gone, reg, v.create_vector[reg], FALSE, {})
    <3> DEFINE W == Writes(w.rs, A, reg, FALSE)
               d == w.create_vector[reg]
    <3>a. Writes(v.rs, A \ gone, reg, FALSE) = W
      BY <1>3, <2>1
    <3>b. W \subseteq A \ gone
      BY <1>6 DEF Writes
    <3>c. Names(w.rs, A, reg, d, FALSE, {}) /\ v.create_vector[reg] = d
      BY DEF RenamesOK
    <3> HIDE DEF W
    <3>1. /\ Writes(v.rs, A \ gone, reg, FALSE) = W /\ W \subseteq A \ gone
          /\ Names(w.rs, A, reg, d, FALSE, {}) /\ v.create_vector[reg] = d
      BY <3>a, <3>b, <3>c
    <3>2. \A x \in W : v.rs[x] = w.rs[x]
      BY <1>2, <3>1
    <3> HIDE DEF d
    <3>d. Writes(w.rs, A, reg, FALSE) = W
      BY DEF W
    <3>3. Names(v.rs, A \ gone, reg, d, FALSE, {})
      BY <3>1, <3>2, <3>d DEF Names
    <3> QED
      BY <3>1, <3>3
  <2>4. \A reg \in Regs : reg \in v.use_spec_cv <=> Writes(v.rs, A \ gone, reg, TRUE) # {}
    BY <1>3, <1>6, <2>2
  <2> QED
    BY <1>6, <2>3, <2>4 DEF RenamesOK
<1> QED
  BY <1>5, <1>6

\* When the stations "gone" may be freed.
MayFree(w, v, A, gone) ==
    /\ v.create_vector = w.create_vector
    /\ v.spec_create_vector = w.spec_create_vector
    /\ \/ /\ v.use_spec_cv = w.use_spec_cv
          /\ \A p \in gone : w.rs[p].completed /\ ~w.rs[p].spec_mode
          /\ \A p \in gone, x \in A \ gone : w.rs[p].seq < w.rs[x].seq
       \/ /\ v.use_spec_cv = {}
          /\ \A x \in A : x \in gone <=> w.rs[x].spec_mode
          /\ \A p \in gone, x \in A \ gone : w.rs[x].seq < w.rs[p].seq

\* Then the rest of the state is right without them.
LEMMA FreeCore ==
    ASSUME NEW w, NEW v, NEW A, NEW gone, NEW nd, NEW ev,
           Core(w, A, nd, ev), Freeing(w, v, A, gone), MayFree(w, v, A, gone)
    PROVE  Core(v, A \ gone, nd, ev)
<1>1. /\ w \in Worlds /\ A \in SUBSET Stations /\ w.rs \in [Stations -> RSType]
      /\ ChainsOK(w.rs, A, {}) /\ ChainsDone(w.rs) /\ RenamesOK(w, A, {})
      /\ Queues(w, A, nd, ev) /\ gone \subseteq A
  BY DEF Core, Structure, Worlds, Freeing
<1>2. Queues(v, A \ gone, nd, ev)
  BY <1>1, FreeQueues
<1>3. ChainsOK(v.rs, A \ gone, {}) /\ ChainsDone(v.rs)
  <2>1. \A x \in Stations : w.rs[x].seq \in Nat
    BY <1>1 DEF RSType
  <2>2. \A p \in gone, x \in A \ gone : w.rs[p].seq < w.rs[x].seq => w.rs[p].completed
    BY <1>1, <2>1 DEF MayFree
  <2> QED
    BY <1>1, <2>2, FreeChains
<1>4. RenamesOK(v, A \ gone, {})
  <2>1. \/ /\ v.use_spec_cv = w.use_spec_cv
           /\ \A p \in gone : w.rs[p].completed /\ ~w.rs[p].spec_mode
           /\ \A p \in gone, x \in A \ gone : w.rs[p].seq < w.rs[x].seq
        \/ /\ v.use_spec_cv = {}
           /\ \A x \in A : x \in gone <=> w.rs[x].spec_mode
    BY DEF MayFree
  <2>2. v.create_vector = w.create_vector /\ v.spec_create_vector = w.spec_create_vector
    BY DEF MayFree
  <2> QED
    BY <1>1, <2>1, <2>2, FreeRenames
<1>5. \A x \in Stations \ (A \ gone) : Freed(v.rs[x])
  <2> SUFFICES ASSUME NEW x \in Stations \ (A \ gone) PROVE Freed(v.rs[x])
    OBVIOUS
  <2>1. CASE x \in gone
    <3>1. w.rs[x] \in RSType /\ v.rs[x] = Squashed(w.rs[x])
      BY <1>1, <2>1 DEF Freeing
    <3> QED
      BY <3>1, SquashedFields
  <2>2. CASE x \notin gone
    BY <2>2 DEF Freeing, Core, Structure
  <2> QED
    BY <2>1, <2>2
<1>6. \A x, y \in A \ gone : v.rs[x].seq = v.rs[y].seq => x = y
  <2>1. \A x \in A \ gone : v.rs[x] = w.rs[x]
    BY <1>1 DEF Freeing
  <2> QED
    BY <2>1 DEF Core, Structure
<1>7. v \in Worlds
  BY DEF Freeing
<1> QED
  BY <1>1, <1>2, <1>3, <1>4, <1>5, <1>6, <1>7 DEF Core, Structure
=============================================================================
