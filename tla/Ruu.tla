-------------------------------- MODULE Ruu --------------------------------
(***************************************************************************)
(* The out-of-order core of sim-outorder.c: the register update unit (RUU, *)
(* reservation stations and reorder buffer in one), the load/store queue,  *)
(* the create vector that renames registers, the ready and event queues    *)
(* and the functional units, driven by the pipeline stages in the order    *)
(* sim_main() runs them in every cycle: commit, release of the functional  *)
(* units, writeback, LSQ refresh, issue, dispatch.                         *)
(*                                                                         *)
(* The fetch stage is abstracted to its effect on dispatch: in every       *)
(* cycle it offers any instructions of Insts, or none, and a control       *)
(* instruction may turn out to be mispredicted (module FrontEnd models how *)
(* fetch and dispatch agree on the path).  Cache and TLB answers are any   *)
(* latency of LoadLats.  Event times are kept relative to sim_cycle.       *)
(***************************************************************************)
EXTENDS Integers, Sequences, FiniteSets, SequencesExt

CONSTANTS
    RUU_size, LSQ_size,           \* stations of the RUU and of the LSQ
    ruu_decode_width, ruu_issue_width, ruu_commit_width,
    Options,                      \* settings of the command line options
    Insts,                        \* what fetch can offer
    FuTable,                      \* resource class -> list of templates
    LoadLats,                     \* latencies of a data cache/TLB access
    MAX_STD_UNKNOWNS,             \* bound of lsq_refresh()'s array
    MaxSeq                        \* bound on inst_seq

NA   == "NA"                      \* no register
DTMP == "DTMP"                    \* the effective address of a ld/st

ASSUME RuuAssumption ==
    /\ {RUU_size, LSQ_size, ruu_decode_width, ruu_issue_width,
        ruu_commit_width, MAX_STD_UNKNOWNS, MaxSeq} \subseteq Nat \ {0}
    /\ Options \subseteq [include_spec : BOOLEAN, inorder_issue : BOOLEAN,
                          bugcompat : BOOLEAN]
    /\ LoadLats # {} /\ LoadLats \subseteq Nat \ {0}
    /\ "IntALU" \in DOMAIN FuTable
    /\ \A c \in DOMAIN FuTable :
          /\ FuTable[c] # <<>>
          /\ FuTable[c] \in Seq([unit : STRING, oplat : Nat \ {0},
                                 issuelat : Nat \ {0}])
    /\ Insts \subseteq [kind : {"alu", "load", "store", "ctrl", "trap"},
                         fu : DOMAIN FuTable \cup {NA}, longlat : BOOLEAN,
                         outs : [1..2 -> STRING], ins : [1..3 -> STRING],
                         addr : Nat]
    /\ \A i \in Insts :
          /\ i.kind = "store" => i.outs = <<NA, NA>> /\ i.fu # NA
          /\ DTMP \notin {i.ins[k] : k \in 1..3} \cup {i.outs[k] : k \in 1..2}

VARIABLES
    options,                      \* the options of this simulation
    rs,                           \* the stations, of both queues
    RUU_head, RUU_num, LSQ_head, LSQ_num,
    ready_queue, event_queue,     \* lists of RS links
    create_vector, spec_create_vector, use_spec_cv,
    busy,                         \* functional unit -> cycles it is taken
    spec_mode,                    \* on a mispredicted path?
    last_op,                      \* last dispatched op that was not ready
    inst_seq,
    stage,                        \* the pipeline stage that is running
    count,                        \* instructions this stage has handled
    node,                         \* ready links ruu_issue() still visits
    panics,                       \* the panic()s that were reached
    last_commit,                  \* history: seq of the last commit
    served                        \* history: ops each unit began this cycle

machine == <<rs, RUU_head, RUU_num, LSQ_head, LSQ_num>>
queues  == <<ready_queue, event_queue, node>>
renames == <<create_vector, spec_create_vector, use_spec_cv>>
units   == <<busy, served>>
control == <<spec_mode, last_op, inst_seq, options>>
vars    == <<machine, queues, renames, units, control, stage, count,
             panics, last_commit>>

ruu_include_spec  == options.include_spec   \* dispatch wrong paths?
ruu_inorder_issue == options.inorder_issue  \* issue in program order?
bugcompat_mode    == options.bugcompat      \* dispatch before issue?

RUU(i)   == <<"RUU", i % RUU_size>>
LSQ(i)   == <<"LSQ", i % LSQ_size>>
Stations == {RUU(i) : i \in 0..RUU_size-1} \cup {LSQ(i) : i \in 0..LSQ_size-1}
Regs     == ((UNION {{i.ins[k] : k \in 1..3} \cup {i.outs[k] : k \in 1..2} :
                       i \in Insts}) \cup {DTMP}) \ {NA}
Units    == UNION {{FuTable[c][k].unit : k \in DOMAIN FuTable[c]} :
                     c \in DOMAIN FuTable}

\* The stations in use, oldest first.
RuuLive == [k \in 1..RUU_num |-> RUU(RUU_head + k - 1)]
LsqLive == [k \in 1..LSQ_num |-> LSQ(LSQ_head + k - 1)]
Live    == Range(RuuLive) \cup Range(LsqLive)

in_LSQ(s) == s[1] = "LSQ"
OPERANDS_READY(r) == \A k \in 1..3 : r.idep_ready[k]
STORE_ADDR_READY(r) == r.idep_ready[2]

(***************************************************************************)
(* RS links: a reference to a station and the tag it had when the link was *)
(* made; the link is valid while the station still has that tag.  Nothing  *)
(* reads the other fields of a free station before dispatch sets them, so  *)
(* a freed station keeps only its tag and its chains.                      *)
(***************************************************************************)
Blank == [kind |-> NA, fu |-> NA, longlat |-> FALSE, addr |-> 0,
          ea_comp |-> FALSE, recover_inst |-> FALSE, spec_mode |-> FALSE,
          tag |-> 0, seq |-> 0,
          queued |-> FALSE, issued |-> FALSE, completed |-> FALSE,
          onames |-> <<NA, NA>>, odep_list |-> << <<>>, <<>> >>,
          idep_ready |-> <<FALSE, FALSE, FALSE>>]

RSLINK(w, s)       == [rs |-> s, tag |-> w[s].tag]
RSLINK_NULL        == [rs |-> <<>>, tag |-> 0]
RSLINK_VALID(w, l) == l.tag = w[l.rs].tag
Retired(r)  == [Blank EXCEPT !.tag = r.tag + 1, !.odep_list = r.odep_list]
Squashed_KeepsTag(r) == [Blank EXCEPT !.tag = r.tag]
Squashed(r) == [Blank EXCEPT !.tag = r.tag + 1]

CVLINK_NULL == <<>>
CREATE_VECTOR(w, reg) ==
    IF reg \in w.use_spec_cv THEN w.spec_create_vector[reg]
                             ELSE w.create_vector[reg]

\* What the helpers below thread through a stage.
World == [rs |-> rs, ready_queue |-> ready_queue, panics |-> panics,
          create_vector |-> create_vector,
          spec_create_vector |-> spec_create_vector,
          use_spec_cv |-> use_spec_cv]

Panic(w, cond, what) ==
    [w EXCEPT !.panics = IF cond THEN @ \cup {what} ELSE @]

\* Put a link before the i-th one of a list, or at its end if i is 0.
Insert(q, l, i) == InsertAt(q, IF i = 0 THEN Len(q) + 1 ELSE i, l)

\* readyq_enqueue(): memory operations, long latency operations and
\* branches at the head, all others by age.
readyq_enqueue(w, s) ==
    LET r == w.rs[s]
        l == [rs |-> s, tag |-> r.tag, seq |-> r.seq]
        q == w.ready_queue
    IN  [Panic(w, r.queued, "node is already queued") EXCEPT
           !.rs[s].queued = TRUE,
           !.ready_queue = IF in_LSQ(s) \/ r.longlat \/ r.kind = "ctrl"
                           THEN <<l>> \o q
                           ELSE Insert(q, l, SelectInSeq(q, LAMBDA x : x.seq >= r.seq))]

\* The first template of the class whose unit is free, 0 if none is.
res_get(class) ==
    SelectInSeq(FuTable[class], LAMBDA t : busy[t.unit] = 0)

Reserve(t) ==
    /\ busy' = [busy EXCEPT ![t.unit] = t.issuelat]
    /\ served' = [served EXCEPT ![t.unit] = @ + 1]

(***************************************************************************)
(* ruu_commit(): retire the head of the RUU, with the head of the LSQ for  *)
(* a load or store, as long as it is complete and a store finds a port.    *)
(***************************************************************************)
Store(r) == r.kind = "store"

CommitHead == rs[RUU(RUU_head)]
CommitMem  == rs[LSQ(LSQ_head)]

CanCommit ==
    /\ RUU_num > 0 /\ count < ruu_commit_width
    /\ CommitHead.completed
    /\ CommitHead.ea_comp =>
         \/ LSQ_num = 0
         \/ /\ CommitMem.completed
            /\ Store(CommitMem) => res_get(CommitMem.fu) # 0

ruu_commit ==
    /\ stage = "commit" /\ CanCommit
    /\ LET mem == CommitHead.ea_comp
           r   == RUU(RUU_head)
           l   == LSQ(LSQ_head)
           w1  == Panic(World, mem /\ LSQ_num = 0, "RUU out of sync with LSQ")
           w2  == Panic(w1, \E k \in 1..2 : rs[r].odep_list[k] # <<>>,
                        "retired instruction has odeps")
       IN  /\ rs' = [s \in Stations |->
                       IF s = r \/ (mem /\ s = l) THEN Retired(rs[s])
                                                  ELSE rs[s]]
           /\ IF mem /\ LSQ_num > 0
              THEN LSQ_head' = (LSQ_head + 1) % LSQ_size /\ LSQ_num' = LSQ_num - 1
              ELSE UNCHANGED <<LSQ_head, LSQ_num>>
           /\ IF mem /\ LSQ_num > 0 /\ Store(rs[l])
              THEN Reserve(FuTable[rs[l].fu][res_get(rs[l].fu)])
              ELSE UNCHANGED units
           /\ RUU_head' = (RUU_head + 1) % RUU_size
           /\ RUU_num' = RUU_num - 1
           /\ panics' = w2.panics
           /\ last_commit' = rs[r].seq
    /\ count' = count + 1
    /\ UNCHANGED <<queues, renames, control, stage>>

\* ruu_release_fu(), once the commit loop has ended.
ruu_release_fu ==
    /\ stage = "commit" /\ ~CanCommit
    /\ busy' = [u \in Units |-> IF busy[u] > 0 THEN busy[u] - 1 ELSE 0]
    /\ stage' = "writeback" /\ count' = 0
    /\ UNCHANGED <<machine, queues, renames, served, control, panics,
                   last_commit>>

(***************************************************************************)
(* ruu_writeback(): complete the stations whose event has come, recover    *)
(* from a misprediction, and wake up the consumers of the results.         *)
(***************************************************************************)
EventDue == event_queue # <<>> /\ Head(event_queue).when <= 0

\* ruu_recover(): free every station younger than the branch, and as many
\* of the youngest LSQ stations as there are memory operations among them.
Younger_SkipsFirst(b) == {s \in Range(RuuLive) :
                            \E i, j \in 1..RUU_num :
                              RuuLive[i] = b /\ RuuLive[j] = s /\ i + 1 < j}
Younger(b)   == {s \in Range(RuuLive) :
                   \E i, j \in 1..RUU_num :
                       RuuLive[i] = b /\ RuuLive[j] = s /\ i < j}
SquashMem_None(b) == 0
SquashMem(b) == Cardinality({s \in Younger(b) : rs[s].ea_comp})

RecoverPanics(b) ==
    {p \in {"RUU head and tail broken", "RUU and LSQ out of sync",
            "cannot recover unless in speculative mode",
            "mis-predicted load or store"} :
       \/ p = "RUU head and tail broken" /\ b \notin Range(RuuLive)
       \/ p = "RUU and LSQ out of sync" /\ SquashMem(b) > LSQ_num
       \/ p = "cannot recover unless in speculative mode" /\ ~spec_mode
       \/ p = "mis-predicted load or store" /\ in_LSQ(b)}

ruu_recover_KeepsSpecCv(w, b) ==
    LET gone == Younger(b) \cup
                {LsqLive[k] : k \in LSQ_num - SquashMem(b) + 1 .. LSQ_num}
    IN  [w EXCEPT !.rs = [s \in Stations |->
                            IF s \in gone THEN Squashed(@[s]) ELSE @[s]],
                  !.panics = @ \cup RecoverPanics(b)]

ruu_recover(w, b) ==
    LET gone == Younger(b) \cup
                {LsqLive[k] : k \in LSQ_num - SquashMem(b) + 1 .. LSQ_num}
    IN  [w EXCEPT !.rs = [s \in Stations |->
                            IF s \in gone THEN Squashed(@[s]) ELSE @[s]],
                  !.use_spec_cv = {},
                  !.panics = @ \cup RecoverPanics(b)]

\* One link of an output chain: mark the operand ready and queue the
\* consumer when it was the last one (loads wait for lsq_refresh()).
Wake(w, l) ==
    IF ~RSLINK_VALID(w.rs, l) THEN w
    ELSE LET w1 == [Panic(w, w.rs[l.rs].idep_ready[l.opnum],
                          "output dependence already satisfied")
                      EXCEPT !.rs[l.rs].idep_ready[l.opnum] = TRUE]
             r  == w1.rs[l.rs]
         IN  IF OPERANDS_READY(r) /\ (in_LSQ(l.rs) => Store(r))
             THEN readyq_enqueue(w1, l.rs) ELSE w1

\* The whole chain, link after link.
WakeAll(w, chain) ==
    LET walk[n \in 0..Len(chain)] ==
          IF n = 0 THEN w ELSE Wake(walk[n-1], chain[n])
    IN  walk[Len(chain)]

\* A create vector that still names the complete output c for reg names the
\* register file from now on.
Forget(cv, own, reg, c) ==
    IF own /\ cv[reg] = c THEN [cv EXCEPT ![reg] = CVLINK_NULL] ELSE cv

\* Output k of station s: the register file has the value from now on.
Broadcast(w, s, k) ==
    LET r == w.rs[s]
        c == [rs |-> s, odep_num |-> k]
    IN  IF r.onames[k] = NA THEN w
        ELSE [WakeAll(w, r.odep_list[k]) EXCEPT
                !.rs[s].odep_list[k] = <<>>,
                !.spec_create_vector = Forget(@, r.spec_mode, r.onames[k], c),
                !.create_vector = Forget(@, ~r.spec_mode, r.onames[k], c)]

ruu_writeback ==
    /\ stage = "writeback" /\ EventDue
    /\ LET ev == Head(event_queue)
           s  == ev.rs
           r  == rs[s]
           w1 == [Panic(World, ~OPERANDS_READY(r) \/ r.queued \/ ~r.issued
                                 \/ r.completed, "inst completed and !ready")
                    EXCEPT !.rs[s].completed = TRUE]
           w2 == IF r.recover_inst THEN ruu_recover(w1, s) ELSE w1
           w3 == Broadcast(Broadcast(w2, s, 1), s, 2)
       IN  IF ~RSLINK_VALID(rs, ev)
           THEN UNCHANGED <<machine, ready_queue, renames, spec_mode, panics>>
           ELSE /\ rs' = w3.rs
                /\ ready_queue' = w3.ready_queue
                /\ panics' = w3.panics
                /\ create_vector' = w3.create_vector
                /\ spec_create_vector' = w3.spec_create_vector
                /\ use_spec_cv' = w3.use_spec_cv
                /\ IF r.recover_inst
                   THEN /\ RUU_num' = RUU_num - Cardinality(Younger(s))
                        /\ LSQ_num' = LSQ_num - SquashMem(s)
                        /\ spec_mode' = FALSE
                   ELSE UNCHANGED <<RUU_num, LSQ_num, spec_mode>>
                /\ UNCHANGED <<RUU_head, LSQ_head>>
    /\ event_queue' = Tail(event_queue)
    /\ UNCHANGED <<node, units, last_op, inst_seq, options, stage, count,
                   last_commit>>

\* Writeback ends when no event is due.
EndWriteback ==
    /\ stage = "writeback" /\ ~EventDue
    /\ stage' = IF bugcompat_mode THEN "dispatch" ELSE "refresh"
    /\ UNCHANGED <<machine, queues, renames, units, control, count, panics,
                   last_commit>>

(***************************************************************************)
(* lsq_refresh(): queue the loads no older store can conflict with.  The   *)
(* scan stops at a store whose address is unknown; a store that only lacks *)
(* its data blocks the loads of its address until a later store of that    *)
(* address has its data (the entry is then overwritten by address 0).      *)
(***************************************************************************)
Refresh1_IgnoresAddr(a, s) ==
    LET r == a.w.rs[s] IN
    IF /\ r.kind = "load" /\ ~r.queued /\ ~r.issued /\ ~r.completed
       /\ OPERANDS_READY(r)
    THEN [a EXCEPT !.w = readyq_enqueue(@, s)] ELSE a

Refresh1(a, s) ==
    LET r == a.w.rs[s] IN
    IF a.stop THEN a
    ELSE IF Store(r) /\ ~STORE_ADDR_READY(r) THEN [a EXCEPT !.stop = TRUE]
    ELSE IF Store(r) /\ ~OPERANDS_READY(r)
         THEN [a EXCEPT !.w = Panic(@, Len(a.std_unknowns) = MAX_STD_UNKNOWNS,
                                    "STD unknown array overflow"),
                        !.std_unknowns = Append(@, r.addr)]
    ELSE IF Store(r)
         THEN [a EXCEPT !.std_unknowns = [j \in DOMAIN @ |->
                            IF @[j] = r.addr THEN 0 ELSE @[j]]]
    ELSE IF /\ ~r.queued /\ ~r.issued /\ ~r.completed /\ OPERANDS_READY(r)
            /\ \A j \in DOMAIN a.std_unknowns : a.std_unknowns[j] # r.addr
         THEN [a EXCEPT !.w = readyq_enqueue(@, s)]
    ELSE a

RefreshAll(w, q) ==
    LET scan[n \in 0..Len(q)] ==
          IF n = 0 THEN [w |-> w, std_unknowns |-> <<>>, stop |-> FALSE]
          ELSE Refresh1(scan[n-1], q[n])
    IN  scan[Len(q)]

lsq_refresh ==
    /\ stage = "refresh"
    /\ LET a == RefreshAll(World, LsqLive)
       IN  /\ rs' = a.w.rs
           /\ panics' = a.w.panics
           \* ruu_issue() begins by taking the whole ready queue
           /\ node' = a.w.ready_queue /\ ready_queue' = <<>>
    /\ stage' = "issue" /\ count' = 0
    /\ UNCHANGED <<RUU_head, RUU_num, LSQ_head, LSQ_num, event_queue, renames,
                   units, control, last_commit>>

(***************************************************************************)
(* ruu_issue(): visit the ready links; a store completes at once, any      *)
(* other operation needs a functional unit of its class and schedules its  *)
(* writeback, and goes back to the ready queue if there is no unit.        *)
(***************************************************************************)
eventq_queue_event(l, lat) ==
    event_queue' = Insert(event_queue, [rs |-> l.rs, tag |-> l.tag, when |-> lat],
                          SelectInSeq(event_queue, LAMBDA x : x.when >= lat))

\* A load hits in the LSQ, in one cycle if the TLB hits too, when an older
\* store of its address is there.
Forwards(s) ==
    \E i, j \in 1..LSQ_num :
        /\ LsqLive[i] = s /\ j < i
        /\ Store(rs[LsqLive[j]]) /\ rs[LsqLive[j]].addr = rs[s].addr

IssuePanics(r, lat) ==
    Panic(Panic(World, ~OPERANDS_READY(r) \/ ~r.queued \/ r.issued
                         \/ r.completed, "issued inst !ready"),
          lat <= 0, "event occurred in the past").panics

NoUnit(r) == ~Store(r) /\ r.fu # NA /\ res_get(r.fu) = 0

ruu_issue ==
    /\ stage = "issue" /\ node # <<>> /\ count < ruu_issue_width
    /\ node' = Tail(node)
    /\ LET l == Head(node)
           s == l.rs
           r == rs[s]
       IN  \/ /\ ~RSLINK_VALID(rs, l)
              /\ UNCHANGED <<rs, ready_queue, event_queue, units, count, panics>>
           \/ /\ RSLINK_VALID(rs, l) /\ in_LSQ(s) /\ Store(r)
              /\ rs' = [rs EXCEPT ![s].queued = FALSE, ![s].issued = TRUE,
                                  ![s].completed = TRUE]
              /\ panics' = IssuePanics(r, 1)
              /\ count' = count + 1
              /\ UNCHANGED <<ready_queue, event_queue, units>>
           \/ /\ RSLINK_VALID(rs, l) /\ ~Store(r) /\ ~NoUnit(r)
              /\ rs' = [rs EXCEPT ![s].queued = FALSE, ![s].issued = TRUE]
              /\ LET t == FuTable[r.fu][res_get(r.fu)] IN
                 \E lat \in IF r.fu = NA THEN {1}
                            ELSE IF ~in_LSQ(s) THEN {t.oplat}
                            ELSE IF Forwards(s) THEN {1} \cup LoadLats
                            ELSE LoadLats :
                    /\ eventq_queue_event(l, lat)
                    /\ panics' = IssuePanics(r, lat)
              /\ IF r.fu = NA THEN UNCHANGED units
                              ELSE Reserve(FuTable[r.fu][res_get(r.fu)])
              /\ count' = count + 1
              /\ UNCHANGED ready_queue
           \/ /\ RSLINK_VALID(rs, l) /\ NoUnit(r)
              /\ LET w == readyq_enqueue([World EXCEPT !.rs[s].queued = FALSE], s)
                 IN  rs' = w.rs /\ ready_queue' = w.ready_queue
              /\ panics' = IssuePanics(r, 1)
              /\ UNCHANGED <<event_queue, units, count>>
    /\ UNCHANGED <<RUU_head, RUU_num, LSQ_head, LSQ_num, renames, control, stage,
                   last_commit>>

\* sim_main() goes to the next cycle.
NextCycle ==
    /\ stage' = "commit"
    /\ event_queue' = [k \in DOMAIN event_queue |->
                         [event_queue[k] EXCEPT !.when = @ - 1]]
    /\ served' = [u \in Units |-> 0]

Requeue_Drops(w, l) == w

\* The rest of ruu_issue(): links beyond the issue bandwidth are queued again.
Requeue(w, l) ==
    IF RSLINK_VALID(w.rs, l)
    THEN readyq_enqueue([w EXCEPT !.rs[l.rs].queued = FALSE], l.rs) ELSE w

RequeueAll(w, q) ==
    LET put[n \in 0..Len(q)] ==
          IF n = 0 THEN w ELSE Requeue(put[n-1], q[n])
    IN  put[Len(q)]

EndIssue ==
    /\ stage = "issue"
    /\ node = <<>> \/ count >= ruu_issue_width
    /\ LET w == RequeueAll(World, node)
       IN  rs' = w.rs /\ ready_queue' = w.ready_queue /\ panics' = w.panics
    /\ node' = <<>>
    /\ IF bugcompat_mode THEN NextCycle
       ELSE stage' = "dispatch" /\ UNCHANGED <<event_queue, served>>
    /\ count' = 0
    /\ UNCHANGED <<RUU_head, RUU_num, LSQ_head, LSQ_num, renames, busy, control,
                   last_commit>>

(***************************************************************************)
(* ruu_dispatch(): give an instruction a station of the RUU, and one of    *)
(* the LSQ to a load or store, and link its operands to their producers.   *)
(* (A NOP takes no station and changes nothing here.)                      *)
(***************************************************************************)
ruu_link_idep_OneConsumer(w, s, k, name) ==
    LET c == CREATE_VECTOR(w, name) IN
    IF name = NA \/ c = CVLINK_NULL
    THEN [w EXCEPT !.rs[s].idep_ready[k] = TRUE]
    ELSE [w EXCEPT !.rs[s].idep_ready[k] = FALSE,
                   !.rs[c.rs].odep_list[c.odep_num] =
                      <<[rs |-> s, tag |-> w.rs[s].tag, opnum |-> k]>>]

ruu_link_idep(w, s, k, name) ==
    LET c == CREATE_VECTOR(w, name) IN
    IF name = NA \/ c = CVLINK_NULL
    THEN [w EXCEPT !.rs[s].idep_ready[k] = TRUE]
    ELSE [w EXCEPT !.rs[s].idep_ready[k] = FALSE,
                   !.rs[c.rs].odep_list[c.odep_num] =
                      <<[rs |-> s, tag |-> w.rs[s].tag, opnum |-> k]>> \o @]

ruu_install_odep(w, s, k, name) ==
    LET w1 == [w EXCEPT !.rs[s].onames[k] = name]
        c  == [rs |-> s, odep_num |-> k]
    IN  IF name = NA THEN w1
        ELSE IF spec_mode
        THEN [w1 EXCEPT !.rs[s].odep_list[k] = <<>>,
                        !.use_spec_cv = @ \cup {name},
                        !.spec_create_vector[name] = c]
        ELSE [w1 EXCEPT !.rs[s].odep_list[k] = <<>>,
                        !.create_vector[name] = c]

LinkIdeps(w, s, ins) ==
    LET w1 == ruu_link_idep(w, s, 1, ins[1])
        w2 == ruu_link_idep(w1, s, 2, ins[2])
    IN  ruu_link_idep(w2, s, 3, ins[3])
InstallOdeps(w, s, outs) ==
    ruu_install_odep(ruu_install_odep(w, s, 1, outs[1]), s, 2, outs[2])

\* Fill in a station; its tag and its output chains are already set.
Fill(w, s, i, seq) ==
    [w EXCEPT !.rs[s] = [Blank EXCEPT
        !.kind = i.kind, !.fu = i.fu, !.longlat = i.longlat, !.addr = i.addr,
        !.ea_comp = i.kind = "agen", !.spec_mode = spec_mode, !.seq = seq,
        !.tag = w.rs[s].tag, !.odep_list = w.rs[s].odep_list]]

Put(w, s, i, seq, ins, outs) ==
    InstallOdeps(LinkIdeps(Fill(w, s, i, seq), s, ins), s, outs)

QueueIf(w, s, ready) == IF ready THEN readyq_enqueue(w, s) ELSE w

\* A load or store becomes an address computation in the RUU and a memory
\* access in the LSQ that depends on it through DTMP.
DispatchMem(i) ==
    LET r == RUU(RUU_head + RUU_num)
        l == LSQ(LSQ_head + LSQ_num)
        agen == [kind |-> "agen", fu |-> "IntALU", longlat |-> FALSE, addr |-> 0]
        w1 == Put(World, r, agen, inst_seq + 1, <<NA, i.ins[2], i.ins[3]>>,
                  <<DTMP, NA>>)
        w2 == Put(w1, l, i, inst_seq + 2, <<i.ins[1], DTMP, NA>>, i.outs)
        w3 == QueueIf(w2, r, OPERANDS_READY(w2.rs[r]))
    IN  QueueIf(w3, l, i.kind = "store" /\ OPERANDS_READY(w3.rs[l]))

DispatchReg(i, mispredicted) ==
    LET r  == RUU(RUU_head + RUU_num)
        w1 == Put(World, r, i, inst_seq + 1, i.ins, i.outs)
        w2 == QueueIf(w1, r, OPERANDS_READY(w1.rs[r]))
    IN  [w2 EXCEPT !.rs[r].recover_inst = mispredicted]

Mem(i) == i.kind \in {"load", "store"}

CanDispatch_IgnoresRuu(i) ==
    /\ count < ruu_decode_width
    /\ LSQ_num < LSQ_size
    /\ ruu_include_spec \/ ~spec_mode

CanDispatch(i) ==
    /\ count < ruu_decode_width
    /\ RUU_num < RUU_size /\ LSQ_num < LSQ_size
    /\ ruu_include_spec \/ ~spec_mode
    /\ ~(ruu_inorder_issue /\ last_op # RSLINK_NULL
           /\ RSLINK_VALID(rs, last_op) /\ ~OPERANDS_READY(rs[last_op.rs]))
    /\ i.kind = "trap" => RUU_num = 0

ruu_dispatch(i, mispredicted) ==
    /\ stage = "dispatch" /\ CanDispatch(i)
    /\ inst_seq + 2 <= MaxSeq
    /\ mispredicted => i.kind = "ctrl" /\ ~spec_mode
    /\ LET w == IF Mem(i) THEN DispatchMem(i) ELSE DispatchReg(i, mispredicted)
           r == RUU(RUU_head + RUU_num)
           l == LSQ(LSQ_head + LSQ_num)
       IN  /\ rs' = w.rs
           /\ ready_queue' = w.ready_queue
           /\ create_vector' = w.create_vector
           /\ spec_create_vector' = w.spec_create_vector
           /\ use_spec_cv' = w.use_spec_cv
           /\ panics' = Panic(w, i.kind = "trap" /\ spec_mode,
                              "drained and speculative").panics
           /\ last_op' = IF Mem(i) THEN RSLINK(w.rs, l)
                         ELSE IF OPERANDS_READY(w.rs[r]) THEN RSLINK_NULL
                         ELSE RSLINK(w.rs, r)
    /\ RUU_num' = RUU_num + 1
    /\ LSQ_num' = IF Mem(i) THEN LSQ_num + 1 ELSE LSQ_num
    /\ inst_seq' = inst_seq + (IF Mem(i) THEN 2 ELSE 1)
    /\ spec_mode' = (spec_mode \/ mispredicted)
    /\ count' = count + 1
    /\ UNCHANGED <<RUU_head, LSQ_head, event_queue, node, units, options, stage,
                   last_commit>>

\* The fetch queue is empty, or nothing (more) can be dispatched.
EndDispatch ==
    /\ stage = "dispatch"
    /\ IF bugcompat_mode
       THEN stage' = "refresh" /\ UNCHANGED <<event_queue, served>>
       ELSE NextCycle
    /\ count' = 0
    /\ UNCHANGED <<machine, ready_queue, node, renames, busy, control, panics,
                   last_commit>>

-----------------------------------------------------------------------------
Init ==
    /\ options \in Options
    /\ rs = [s \in Stations |-> Blank]
    /\ RUU_head = 0 /\ RUU_num = 0 /\ LSQ_head = 0 /\ LSQ_num = 0
    /\ ready_queue = <<>> /\ event_queue = <<>> /\ node = <<>>
    /\ create_vector = [r \in Regs |-> CVLINK_NULL]
    /\ spec_create_vector = [r \in Regs |-> CVLINK_NULL]
    /\ use_spec_cv = {}
    /\ busy = [u \in Units |-> 0] /\ served = [u \in Units |-> 0]
    /\ spec_mode = FALSE /\ last_op = RSLINK_NULL /\ inst_seq = 0
    /\ stage = "commit" /\ count = 0
    /\ panics = {} /\ last_commit = 0

\* What sim_main()'s loop does next, apart from dispatching what fetch offers.
Stages ==
    \/ ruu_commit
    \/ ruu_release_fu
    \/ ruu_writeback
    \/ EndWriteback
    \/ lsq_refresh
    \/ ruu_issue
    \/ EndIssue
    \/ EndDispatch

\* A panic() ends the simulator.
Next ==
    /\ panics = {}
    /\ \/ Stages
       \/ \E i \in Insts, mispredicted \in BOOLEAN : ruu_dispatch(i, mispredicted)

\* sim_main() never stops between two stages; nothing says that fetch ever
\* offers another instruction.
Spec == Init /\ [][Next]_vars /\ WF_vars(Stages)

-----------------------------------------------------------------------------
Youngest(S) == CHOOSE s \in S : \A t \in S : rs[t].seq <= rs[s].seq

\* The heads and counts of the RUU and the LSQ keep their ranges, and exactly
\* the stations between head and tail hold instructions.
TypeOK ==
    /\ RUU_head \in 0..RUU_size-1 /\ RUU_num \in 0..RUU_size
    /\ LSQ_head \in 0..LSQ_size-1 /\ LSQ_num \in 0..LSQ_size
    /\ \A s \in Stations : (rs[s].kind # NA) <=> s \in Live
    /\ \A r \in Regs : create_vector[r] # CVLINK_NULL =>
                          create_vector[r].rs \in Stations
    /\ \A u \in Units : busy[u] \in Nat

\* No panic() of the pipeline stages is reachable.
NoPanic == panics = {}

\* The RUU and the LSQ are each in program order, and the LSQ entries are
\* exactly the memory halves of the RUU's address computations (so the k-th
\* of one belongs to the k-th of the other), through commits, squashes and
\* reuse.
InSync ==
    LET Halves(r, l) == rs[r].ea_comp /\ rs[l].seq = rs[r].seq + 1
    IN  /\ \A l \in Range(LsqLive) : \E r \in Range(RuuLive) : Halves(r, l)
        /\ \A r \in Range(RuuLive) :
              rs[r].ea_comp => \E l \in Range(LsqLive) : Halves(r, l)
        /\ \A j, k \in 1..RUU_num : j < k => rs[RuuLive[j]].seq < rs[RuuLive[k]].seq
        /\ \A j, k \in 1..LSQ_num : j < k => rs[LsqLive[j]].seq < rs[LsqLive[k]].seq

\* Renaming: whatever squashes and completions came before, the create
\* vector sends a consumer of a register to the youngest instruction in
\* flight that writes it, or to the register file once that one completed.
RenameCorrect ==
    \A reg \in Regs :
        LET W == {s \in Live : \E k \in 1..2 : rs[s].onames[k] = reg}
            c == CREATE_VECTOR(World, reg)
        IN  IF W = {} \/ rs[Youngest(W)].completed
            THEN c = CVLINK_NULL
            ELSE /\ c # CVLINK_NULL /\ c.rs = Youngest(W)
                 /\ rs[c.rs].onames[c.odep_num] = reg

\* The places <<producer, output, position>> of the links to operand k of s.
LinksTo(s, k) ==
    LET l == [rs |-> s, tag |-> rs[s].tag, opnum |-> k]
        At(p, o) == {j \in DOMAIN rs[p].odep_list[o] : rs[p].odep_list[o][j] = l}
    IN  UNION {{<<p, o, j>> : j \in At(p, o)} : p \in Live, o \in 1..2}

\* Wake-up: an operand that is not ready has exactly one valid link, on an
\* output chain of an older instruction that has still to complete; no
\* wake-up is lost and none reaches an instruction that reuses a station.
WakeupExact ==
    \A s \in Live, k \in 1..3 :
        IF rs[s].idep_ready[k] THEN LinksTo(s, k) = {}
        ELSE /\ Cardinality(LinksTo(s, k)) = 1
             /\ \A x \in LinksTo(s, k) : /\ ~rs[x[1]].completed
                                         /\ rs[x[1]].seq < rs[s].seq

\* The status bits and the two queues agree: a station is queued iff it has
\* one valid ready link, and executing iff it has one valid event.
QueuesExact ==
    \A s \in Live :
        LET Refs(q) == {k \in DOMAIN q : q[k].rs = s /\ RSLINK_VALID(rs, q[k])}
        IN  /\ Cardinality(Refs(ready_queue)) + Cardinality(Refs(node))
                  = IF rs[s].queued THEN 1 ELSE 0
            /\ Cardinality(Refs(event_queue))
                  = IF rs[s].issued /\ ~rs[s].completed THEN 1 ELSE 0

\* Speculation: in spec_mode there is one unresolved mispredicted branch,
\* and exactly the instructions younger than it are speculative.
SpecBoundary ==
    LET B == {s \in Live : rs[s].recover_inst /\ ~rs[s].completed}
    IN  /\ Cardinality(B) = IF spec_mode THEN 1 ELSE 0
        /\ \A s \in Live : rs[s].spec_mode <=> \E b \in B : rs[s].seq > rs[b].seq

\* Memory order: a load executes only when every older store in the LSQ
\* knows its address and the store it reads from, the youngest older one of
\* its address, has its data.
LoadAfterStore ==
    \A i \in 1..LSQ_num :
        LET l == rs[LsqLive[i]]
            older == {LsqLive[j] : j \in 1..i-1}
            S == {s \in older : Store(rs[s]) /\ rs[s].addr = l.addr}
        IN  l.kind = "load" /\ (l.issued \/ l.queued) =>
              /\ \A s \in older : Store(rs[s]) => STORE_ADDR_READY(rs[s])
              /\ S # {} => OPERANDS_READY(rs[Youngest(S)])

\* The correct path's instructions in flight, oldest first: they are the
\* entries of the RUU up to the branch that began the speculation.
CorrectPath ==
    LET own == {k \in 1..RUU_num : ~rs[RuuLive[k]].spec_mode}
    IN  [k \in 1..Cardinality(own) |-> rs[RuuLive[k]].seq]

\* What an architect sees of the core: the correct path's instructions in
\* flight and the last one committed.
Architected == INSTANCE InOrder WITH
    Seqs <- 1..MaxSeq, window <- CorrectPath, retired <- last_commit

\* The core implements in-order retirement: the correct path's instructions
\* commit in program order, each once, wrong-path ones never, and every one
\* dispatched does commit.
RetiresInOrder == Architected!Spec

\* resource.h: a unit takes no other operation before issuelat cycles have
\* passed, so at most one in a cycle.
OneOpPerCycle == \A u \in Units : served[u] <= 1
=============================================================================
