------------------------------- MODULE MCRuu -------------------------------
(***************************************************************************)
(* Instances of Ruu.  MemInsts has what memory ordering depends on: a slow *)
(* producer of r1, loads, and stores of the same address that wait for     *)
(* their data, for their address or for nothing.  PathInsts has what       *)
(* recovery depends on: jumps that wait for and write a register, traps.   *)
(* Branch waits for nothing, so it can be resolved while an older producer *)
(* still runs and holds links to squashed consumers.                       *)
(***************************************************************************)
EXTENDS Ruu

Inst(kind, fu, outs, ins, addr) ==
    [kind |-> kind, fu |-> fu, longlat |-> fu = "IntMULT", outs |-> outs,
     ins |-> ins, addr |-> addr]

Branch == Inst("ctrl",  "IntALU",  <<NA, NA>>,   <<NA, NA, NA>>, 0)
Load   == Inst("load",  "RdPort",  <<"r1", NA>>, <<NA, NA, NA>>, 1)

MemInsts == {
    Branch, Load,
    Inst("alu",   "IntMULT", <<"r1", NA>>, <<"r1", NA, NA>>, 0),
    Inst("store", "WrPort",  <<NA, NA>>,   <<"r1", NA, NA>>, 1),
    Inst("store", "WrPort",  <<NA, NA>>,   <<NA, "r1", NA>>, 1),
    Inst("store", "WrPort",  <<NA, NA>>,   <<NA, NA, NA>>, 1)}

PathInsts == {
    Branch, Load,
    Inst("alu",   "IntALU",  <<"r1", NA>>, <<"r1", NA, NA>>, 0),
    Inst("store", "WrPort",  <<NA, NA>>,   <<"r1", NA, NA>>, 1),
    Inst("ctrl",  "IntALU",  <<"r1", NA>>, <<"r1", NA, NA>>, 0),
    Inst("trap",  NA,        <<NA, NA>>,   <<NA, NA, NA>>, 0)}

\* sim-outorder's defaults, and every setting.
Defaults   == {[include_spec |-> TRUE, inorder_issue |-> FALSE, bugcompat |-> FALSE]}
AllOptions == [include_spec : BOOLEAN, inorder_issue : BOOLEAN, bugcompat : BOOLEAN]

Unit(unit, oplat, issuelat) ==
    [unit |-> unit, oplat |-> oplat, issuelat |-> issuelat]

SmallFuTable == [IntALU  |-> <<Unit("alu", 1, 1)>>,
                 IntMULT |-> <<Unit("mult", 3, 1)>>,
                 RdPort  |-> <<Unit("port", 1, 1)>>,
                 WrPort  |-> <<Unit("port", 1, 1)>>]
=============================================================================
