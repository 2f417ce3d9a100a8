----------------------------- MODULE MCFrontEnd -----------------------------
(***************************************************************************)
(* Instances of FrontEnd.  The program is a loop that calls a function:    *)
(* a conditional branch over the call, the call, a jump back, and the      *)
(* return.  Addresses 0 to 2 are not text.                                 *)
(***************************************************************************)
EXTENDS FrontEnd

Inst(kind, target) == [kind |-> kind, target |-> target]

LoopText == 3..6
LoopCode == [pc \in LoopText |->
               CASE pc = 3 -> Inst("cond", 5)
                 [] pc = 4 -> Inst("call", 6)
                 [] pc = 5 -> Inst("jump", 3)
                 [] pc = 6 -> Inst("return", 3)]

Setting(class, spec_update, include_spec) ==
    [class |-> class, spec_update |-> spec_update, include_spec |-> include_spec]

\* The default, the other places of the predictor update, and the static
\* and perfect predictors.
SomeOptions == {Setting("stateful", "CT", TRUE), Setting("stateful", "WB", TRUE),
                Setting("stateful", "ID", FALSE), Setting("taken", "CT", TRUE),
                Setting("nottaken", "CT", FALSE), Setting("perfect", "CT", TRUE)}
=============================================================================
