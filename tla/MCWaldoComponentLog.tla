-------------------------- MODULE MCWaldoComponentLog --------------------------
(***************************************************************************)
(* A device may send any command in any order: an input, that may be       *)
(* registered twice, a value of it, and one that belongs to no input.  The *)
(* two delegates are bound alike.                                          *)
(***************************************************************************)
EXTENDS WaldoComponentLog, TLC

CONSTANTS arm, Left, Right

MCLabel == {arm}
MCDelegate == {Left, Right}
DelegateSymmetry == Permutations(MCDelegate)

Plain(types) == {[type |-> t] : t \in types}
Register(ids) == {[type |-> "RegisterInput", id |-> i, label |-> arm] : i \in ids}
Value(ids) == {[type |-> "InputValue", id |-> i, value |-> 7] : i \in ids}

MCCommand ==
    Plain({"Reset", "StartFrame", "EndFrame"})
        \cup Register({1}) \cup Value({1, 2})
=============================================================================
