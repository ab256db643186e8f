--------------------------- MODULE MCWaldoFrameEnd ---------------------------
(***************************************************************************)
(* Two devices that use one id for inputs of different labels.             *)
(***************************************************************************)
EXTENDS WaldoFrameEnd

CONSTANTS arm, head, Left, Right

MCLabel == {arm, head}
MCDelegate == {Left, Right}

MCSentOn == [n \in 1..MaxConnections |->
    {[type |-> t] : t \in {"Reset", "StartFrame", "EndFrame"}}
    \cup {[type |-> "RegisterInput", id |-> 1, label |-> IF n = 1 THEN arm ELSE head],
          [type |-> "InputValue", id |-> 1, value |-> n]}]

MCCommand == UNION {MCSentOn[n] : n \in DOMAIN MCSentOn}
=============================================================================
