---------------------------- MODULE MCWaldoPuppet ----------------------------
(***************************************************************************)
(* Two devices that give the same ids to different labels: a host that     *)
(* kept the registrations of the first would confuse arm and head.         *)
(***************************************************************************)
EXTENDS WaldoPuppet

CONSTANTS arm, head, Bone

MCLabel == {arm, head}
MCDelegate == {Bone}
\* One device with two inputs, or two with one each.
OneDevice == {"first"}
InputsOfOne == [d \in OneDevice |-> <<[id |-> 1, label |-> arm], [id |-> 2, label |-> head]>>]

TwoDevice == {"first", "second"}
InputsOfTwo == [d \in TwoDevice |->
    <<[id |-> 1, label |-> IF d = "first" THEN arm ELSE head]>>]

MCCommand ==
    {[type |-> t] : t \in {"Reset", "Message", "StartFrame"}}
    \cup [type : {"EndFrame"}, frame : 1..MaxFrames]
    \cup [type : {"RegisterInput"}, id : {1, 2}, label : MCLabel]
    \cup [type : {"InputValue"}, id : {1, 2},
          value : [label : MCLabel, frame : 1..MaxFrames]]

AllTypes == {"Reset", "RegisterInput", "StartFrame", "InputValue", "EndFrame"}
=============================================================================
