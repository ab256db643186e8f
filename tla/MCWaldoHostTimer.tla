-------------------------- MODULE MCWaldoHostTimer --------------------------
(***************************************************************************)
(* A clock whose floats are the even instants, as if the unit were half    *)
(* the spacing: odd instants round up.                                     *)
(***************************************************************************)
EXTENDS WaldoHostTimer

MCFloat == [t \in 0..MaxTime |-> ((t + 1) \div 2) * 2]
=============================================================================
