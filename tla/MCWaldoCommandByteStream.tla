---------------------- MODULE MCWaldoCommandByteStream ----------------------
(***************************************************************************)
(* A byte is 0..2, the guard <<2, 1>>.  Three commands: one that is empty, *)
(* one with a payload, and one whose payload is the guard itself.          *)
(***************************************************************************)
EXTENDS WaldoCommandByteStream

MCByte == 0..2
MCGuard == <<2, 1>>

Empty == [type |-> 0, data |-> << >>]
Short == [type |-> 1, data |-> <<0>>]
Tricky == [type |-> 0, data |-> <<2, 1>>]

MCCommand == {Empty, Short, Tricky}

\* Commands in which the guard's first byte does not occur: no type is 'W',
\* and ids, values and labels seldom hold one.
PlainCommand == {Empty, Short}

VARIABLE plain      \* history: only plain commands have been sent

MCInit == Init /\ plain = TRUE

MCNext ==
    \/ Transmit /\ plain' = (plain /\ \E c \in PlainCommand : wire' = wire \o Encode(c))
    \/ Receive /\ UNCHANGED plain
    \/ ReadByte /\ UNCHANGED plain
    \/ ReadGarbage /\ UNCHANGED plain
    \/ Reset /\ UNCHANGED plain
    \/ Setup /\ UNCHANGED plain
    \/ Disconnect /\ UNCHANGED plain
    \/ Noise /\ UNCHANGED plain
    \/ Unplug /\ UNCHANGED plain
    \/ Plug /\ UNCHANGED plain

MCSpec == MCInit /\ [][MCNext]_<<vars, plain>>

\* One connection over a cable that corrupts nothing and stays plugged in;
\* the host may still give up on a command that takes too long.
Clean == plain /\ faults = 0 /\ connections <= 1

(***************************************************************************)
(* As long as the cable is clean the stream is a command queue that only   *)
(* ever loses the command it gave up on; the rest of that command          *)
(* resurrects as nothing, and nothing is delivered that was not sent.      *)
(***************************************************************************)
ImplementsChannel ==
    Channel!Init /\ [][Clean' => Channel!Next]_(Channel!channelVars)
=============================================================================
