-------------------------- MODULE RepeatingStream --------------------------
(***************************************************************************)
(* What an RD wire promises of one direction: the counterpart reads the    *)
(* messages in the order they were put, and skips none; but when a         *)
(* connection is made anew it may start over with the first message.       *)
(***************************************************************************)
EXTENDS Naturals

VARIABLES
    puts,       \* messages put, numbered from 1
    read,       \* the number of the message read last
    furthest    \* the highest number read

vars == <<puts, read, furthest>>

Init == puts = 0 /\ read = 0 /\ furthest = 0

Put == puts' = puts + 1 /\ UNCHANGED <<read, furthest>>

ReadNext ==
    /\ read < puts
    /\ read' = read + 1
    /\ furthest' = IF read < furthest THEN furthest ELSE read + 1
    /\ UNCHANGED puts

ReadAgain ==
    /\ read' = 1 /\ furthest >= 1
    /\ UNCHANGED <<puts, furthest>>

\* A process that starts anew has put nothing, and nothing of its is read.
Restart == puts' = 0 /\ read' = 0 /\ furthest' = 0

Next == Put \/ ReadNext \/ ReadAgain \/ Restart

Spec == Init /\ [][Next]_vars

=============================================================================
