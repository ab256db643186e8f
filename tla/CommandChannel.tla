--------------------------- MODULE CommandChannel ---------------------------
(***************************************************************************)
(* What a byte stream promises to the two state machines that talk over    *)
(* it: a queue of commands.  A command may be lost, but what is delivered  *)
(* was sent, whole, in the order it was sent, and at most once.            *)
(***************************************************************************)
EXTENDS Naturals, Sequences

CONSTANT Command

VARIABLES
    queue,      \* commands sent and neither delivered nor lost
    delivered   \* every command delivered so far, oldest first

channelVars == <<queue, delivered>>

Init ==
    /\ queue = << >>
    /\ delivered = << >>

Send ==
    /\ \E c \in Command : queue' = Append(queue, c)
    /\ UNCHANGED delivered

Deliver ==
    /\ queue # << >>
    /\ delivered' = Append(delivered, Head(queue))
    /\ queue' = Tail(queue)

\* A receiver that gives up on a half-received command loses the oldest one;
\* one that opens its port late loses all that came before.
Lose ==
    /\ \E k \in 1..Len(queue) : queue' = SubSeq(queue, k + 1, Len(queue))
    /\ UNCHANGED delivered

Next == Send \/ Deliver \/ Lose

Spec == Init /\ [][Next]_channelVars
=============================================================================
