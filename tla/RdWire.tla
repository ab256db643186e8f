------------------------------- MODULE RdWire -------------------------------
(***************************************************************************)
(* One direction of an RD wire: ByteBufferAsyncProcessor and the sending   *)
(* half of SocketWire at one end, the reading half of SocketWire at the    *)
(* other, and a connection that breaks and is made anew.                   *)
(*                                                                         *)
(* Three threads act at the sending end: those that put messages, the      *)
(* processor's own thread, and the one that connects, reads                *)
(* acknowledgements and pauses and resumes the processor.  A step is what  *)
(* one of them does under a lock.  A package holds one message.            *)
(***************************************************************************)
EXTENDS Integers, Sequences

CONSTANTS
    MaxPuts,            \* bound: messages put by a process
    MaxConnections,     \* bound: connections made
    MaxRestarts         \* bound: restarts of the sending process

ASSUME WireAssumption ==
    MaxPuts \in Nat /\ MaxConnections \in Nat /\ MaxRestarts \in Nat

VARIABLES
    Prompt,             \* the processor's thread is done with what it took
                        \* before there is a new connection; never changes
    \* ByteBufferAsyncProcessor
    data, queue, pending_queue,
    max_sent_seqn, current_seqn, acknowledged_seqn,
    interrupt_balance, state,
    thread,             \* where ThreadProc is
    \* SocketWire
    receiver,           \* where set_socket_provider is
    up, packages, acks, \* the connection and what is under way on it
    max_received_seqn,  \* of the other end
    garbled,            \* it has lost track of where a message begins
    \* bounds and history
    puts, connections, restarts,
    read, furthest,     \* the last message and the furthest the other end read
    ackLost             \* the connection broke with an acknowledgement under way

processor == <<data, queue, pending_queue, max_sent_seqn, current_seqn,
               acknowledged_seqn, interrupt_balance, state, thread>>
numbers == <<max_sent_seqn, current_seqn, acknowledged_seqn>>
connection == <<up, packages, acks, ackLost>>
counterpart == <<max_received_seqn, garbled, read, furthest>>
bounds == <<puts, connections, restarts>>
vars == <<Prompt, processor, receiver, connection, counterpart, bounds>>

-----------------------------------------------------------------------------
\* What SocketWire::Base leaves: the processor started, and paused until
\* there is a connection.
Init ==
    /\ Prompt \in BOOLEAN
    /\ max_received_seqn = 0 /\ garbled = FALSE
    /\ connections = 0 /\ restarts = 0 /\ ackLost = FALSE
    /\ data = <<>> /\ queue = <<>> /\ pending_queue = <<>>
    /\ max_sent_seqn = 0 /\ current_seqn = 1 /\ acknowledged_seqn = 0
    /\ interrupt_balance = 1
    /\ state = "AsyncProcessing"
    /\ thread = "waiting"
    /\ receiver = "connecting"
    /\ up = FALSE /\ packages = <<>> /\ acks = <<>>
    /\ puts = 0 /\ read = 0 /\ furthest = 0

-----------------------------------------------------------------------------
\* put; once the processor is being stopped it does nothing.
Put ==
    /\ puts < MaxPuts
    /\ state = "AsyncProcessing"
    /\ data' = Append(data, puts + 1)
    /\ puts' = puts + 1
    /\ UNCHANGED <<Prompt, queue, pending_queue, numbers, interrupt_balance, state,
                   thread, receiver, connection, counterpart, connections, restarts>>

Interrupted == data = <<>> \/ interrupt_balance # 0

\* ThreadProc under the lock: the data goes to the queue, ...
TakeData ==
    /\ thread = "waiting"
    /\ state # "Terminated" /\ ~Interrupted
    /\ queue' = queue \o data
    /\ data' = <<>>
    /\ thread' = "taken"
    /\ UNCHANGED <<Prompt, pending_queue, numbers, interrupt_balance, state,
                   receiver, connection, counterpart, bounds>>

\* ... or the thread ends.
EndThread ==
    /\ thread = "waiting"
    /\ state = "Terminated" \/ (state = "Stopping" /\ Interrupted)
    /\ thread' = "ended"
    /\ UNCHANGED <<Prompt, data, queue, pending_queue, numbers, interrupt_balance, state,
                   receiver, connection, counterpart, bounds>>

\* process takes the queue's lock.  Since TakeData the thread had none.
StartProcessing ==
    /\ thread = "taken"
    /\ thread' = "processing"
    /\ UNCHANGED <<Prompt, data, queue, pending_queue, numbers, interrupt_balance, state,
                   receiver, connection, counterpart, bounds>>

\* Packages that were sent on a connection arrive unless it is broken.
Transmitted(sent) == IF up THEN packages \o sent ELSE packages

\* send0 of the front of the queue succeeds, and it is moved.  On a broken
\* connection that may still happen: the system took the bytes.
SendFront ==
    /\ thread = "processing" /\ queue # <<>>
    /\ packages' = Transmitted(<<[seqn |-> max_sent_seqn + 1, message |-> Head(queue)]>>)
    /\ max_sent_seqn' = max_sent_seqn + 1
    /\ pending_queue' = Append(pending_queue, Head(queue))
    /\ queue' = Tail(queue)
    /\ UNCHANGED <<Prompt, data, current_seqn, acknowledged_seqn, interrupt_balance, state,
                   thread, receiver, up, acks, ackLost, counterpart, bounds>>

\* Nothing is left, or a send failed and the rest is left in the queue.
EndProcessing ==
    /\ thread = "processing"
    /\ queue = <<>> \/ ~up
    /\ thread' = "waiting"
    /\ UNCHANGED <<Prompt, data, queue, pending_queue, numbers, interrupt_balance, state,
                   receiver, connection, counterpart, bounds>>

-----------------------------------------------------------------------------
\* set_socket_provider with a new socket.
Connect ==
    /\ receiver = "connecting" /\ connections < MaxConnections
    /\ state # "Terminated"
    /\ Prompt => thread \notin {"taken", "processing"}
    /\ up' = TRUE /\ packages' = <<>> /\ acks' = <<>>
    /\ receiver' = "resuming"
    /\ connections' = connections + 1
    /\ UNCHANGED <<Prompt, processor, ackLost, counterpart, puts, restarts>>

Maximum(i, j) == IF i < j THEN j ELSE i

\* The slip of popping without counting.
DropAcknowledgedUncounted ==
    /\ pending_queue' = SubSeq(pending_queue, Maximum(0, acknowledged_seqn + 1 - current_seqn) + 1,
                               Len(pending_queue))
    /\ UNCHANGED current_seqn

\* reprocess pops what was acknowledged off pending_queue.
DropAcknowledged ==
    LET n == Maximum(0, acknowledged_seqn + 1 - current_seqn)
    IN  /\ pending_queue' = SubSeq(pending_queue, n + 1, Len(pending_queue))
        /\ current_seqn' = current_seqn + n

\* The slip of resending nothing.
ResentNone == <<>>

\* ... and sends the rest again; if that fails the connection is broken.
Resent == [i \in 1..Len(pending_queue') |->
              [seqn |-> current_seqn' + i - 1, message |-> pending_queue'[i]]]

\* resume, holding the lock and, for reprocess, that of the queue.
Resume ==
    /\ receiver = "resuming" /\ thread # "processing"
    /\ DropAcknowledged
    /\ packages' = Transmitted(Resent)
    /\ interrupt_balance' = interrupt_balance - 1
    /\ receiver' = "receiving"
    /\ UNCHANGED <<Prompt, data, queue, max_sent_seqn, acknowledged_seqn, state, thread,
                   up, acks, ackLost, counterpart, bounds>>

\* acknowledge
NewestAcknowledged(seqn) == Maximum(acknowledged_seqn, seqn)

ReadAck ==
    /\ receiver = "receiving" /\ up /\ acks # <<>>
    /\ acknowledged_seqn' = NewestAcknowledged(Head(acks))
    /\ acks' = Tail(acks)
    /\ UNCHANGED <<Prompt, data, queue, pending_queue, max_sent_seqn, current_seqn,
                   interrupt_balance, state, thread, receiver, up, packages, ackLost,
                   counterpart, bounds>>

\* The slip of not pausing.
InterruptNot == UNCHANGED interrupt_balance

Interrupt == interrupt_balance' = interrupt_balance + 1

\* receiverProc returns, and the processor is paused, for which it must not
\* be processing.
Pause ==
    /\ receiver = "receiving" /\ ~up
    /\ thread # "processing"
    /\ Interrupt
    /\ receiver' = "connecting"
    /\ UNCHANGED <<Prompt, data, queue, pending_queue, numbers, state, thread,
                   connection, counterpart, bounds>>

-----------------------------------------------------------------------------
\* What is under way is lost.
Disconnected ==
    /\ up' = FALSE /\ packages' = <<>> /\ acks' = <<>>
    /\ ackLost' = (ackLost \/ acks # <<>>)

\* The wire's lifetime ends: stop, ...
Stop ==
    /\ state = "AsyncProcessing"
    /\ state' = "Stopping"
    /\ UNCHANGED <<Prompt, data, queue, pending_queue, numbers, interrupt_balance, thread,
                   receiver, connection, counterpart, bounds>>

\* ... and, when the thread has ended or after a time-out, cleanup0 and the
\* sockets are closed.
Terminate ==
    /\ state = "Stopping"
    /\ state' = "Terminated"
    /\ Disconnected
    /\ UNCHANGED <<Prompt, data, queue, pending_queue, numbers, interrupt_balance, thread,
                   receiver, counterpart, bounds>>

Break ==
    /\ up
    /\ Disconnected
    /\ UNCHANGED <<Prompt, processor, receiver, counterpart, bounds>>

\* The sending process dies and another takes its place; the other end stays
\* and keeps the number of the package it received last.
Restart ==
    /\ restarts < MaxRestarts
    /\ restarts' = restarts + 1
    /\ data' = <<>> /\ queue' = <<>> /\ pending_queue' = <<>>
    /\ max_sent_seqn' = 0 /\ current_seqn' = 1 /\ acknowledged_seqn' = 0
    /\ interrupt_balance' = 1
    /\ state' = "AsyncProcessing"
    /\ thread' = "waiting"
    /\ receiver' = "connecting"
    /\ Disconnected
    /\ puts' = 0 /\ read' = 0 /\ furthest' = 0
    /\ UNCHANGED <<Prompt, max_received_seqn, garbled, connections>>

\* The slip of not expecting a new process to count from 1.
IsRepeatedAlways(seqn) == seqn <= max_received_seqn

\* read_package's test of a package read before.
IsRepeated(seqn) == seqn <= max_received_seqn /\ seqn # 1

\* read_package at the other end acknowledges a package, read before or not.
\* Of one read before it returns the length 1, and a byte of it goes into the
\* stream of messages; no message is found there any more.
ReadPackage ==
    /\ up /\ packages # <<>>
    /\ packages' = Tail(packages)
    /\ LET package == Head(packages) IN
          /\ acks' = Append(acks, package.seqn)
          /\ \/ /\ IsRepeated(package.seqn)
                /\ garbled' = TRUE
                /\ UNCHANGED <<max_received_seqn, read, furthest>>
             \/ /\ ~IsRepeated(package.seqn)
                /\ max_received_seqn' = package.seqn
                /\ IF garbled
                      THEN UNCHANGED <<read, furthest>>
                      ELSE /\ read' = package.message
                           /\ furthest' = Maximum(furthest, package.message)
                /\ UNCHANGED garbled
    /\ UNCHANGED <<Prompt, processor, receiver, up, ackLost, bounds>>

Next ==
    \/ Put \/ TakeData \/ EndThread \/ StartProcessing \/ SendFront \/ EndProcessing
    \/ Connect \/ Resume \/ ReadAck \/ Pause
    \/ Stop \/ Terminate \/ Break \/ Restart \/ ReadPackage

Spec == Init /\ [][Next]_vars

\* Threads that can go on do; nobody need put, break, stop or connect.
Fairness ==
    /\ WF_vars(TakeData) /\ WF_vars(StartProcessing)
    /\ WF_vars(SendFront) /\ WF_vars(EndProcessing)
    /\ WF_vars(Resume) /\ WF_vars(ReadAck) /\ WF_vars(Pause) /\ WF_vars(ReadPackage)

FairSpec == Spec /\ Fairness

-----------------------------------------------------------------------------
Packages == [seqn : Nat, message : Nat]

TypeOK ==
    /\ Prompt \in BOOLEAN
    /\ data \in Seq(Nat) /\ queue \in Seq(Nat) /\ pending_queue \in Seq(Nat)
    /\ max_sent_seqn \in Nat /\ current_seqn \in Nat /\ acknowledged_seqn \in Nat
    /\ interrupt_balance \in {0, 1}
    /\ state \in {"AsyncProcessing", "Stopping", "Terminated"}
    /\ thread \in {"waiting", "taken", "processing", "ended"}
    /\ receiver \in {"connecting", "resuming", "receiving"}
    /\ up \in BOOLEAN /\ packages \in Seq(Packages) /\ acks \in Seq(Nat)
    /\ max_received_seqn \in Nat /\ garbled \in BOOLEAN
    /\ read \in Nat /\ furthest \in Nat /\ ackLost \in BOOLEAN
    /\ puts \in Nat /\ connections \in Nat /\ restarts \in Nat

(***************************************************************************)
(* Wherever the threads are, the sender holds every message it does not    *)
(* know to be acknowledged, once and in order, and the numbers fit the     *)
(* queues: message n has number n, and reprocess pops and sends again what *)
(* it means to (it never pops off an empty queue).                         *)
(***************************************************************************)
HoldsUnacknowledged ==
    /\ pending_queue \o queue \o data =
          [i \in 1..(puts + 1 - current_seqn) |-> current_seqn + i - 1]
    /\ current_seqn + Len(pending_queue) = max_sent_seqn + 1
    /\ acknowledged_seqn <= max_sent_seqn

(***************************************************************************)
(* If the processor's thread is prompt, what the sender takes to be        *)
(* acknowledged has been read, and what it does not it still holds: no     *)
(* message is lost, whenever the connection breaks and whoever restarts,   *)
(* unless an acknowledgement was lost.                                     *)
(***************************************************************************)
NothingLost ==
    /\ Prompt /\ ~garbled => Maximum(acknowledged_seqn, current_seqn - 1) <= furthest
    /\ Prompt /\ garbled => ackLost

(***************************************************************************)
(* "Acknowledge {} called, while next seqn MUST BE greater than {}"        *)
(***************************************************************************)
AcknowledgementsIncrease ==
    receiver = "receiving" /\ acks # <<>> => Head(acks) > acknowledged_seqn

(***************************************************************************)
(* A prompt thread keeps the acknowledgements in order.                    *)
(***************************************************************************)
PromptAcknowledgementsIncrease == Prompt => AcknowledgementsIncrease

(***************************************************************************)
(* A prompt wire is a stream that skips nothing and at worst starts over.  *)
(***************************************************************************)
Stream == INSTANCE RepeatingStream

ImplementsStream ==
    (Prompt => Stream!Init) /\ [][Prompt => Stream!Next]_(Stream!vars)

(***************************************************************************)
(* What was sent once is read in the end if there is a connection that     *)
(* stays, and if the process does too.                                     *)
(***************************************************************************)
SentIsRead ==
    Prompt /\ <>[]up =>
        \A n \in 1..MaxPuts : (max_sent_seqn >= n) ~> (furthest >= n \/ max_sent_seqn < n \/ garbled)

=============================================================================
