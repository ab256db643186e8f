----------------------- MODULE WaldoCommandByteStream -----------------------
(***************************************************************************)
(* UWaldoCommandByteStream: the object that cuts the bytes of a serial     *)
(* port into commands.  It outlives connections: Setup only hands it the   *)
(* next port.                                                              *)
(*                                                                         *)
(* Receive asks the port once how many bytes it holds and then reads them  *)
(* one at a time, while the other end of the cable goes on sending and may *)
(* be pulled out; so a Receive is a sequence of steps here, and `left` is  *)
(* the number of iterations its loop still has to run.                     *)
(***************************************************************************)
EXTENDS WaldoCommandFormat

CONSTANTS
    Command,            \* the commands a device may send
    MaxSent,            \* bound: commands the device sends
    MaxFaults,          \* bound: bytes the line corrupts or drops, and times
                        \* the cable is pulled
    MaxConnections      \* bound: times the component connects

ASSUME StreamAssumption ==
    /\ Command \subseteq [type : Byte, data : Seq(Byte)]
    /\ \A c \in Command : Len(c.data) \in Byte
    /\ {MaxSent, MaxFaults, MaxConnections} \subseteq Nat

VARIABLES
    connected,      \* SerialPort is set and open
    plugged,        \* the device hangs on the cable
    wire,           \* bytes sent by the device that no Read returned yet
    left,           \* iterations left in the loop of Receive; 0: not in it
    Buffer,         \* the bytes of the command being assembled
    stream,         \* history: bytes read since Buffer was last emptied
    delivered,      \* history: the commands Receive returned
    sent, faults, connections   \* counters for the bounds

hostVars == <<connected, left, Buffer, stream, delivered>>
lineVars == <<plugged, wire>>
counters == <<sent, faults, connections>>
vars == <<hostVars, lineVars, counters>>

Init ==
    /\ connected = FALSE
    /\ plugged = TRUE
    /\ wire = << >>
    /\ left = 0
    /\ Buffer = << >>
    /\ stream = << >>
    /\ delivered = << >>
    /\ sent = 0 /\ faults = 0 /\ connections = 0

-----------------------------------------------------------------------------
(***************************************************************************)
(* The component.  A new port starts with an empty input queue (Open       *)
(* purges it) but a command that was on its way may still deliver its      *)
(* tail.  Setup takes the port and leaves Buffer as it was.                *)
(***************************************************************************)
Setup ==
    /\ ~connected /\ plugged
    /\ connections < MaxConnections
    /\ connected' = TRUE
    /\ connections' = connections + 1
    /\ \E k \in 1..(Len(wire) + 1) : wire' = From(wire, k)
    /\ UNCHANGED <<left, Buffer, stream, delivered, plugged, sent, faults>>

Disconnect ==
    /\ connected /\ left = 0
    /\ connected' = FALSE
    /\ UNCHANGED <<left, Buffer, stream, delivered, lineVars, counters>>

\* The state machine discards a partial command when it has waited too long.
Reset ==
    /\ connected /\ left = 0
    /\ Buffer' = << >>
    /\ stream' = << >>
    /\ UNCHANGED <<connected, left, delivered, lineVars, counters>>

\* `const int Available = SerialPort->Available()`: some of the bytes have
\* arrived; with none the loop does not run and Receive returns false.
Receive ==
    /\ connected /\ left = 0
    /\ \E available \in 1..Len(wire) : left' = available
    /\ UNCHANGED <<connected, Buffer, stream, delivered, lineVars, counters>>

\* One iteration with the byte b in hand: Buffer.Add, SkipToGuard, parse.
ConsumeByteKeepsBuffer(b) ==
    LET s == SkipToGuard(Append(Buffer, b)) IN
    IF IsReadyToParseCommand(s)
        THEN /\ delivered' = Append(delivered, ParseCommand(s))
             /\ Buffer' = s
             /\ stream' = << >>
             /\ left' = 0
        ELSE /\ Buffer' = s
             /\ stream' = Append(stream, b)
             /\ left' = left - 1
             /\ UNCHANGED delivered

ConsumeByte(b) ==
    LET s == SkipToGuard(Append(Buffer, b)) IN
    IF IsReadyToParseCommand(s)
        THEN /\ delivered' = Append(delivered, ParseCommand(s))
             /\ Buffer' = << >>
             /\ stream' = << >>
             /\ left' = 0
        ELSE /\ Buffer' = s
             /\ stream' = Append(stream, b)
             /\ left' = left - 1
             /\ UNCHANGED delivered

\* The slip of reading on when the loop has run out.
ReadByteUnguarded ==
    /\ wire # << >>
    /\ ConsumeByte(Head(wire))
    /\ wire' = Tail(wire)
    /\ UNCHANGED <<connected, plugged, counters>>

ReadByte ==
    /\ left > 0
    /\ wire # << >>
    /\ ConsumeByte(Head(wire))
    /\ wire' = Tail(wire)
    /\ UNCHANGED <<connected, plugged, counters>>

\* Read fails, the ensure only reports it, and the loop goes on with
\* whatever the uninitialised local `byte` holds.
ReadGarbage ==
    /\ left > 0
    /\ wire = << >>
    /\ \E b \in Byte : ConsumeByte(b)
    /\ UNCHANGED <<connected, lineVars, counters>>

-----------------------------------------------------------------------------
\* The other end of the cable.
Transmit ==
    /\ plugged
    /\ sent < MaxSent
    /\ sent' = sent + 1
    /\ \E c \in Command : wire' = wire \o Encode(c)
    /\ UNCHANGED <<hostVars, plugged, faults, connections>>

\* One byte on the line is replaced by another, or dropped.
Noise ==
    /\ faults < MaxFaults
    /\ faults' = faults + 1
    /\ \E i \in 1..Len(wire) :
          \/ \E b \in Byte : wire' = [wire EXCEPT ![i] = b]
          \/ wire' = SubSeq(wire, 1, i - 1) \o From(wire, i + 1)
    /\ UNCHANGED <<hostVars, plugged, sent, connections>>

Unplug ==
    /\ plugged
    /\ faults < MaxFaults
    /\ faults' = faults + 1
    /\ plugged' = FALSE
    /\ wire' = << >>
    /\ UNCHANGED <<hostVars, sent, connections>>

Plug ==
    /\ ~plugged /\ ~connected
    /\ plugged' = TRUE
    /\ UNCHANGED <<hostVars, wire, counters>>

-----------------------------------------------------------------------------
Stream == Receive \/ ReadByte \/ ReadGarbage \/ Reset

Next == Stream \/ Setup \/ Disconnect \/ Transmit \/ Noise \/ Unplug \/ Plug

Spec == Init /\ [][Next]_vars

-----------------------------------------------------------------------------
TypeOK ==
    /\ connected \in BOOLEAN /\ plugged \in BOOLEAN
    /\ wire \in Seq(Byte)
    /\ left \in Nat
    /\ Buffer \in Seq(Byte)
    /\ stream \in Seq(Byte)
    /\ delivered \in Seq([type : Byte, data : Seq(Byte)])
    /\ sent \in Nat /\ faults \in Nat /\ connections \in Nat

(***************************************************************************)
(* Whatever noise, garbage and stale bytes Buffer was fed, between two     *)
(* iterations it starts like a command and never holds a whole one, and    *)
(* the next byte completes at most exactly one: the ensure(BufferSize ==   *)
(* CommandSize) of IsReadyToParseCommand and of ParseCommandAndConsume-    *)
(* Buffer holds, so Buffer.Reset() throws no byte of a later command away. *)
(***************************************************************************)
ParseConsumesExactly ==
    /\ HasValidGuard(Buffer)
    /\ \A b \in Byte :
          LET s == SkipToGuard(Append(Buffer, b))
          IN  IsReadyToParseCommand(s) => Len(s) = CommandSize(s)

(***************************************************************************)
(* Skipping byte by byte misses no guard: Buffer is the longest suffix of  *)
(* all that was read since it was last emptied that starts like a command, *)
(* also when the guard's first byte comes twice or noise cut a guard short.*)
(***************************************************************************)
NoGuardMissed ==
    /\ Buffer = From(stream, Len(stream) - Len(Buffer) + 1)
    /\ \A i \in 1..Len(stream) :
          HasValidGuard(From(stream, i)) => i > Len(stream) - Len(Buffer)

(***************************************************************************)
(* How the bytes are cut into Receive calls does not matter: reading one   *)
(* more byte never changes the commands that the bytes in hand and on the  *)
(* wire amount to, as the reference parser sees them, noise or not.        *)
(***************************************************************************)
ChunkingIrrelevant ==
    [][ReadByte => delivered' \o Decode(Buffer' \o wire')
                     = delivered \o Decode(Buffer \o wire)]_vars

(***************************************************************************)
(* The abstract channel: the commands in transit are those still to be     *)
(* found in Buffer followed by the wire.                                   *)
(***************************************************************************)
Channel == INSTANCE CommandChannel WITH queue <- Decode(Buffer \o wire)

\* What UWaldoHostStateMachine::Reset says of itself, "Reset the StateMachine
\* to initial conditions": a new connection starts with an empty Buffer.
SetupStartsEmpty == [][connections' > connections => Buffer' = << >>]_vars

=============================================================================
