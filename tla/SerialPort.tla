----------------------------- MODULE SerialPort -----------------------------
(***************************************************************************)
(* USerialPort on top of FSerialPortMac or FSerialPortWindows, and the     *)
(* Send of UWaldoCommandByteStream on top of it: what the three layers     *)
(* make of an operating system whose every call may fail, and of a device  *)
(* that may be pulled out between any two of them.                         *)
(*                                                                         *)
(* Bytes are counted, not told apart.  A call is one step and `call` is    *)
(* what it told its caller, next to what really happened.                  *)
(***************************************************************************)
EXTENDS Integers, FiniteSets

CONSTANTS
    None,           \* fd = -1, INVALID_HANDLE_VALUE
    Handle,         \* what the operating system gives for an open port
    QueueCap,       \* bound: bytes waiting to be read
    MaxSize         \* bound: bytes of a buffer

ASSUME PortAssumption ==
    /\ None \notin Handle
    /\ QueueCap \in Nat /\ MaxSize \in Nat

VARIABLES
    Platform,       \* the one the build is for; it never changes
    Port,           \* the handle of the object
    open,           \* the handles the operating system holds open
    refused,        \* history: those it would not close for a dying object
    present,        \* the device is there
    input,          \* bytes waiting
    call            \* the last call and its outcome

vars == <<Platform, Port, open, refused, present, input, call>>

NoCall == [op |-> "none", ok |-> TRUE, size |-> 0, used |-> 0, moved |-> 0]

\* An operation on `size` bytes returned ok and `used`; `moved` bytes went
\* to or came from the device.
Returned(op, ok, size, used, moved) ==
    [op |-> op, ok |-> ok, size |-> size, used |-> used, moved |-> moved]

Init ==
    /\ Platform \in {"Mac", "Windows"}
    /\ Port = None
    /\ open = {} /\ refused = {}
    /\ present = TRUE
    /\ input = 0
    /\ call = NoCall

IsOpen == Port # None

-----------------------------------------------------------------------------
\* The slip of forgetting the handle whether or not the close succeeded.
ImplCloseForgets(h, ok) ==
    /\ Port' = None
    /\ open' = IF ok THEN open \ {h} ELSE open

\* FSerialPort*::Close.  A failed one is taken to leave the handle open, as
\* the code takes it; close(2) of a Mac does not promise that.
ImplClose(h, ok) ==
    IF ok THEN Port' = None /\ open' = open \ {h}
          ELSE Port' = h /\ open' = open \cup {h}

\* The system gave the handle h.  The port is set up, its input purged, and
\* opened; or a step of that fails and it is closed again.
Opened(h) == Port' = h /\ open' = open \cup {h}
GivenUp(h) == \E closed \in BOOLEAN : ImplClose(h, closed)

\* A Mac purges first, and gives up if that fails.
MacOpen(h, ok) ==
    \/ ok /\ Opened(h) /\ input' = 0
    \/ ~ok /\ GivenUp(h) /\ input' \in {0, input}

\* Windows purges last, and does not look at what came of it.
WindowsOpen(h, ok) ==
    \/ ok /\ Opened(h) /\ input' \in {0, input}
    \/ ~ok /\ GivenUp(h) /\ UNCHANGED input

ImplOpen(h, ok) == IF Platform = "Mac" THEN MacOpen(h, ok) ELSE WindowsOpen(h, ok)

\* Open; a port that is not there, or taken, gets no handle.
Open ==
    /\ ~IsOpen
    /\ \E ok \in BOOLEAN :
          /\ \/ present /\ \E h \in Handle \ open : ImplOpen(h, ok)
             \/ ~ok /\ UNCHANGED <<Port, open, input>>
          /\ call' = Returned("Open", ok, 0, 0, 0)
    /\ UNCHANGED <<refused, present>>

OpenTwice ==
    /\ IsOpen
    /\ call' = Returned("Open", FALSE, 0, 0, 0)
    /\ UNCHANGED <<Port, open, refused, present, input>>

Close ==
    /\ IF IsOpen THEN \E ok \in BOOLEAN : /\ ImplClose(Port, ok)
                                          /\ call' = Returned("Close", ok, 0, 0, 0)
                 ELSE /\ call' = Returned("Close", FALSE, 0, 0, 0)
                      /\ UNCHANGED <<Port, open>>
    /\ UNCHANGED <<refused, present, input>>

\* The component drops the object, ~USerialPort runs; the next connection
\* makes a new one.
Destroy ==
    /\ \E ok \in BOOLEAN :
          /\ open' = IF ok THEN open \ {Port} ELSE open
          /\ refused' = IF ~ok /\ IsOpen THEN refused \cup {Port} ELSE refused
    /\ Port' = None
    /\ call' = NoCall
    /\ UNCHANGED <<present, input>>

-----------------------------------------------------------------------------
Available == IF IsOpen /\ present THEN input ELSE 0

\* Outcomes of reading into n bytes: [ok, used].  A Mac leaves the port alone
\* when nothing is available, and has not failed; neither has Windows, but
\* there the port is asked for its state, and may be gone.
Fitting(n) == IF Available < n THEN Available ELSE n

Failed == [ok |-> FALSE, used |-> 0]
Done(k) == [ok |-> TRUE, used |-> k]

MacRead(n) == {Done(Fitting(n))} \cup (IF Available > 0 THEN {Failed} ELSE {})

WindowsRead(n) == {Failed} \cup (IF present THEN {Done(Fitting(n))} ELSE {})

\* The slip of reading as much as was asked for.
ImplReadAll(n) == {Done(n)}

ImplRead(n) == IF Platform = "Mac" THEN MacRead(n) ELSE WindowsRead(n)

\* Read(uint8&), with the outcome r of the read of one byte.  A byte taken
\* that way is gone from the queue.
ReadByte ==
    /\ \/ /\ IsOpen
          /\ \E r \in ImplRead(1) :
                /\ input' = input - r.used
                /\ call' = Returned("ReadByte", r.ok /\ r.used = 1, 1, r.used, r.used)
       \/ /\ ~IsOpen
          /\ call' = Returned("ReadByte", FALSE, 1, 0, 0)
          /\ UNCHANGED input
    /\ UNCHANGED <<Port, open, refused, present>>

\* What the operating system makes of a write of n bytes: how many it took,
\* or -1.  A Mac's port does not block and takes what fits; Windows, without
\* time-outs, returns when all is written or the port has gone.
OSWrite(n) ==
    {-1} \cup (IF ~present THEN {} ELSE IF Platform = "Mac" THEN 0..n ELSE {n})

Taken(w) == IF w = -1 THEN 0 ELSE w

\* FSerialPortMac::Write and FSerialPortWindows::Write, given that result w.
\* The only result a Mac takes for a failure is to have written too much.
MacWrite(w, n) == IF w > n THEN Failed ELSE Done(w)

\* The slip of not asking whether the system call failed.
WindowsWriteNeverFails(w, n) == Done(Taken(w))

WindowsWrite(w, n) == IF w = -1 THEN Failed ELSE Done(w)

ImplWrite(w, n) == IF Platform = "Mac" THEN MacWrite(w, n) ELSE WindowsWrite(w, n)

\* Write of a buffer of n bytes: [ok, used] as returned, and what was moved.
Attempts(n) ==
    IF IsOpen
        THEN {[ok |-> ImplWrite(w, n).ok, used |-> ImplWrite(w, n).used,
               moved |-> Taken(w)] : w \in OSWrite(n)}
        ELSE {[ok |-> FALSE, used |-> 0, moved |-> 0]}

Write ==
    /\ \E n \in 1..MaxSize : \E r \in Attempts(n) :
          call' = Returned("Write", r.ok, n, r.used, r.moved)
    /\ UNCHANGED <<Port, open, refused, present, input>>

\* The slip of trusting what Write returned.
AllBytesWrittenTrusting(r, n) == r.ok

AllBytesWritten(r, n) == r.ok /\ r.used = n

\* UWaldoCommandByteStream::Send, and Write(uint8) alike.
Send ==
    /\ \E n \in 1..MaxSize : \E r \in Attempts(n) :
          call' = Returned("Send", AllBytesWritten(r, n), n, r.used, r.moved)
    /\ UNCHANGED <<Port, open, refused, present, input>>

-----------------------------------------------------------------------------
\* The device.
Arrive ==
    /\ present /\ input < QueueCap
    /\ input' = input + 1
    /\ UNCHANGED <<Port, open, refused, present, call>>

Unplug ==
    /\ present
    /\ present' = FALSE
    /\ input' = 0
    /\ UNCHANGED <<Port, open, refused, call>>

Plug ==
    /\ ~present /\ ~IsOpen
    /\ present' = TRUE
    /\ UNCHANGED <<Port, open, refused, input, call>>

Next ==
    /\ \/ Open \/ OpenTwice \/ Close \/ Destroy \/ ReadByte \/ Write \/ Send
       \/ Arrive \/ Unplug \/ Plug
    /\ UNCHANGED Platform

Spec == Init /\ [][Next]_vars

-----------------------------------------------------------------------------
Operations == {"none", "Open", "Close", "ReadByte", "Write", "Send"}

Calls == [op : Operations, ok : BOOLEAN, size : Nat, used : Int, moved : Nat]

TypeOK ==
    /\ Platform \in {"Mac", "Windows"}
    /\ Port \in Handle \cup {None}
    /\ open \subseteq Handle /\ refused \subseteq Handle
    /\ present \in BOOLEAN
    /\ input \in Nat
    /\ call \in Calls

(***************************************************************************)
(* A handle the operating system holds open is the object's, and the       *)
(* object's is one of those, whichever call of the setup or of Close       *)
(* failed: a port is lost only if it refuses to be closed for an object    *)
(* that dies.                                                              *)
(***************************************************************************)
HandlesAccountedFor ==
    /\ IsOpen => Port \in open
    /\ open = (IF IsOpen THEN {Port} ELSE {}) \cup refused

(***************************************************************************)
(* A command that Send calls sent is in the operating system's hands to    *)
(* the last byte, on both platforms and whatever Write returned.           *)
(***************************************************************************)
SendMeansAllWritten ==
    call.op = "Send" /\ call.ok => call.moved = call.size

\* "@return true, if any data was written to the port"
WriteMeansAnyWritten ==
    call.op = "Write" /\ call.ok => call.moved > 0

(***************************************************************************)
(* On Windows the promise of Write's comment is kept, whenever the port    *)
(* goes away.                                                              *)
(***************************************************************************)
WindowsWriteMeansAnyWritten == Platform = "Windows" => WriteMeansAnyWritten

=============================================================================
