------------------------ MODULE WaldoHostStateMachine ------------------------
(***************************************************************************)
(* UWaldoHostStateMachine: what the host does with one command.            *)
(*                                                                         *)
(* Tick is a loop: a turn reads the clock, asks the byte stream for a      *)
(* command, and either processes it and goes round again or ends the loop, *)
(* telling a silent device to reset.  A turn is two steps here, because    *)
(* the device and the cable do not wait.  The clock is the business of     *)
(* WaldoHostTimer: here a turn that starts may find itself `late` or not.  *)
(*                                                                         *)
(* Whoever uses the machine supplies the command and says whether the port *)
(* accepts what is written; it finds in `event` the delegate broadcast and *)
(* in `reply` the command sent, if any.                                    *)
(***************************************************************************)
EXTENDS Naturals, Sequences

CONSTANT Command        \* what the byte stream can return: [type : STRING, ...]

HostStates == {"None", "Reset", "Ready", "Frame"}
None == "none"

VARIABLES
    State,
    tick,       \* "idle": outside Tick; "loop", "receive": in a turn of its
                \* loop; "failed": Tick is returning false
    late,       \* this turn read a clock beyond MaxTimeBetweenCommands
    event,      \* the delegate the last step broadcast
    reply       \* the command the last step sent

hostVars == <<State, tick, late, event, reply>>

Init ==
    /\ State = "None"
    /\ tick = "idle"
    /\ late = FALSE
    /\ event = None
    /\ reply = None

\* Reset(port), the caller being Connect: the stream gets the port, too.
ResetKeepsState ==
    /\ late' = FALSE
    /\ reply' = None
    /\ UNCHANGED <<State, tick>>

Reset ==
    /\ State' = "Reset"
    /\ late' = FALSE
    /\ reply' = None
    /\ UNCHANGED tick

BeginTick ==
    /\ tick = "idle"
    /\ tick' = "loop"
    /\ event' = None /\ reply' = None
    /\ UNCHANGED <<State, late>>

BeginTurn ==
    /\ tick = "loop"
    /\ tick' = "receive"
    /\ late' \in BOOLEAN
    /\ event' = None /\ reply' = None
    /\ UNCHANGED State

-----------------------------------------------------------------------------
\* Process fails, and Tick with it: nothing was broadcast, State is as it was.
Fail ==
    /\ tick' = "failed"
    /\ event' = None /\ reply' = None
    /\ UNCHANGED State

\* Send the acknowledgement, and only if the port took all of it go on.
Acknowledge(ack, ok, newState, delegate) ==
    IF ok THEN /\ reply' = ack
               /\ State' = newState
               /\ event' = delegate
               /\ tick' = "loop"
          ELSE Fail

Broadcast(delegate, newState) ==
    /\ State' = newState
    /\ event' = delegate
    /\ reply' = None
    /\ tick' = "loop"

\* The slip of opening a frame in whatever state.
HandledFrameAnywhere(c) ==
    \/ c.type \in {"Reset", "Message"}
    \/ State = "Ready" /\ c.type = "RegisterInput"
    \/ c.type = "StartFrame"
    \/ State = "Frame" /\ c.type \in {"InputValue", "EndFrame"}

Handled(c) ==
    \/ c.type \in {"Reset", "Message"}
    \/ State = "Ready" /\ c.type \in {"RegisterInput", "StartFrame"}
    \/ State = "Frame" /\ c.type \in {"InputValue", "EndFrame"}

\* The slip of acknowledging a frame before asking for the state.
ProcessAcknowledgesAnyFrame(c, ok) ==
    \/ c.type = "Reset" /\ Acknowledge("AcknowledgeReset", ok, "Ready", "OnReset")
    \/ c.type = "Message" /\ Broadcast("OnMessage", State)
    \/ /\ Handled(c)
       /\ \/ c.type = "RegisterInput" /\ Broadcast("OnRegisterInput", State)
          \/ c.type = "StartFrame" /\ Broadcast("OnFrameStart", "Frame")
          \/ c.type = "InputValue" /\ Broadcast("OnInputValue", State)
          \/ c.type = "EndFrame" /\ Acknowledge("AcknowledgeFrame", ok, "Ready", "OnFrameEnd")
    \/ /\ ~Handled(c)
       /\ IF c.type = "EndFrame" THEN Acknowledge("AcknowledgeFrame", ok, State, None)
                                 ELSE Broadcast(None, State)

Process(c, ok) ==
    \/ c.type = "Reset" /\ Acknowledge("AcknowledgeReset", ok, "Ready", "OnReset")
    \/ c.type = "Message" /\ Broadcast("OnMessage", State)
    \/ /\ Handled(c)
       /\ \/ c.type = "RegisterInput" /\ Broadcast("OnRegisterInput", State)
          \/ c.type = "StartFrame" /\ Broadcast("OnFrameStart", "Frame")
          \/ c.type = "InputValue" /\ Broadcast("OnInputValue", State)
          \/ c.type = "EndFrame" /\ Acknowledge("AcknowledgeFrame", ok, "Ready", "OnFrameEnd")
    \/ ~Handled(c) /\ IF State = "None" THEN Fail ELSE Broadcast(None, State)

\* The byte stream returned the command c.
Receive(c, ok) ==
    /\ tick = "receive"
    /\ Process(c, ok)
    /\ late' = FALSE

\* The slip of telling a device to reset only until it has been heard of.
ReceiveNothingOnlyInReset(ok) ==
    /\ tick = "receive"
    /\ IF late /\ State = "Reset"
          THEN IF ok THEN /\ tick' = "idle"
                          /\ reply' = "Reset"
                     ELSE tick' = "failed" /\ reply' = None
          ELSE tick' = "idle" /\ reply' = None
    /\ late' = FALSE
    /\ event' = None
    /\ UNCHANGED State

\* The slip of not looking at what Send returned.
ReceiveNothingIgnoresSend(ok) ==
    /\ tick = "receive"
    /\ tick' = "idle"
    /\ reply' = IF late /\ ok THEN "Reset" ELSE None
    /\ late' = FALSE
    /\ event' = None
    /\ UNCHANGED State

\* It returned nothing.  A late host empties the stream's buffer and tells
\* the device to reset; the state it is in stays.
ReceiveNothing(ok) ==
    /\ tick = "receive"
    /\ IF late THEN IF ok THEN /\ tick' = "idle"
                               /\ reply' = "Reset"
                          ELSE tick' = "failed" /\ reply' = None
               ELSE tick' = "idle" /\ reply' = None
    /\ late' = FALSE
    /\ event' = None
    /\ UNCHANGED State

=============================================================================
