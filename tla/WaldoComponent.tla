--------------------------- MODULE WaldoComponent ---------------------------
(***************************************************************************)
(* UWaldoComponent: the Blueprint-facing object.  It owns the serial port  *)
(* and the state machine, keeps the inputs the device registered and the   *)
(* values of the frame in progress, and hands a finished frame's values to *)
(* the delegates bound to their labels.                                    *)
(*                                                                         *)
(* Everything runs on the game thread, but not one call at a time: a       *)
(* Blueprint listening to a broadcast may call Connect, Disconnect, Bind   *)
(* and Unbind from inside Tick, and the loop of Tick then goes on with     *)
(* whatever the call has left behind.                                      *)
(***************************************************************************)
EXTENDS Naturals, Sequences, FiniteSets, Filter

CONSTANTS
    Command,        \* what a device sends: records with a type, RegisterInput
                    \* with an id and a label, InputValue with an id and a value
    Label,
    Delegate

ASSUME ComponentAssumption ==
    \A c \in Command : c.type = "RegisterInput" => c.label \in Label

VARIABLES
    State, tick, late, event, reply,    \* the state machine's
    begun,              \* BeginPlay has created the state machine
    connected,          \* SerialPort is valid
    callbacks,          \* the handlers are bound to the machine's delegates
    RegisteredInputs,
    FrameInputValues,
    InputBindings,
    executed            \* output: what the last step's deliveries were

Host == INSTANCE WaldoHostStateMachine

hostVars == <<State, tick, late, event, reply>>
inputVars == <<RegisteredInputs, FrameInputValues>>
componentVars == <<hostVars, begun, connected, callbacks, inputVars,
                   InputBindings, executed>>

InitWith(bindings) ==
    /\ Host!Init
    /\ begun = FALSE /\ connected = FALSE /\ callbacks = FALSE
    /\ RegisteredInputs = << >>
    /\ FrameInputValues = << >>
    /\ InputBindings = bindings
    /\ executed = {}

Bindings == [label : Label, delegate : Delegate]

\* A Blueprint is running: between ticks, or inside a tick because a
\* broadcast the component passes on has just called it.
InBlueprint ==
    \/ tick = "idle"
    \/ tick = "loop" /\ event \in {"OnReset", "OnMessage", "OnFrameEnd",
                                   "OnConnected", "OnDisconnected"}

-----------------------------------------------------------------------------
BeginPlay ==
    /\ ~begun
    /\ begun' = TRUE
    /\ UNCHANGED <<hostVars, connected, callbacks, inputVars, InputBindings,
                   executed>>

\* Connect, when Open succeeds.  A refused Connect changes nothing.
Connect ==
    /\ InBlueprint
    /\ begun /\ ~connected
    /\ connected' = TRUE
    /\ callbacks' = TRUE
    /\ Host!Reset
    /\ event' = "OnConnected"
    /\ executed' = {}
    /\ UNCHANGED <<begun, inputVars, InputBindings>>

\* The slip of closing the port and forgetting UnregisterCallbacks.
DetachKeepsCallbacks ==
    /\ connected
    /\ connected' = FALSE
    /\ event' = "OnDisconnected"
    /\ reply' = Host!None
    /\ executed' = {}
    /\ UNCHANGED <<State, late, begun, callbacks, inputVars, InputBindings>>

\* The part of Disconnect that is the same whoever calls it.
Detach ==
    /\ connected
    /\ connected' = FALSE
    /\ callbacks' = FALSE
    /\ event' = "OnDisconnected"
    /\ reply' = Host!None
    /\ executed' = {}
    /\ UNCHANGED <<State, late, begun, inputVars, InputBindings>>

Disconnect ==
    /\ InBlueprint
    /\ Detach
    /\ UNCHANGED tick

BindDelegateForInput ==
    /\ InBlueprint
    /\ \E l \in Label, d \in Delegate :
          InputBindings' = Append(InputBindings, [label |-> l, delegate |-> d])
    /\ UNCHANGED <<hostVars, begun, connected, callbacks, inputVars, executed>>

UnbindDelegateForInput ==
    /\ InBlueprint
    /\ \E l \in Label, d \in Delegate :
          InputBindings' = Only(InputBindings, Bindings \ {[label |-> l, delegate |-> d]})
    /\ UNCHANGED <<hostVars, begun, connected, callbacks, inputVars, executed>>

-----------------------------------------------------------------------------
\* The handlers of the state machine's delegates.

\* The slip of clearing the values of a frame only.
HandleResetKeepsInputs ==
    /\ FrameInputValues' = << >>
    /\ executed' = {}
    /\ UNCHANGED RegisteredInputs

HandleReset ==
    /\ RegisteredInputs' = << >>
    /\ FrameInputValues' = << >>
    /\ executed' = {}

HandleRegisterInput(c) ==
    /\ RegisteredInputs' = Append(RegisteredInputs, [id |-> c.id, label |-> c.label])
    /\ UNCHANGED FrameInputValues
    /\ executed' = {}

HandleFrameStart ==
    /\ FrameInputValues' = << >>
    /\ UNCHANGED RegisteredInputs
    /\ executed' = {}

\* The slip of taking a value's place in the frame for its input's id.
HandleInputValueByPlace(c) ==
    /\ FrameInputValues' = Append(FrameInputValues,
                                  [id |-> Len(FrameInputValues), value |-> c.value])
    /\ UNCHANGED RegisteredInputs
    /\ executed' = {}

HandleInputValue(c) ==
    /\ FrameInputValues' = Append(FrameInputValues, [id |-> c.id, value |-> c.value])
    /\ UNCHANGED RegisteredInputs
    /\ executed' = {}

\* The three nested loops of HandleFrameEnd: a delegate is executed for every
\* registered input, value of it, and binding of its label that meet.
Meetings(inputs, values, bindings) ==
    {m \in [input : DOMAIN inputs, at : DOMAIN values, binding : DOMAIN bindings] :
        /\ inputs[m.input].id = values[m.at].id
        /\ bindings[m.binding].label = inputs[m.input].label}

\* The slip of stopping at the first binding of a label.
FirstBindingOnly(inputs, values, bindings) ==
    {[delegate |-> bindings[m.binding].delegate, value |-> values[m.at].value,
      meeting |-> m] :
        m \in {n \in Meetings(inputs, values, bindings) :
                 \A o \in Meetings(inputs, values, bindings) :
                    o.input = n.input /\ o.at = n.at => n.binding <= o.binding}}

\* The meeting is kept, since a delegate may get equal values from several.
Deliveries(inputs, values, bindings) ==
    {[delegate |-> bindings[m.binding].delegate, value |-> values[m.at].value,
      meeting |-> m] : m \in Meetings(inputs, values, bindings)}

\* The slip of leaving the list to the next frame.
HandleFrameEndKeepsValues ==
    /\ executed' = Deliveries(RegisteredInputs, FrameInputValues, InputBindings)
    /\ UNCHANGED inputVars

HandleFrameEnd ==
    /\ executed' = Deliveries(RegisteredInputs, FrameInputValues, InputBindings)
    /\ FrameInputValues' = << >>
    /\ UNCHANGED RegisteredInputs

\* What a broadcast of the state machine does to the component.
Dispatch(delegate, c) ==
    \/ callbacks /\ delegate = "OnReset" /\ HandleReset
    \/ callbacks /\ delegate = "OnRegisterInput" /\ HandleRegisterInput(c)
    \/ callbacks /\ delegate = "OnFrameStart" /\ HandleFrameStart
    \/ callbacks /\ delegate = "OnInputValue" /\ HandleInputValue(c)
    \/ callbacks /\ delegate = "OnFrameEnd" /\ HandleFrameEnd
    \/ /\ ~callbacks \/ delegate \in {"OnMessage", Host!None}
       /\ executed' = {}
       /\ UNCHANGED inputVars

-----------------------------------------------------------------------------
TickComponent ==
    /\ connected
    /\ Host!BeginTick
    /\ executed' = {}
    /\ UNCHANGED <<begun, connected, callbacks, inputVars, InputBindings>>

BeginTurn ==
    /\ Host!BeginTurn
    /\ executed' = {}
    /\ UNCHANGED <<begun, connected, callbacks, inputVars, InputBindings>>

Receive(c, ok) ==
    /\ connected            \* a closed port has nothing available
    /\ Host!Receive(c, ok)
    /\ Dispatch(event', c)
    /\ UNCHANGED <<begun, connected, callbacks, InputBindings>>

ReceiveNothing(ok) ==
    /\ ok => connected      \* and takes no bytes
    /\ Host!ReceiveNothing(ok)
    /\ executed' = {}
    /\ UNCHANGED <<begun, connected, callbacks, inputVars, InputBindings>>

\* Tick returned false.
TickFailed ==
    /\ tick = "failed"
    /\ tick' = "idle"
    /\ \/ Detach
       \/ /\ ~connected     \* Disconnect refuses: not connected
          /\ event' = Host!None /\ reply' = Host!None /\ executed' = {}
          /\ UNCHANGED <<State, late, begun, connected, callbacks, inputVars,
                         InputBindings>>

-----------------------------------------------------------------------------
OfType(type) == {c \in Command : c.type = type}

Inputs == [id : {c.id : c \in OfType("RegisterInput")}, label : Label]
InputValues == {[id |-> c.id, value |-> c.value] : c \in OfType("InputValue")}

ComponentTypeOK ==
    /\ State \in Host!HostStates
    /\ tick \in {"idle", "loop", "receive", "failed"}
    /\ late \in BOOLEAN /\ begun \in BOOLEAN
    /\ connected \in BOOLEAN /\ callbacks \in BOOLEAN
    /\ RegisteredInputs \in Seq(Inputs)
    /\ FrameInputValues \in Seq(InputValues)
    /\ InputBindings \in Seq(Bindings)

(***************************************************************************)
(* The handlers are bound to the machine's delegates exactly while there   *)
(* is a port, also between the calls a callback nests: no event is handled *)
(* twice after a reconnect, and none after a disconnect.                   *)
(***************************************************************************)
CallbacksBoundIffConnected == callbacks <=> connected

=============================================================================
