----------------------------- MODULE WaldoPuppet -----------------------------
(***************************************************************************)
(* UWaldoComponent at one end of a serial cable, a device at the other.    *)
(*                                                                         *)
(* The cable carries commands: that bytes become commands, whole and in    *)
(* order, is what WaldoCommandByteStream shows.  What the byte stream may  *)
(* lose is lost here too, and so are commands that noise makes             *)
(* unrecognisable, and everything in flight when the plug is pulled.       *)
(*                                                                         *)
(* The device's program is not in the repository.  It is modelled from     *)
(* what the host expects of it: after power-up, or when told to reset, it  *)
(* sends Reset and waits for the acknowledgement; then it registers its    *)
(* inputs; then it sends frames, each after the last was acknowledged.     *)
(*                                                                         *)
(* Values carry the label the device means and the number of their frame,  *)
(* an EndFrame the number, too: what reaches the wrong delegate, or late,  *)
(* or with the wrong frame, can be told.                                   *)
(***************************************************************************)
EXTENDS WaldoComponent

CONSTANTS
    Device,
    InputsOf,       \* [Device -> Seq([id, label])]: an id names one input
    Losable,        \* types of the commands to the host that noise may hit,
                    \* or a host out of patience cut in two
    Prompt,         \* TRUE: whoever has something to say says it, and it is
                    \* heard, before MaxTimeBetweenCommands is over
    Endless,        \* TRUE: after frame MaxFrames comes frame 1 again
    MaxFrames,      \* bound: frames the devices send
    MaxLosses,      \* bound: commands lost to noise, or cut
    MaxUnplugs,     \* bound: times the cable is pulled
    MaxConnections, \* bound: successful calls of Connect
    HostCap,        \* bound: commands in flight to the host,
    DeviceCap       \*        and to the device

ASSUME PuppetAssumption ==
    /\ InputsOf \in [Device -> Seq([id : Nat, label : Label])]
    /\ \A d \in Device : \A i, j \in DOMAIN InputsOf[d] :
          InputsOf[d][i].id = InputsOf[d][j].id => InputsOf[d][i] = InputsOf[d][j]
    /\ IsFiniteSet(Label) /\ Delegate # {}
    /\ {Prompt, Endless} \subseteq BOOLEAN
    /\ {MaxFrames, MaxLosses, MaxUnplugs, MaxConnections,
     HostCap, DeviceCap} \subseteq Nat

VARIABLES
    device,         \* the device on the cable
    plugged,        \* there is one
    alive,          \* the port the host has open is that of this device
    toHost,         \* commands in flight
    toDevice,
    pc,             \* the device's program: "reset", "waitReset",
                    \* "register", "frame", "waitFrame"
    frame,          \* number of the last frame sent, by whichever device
    ended,          \* history: number of the last frame that ended
    hasty,          \* history: the host once lost patience while commands were
                    \* under way, or somebody was about to send one
    losses, unplugs, connections    \* counters for the bounds

cableVars == <<plugged, alive, toHost, toDevice>>
deviceVars == <<device, pc, frame>>
history == <<ended, hasty>>
counters == <<losses, unplugs, connections>>
vars == <<componentVars, cableVars, deviceVars, history, counters>>

\* Every label has a delegate before the component begins to play.
Init ==
    /\ InitWith(CHOOSE bindings \in [1..Cardinality(Label) -> [label : Label, delegate : Delegate]] :
                    {bindings[i].label : i \in DOMAIN bindings} = Label)
    /\ device \in Device
    /\ plugged = TRUE /\ alive = FALSE
    /\ toHost = << >> /\ toDevice = << >>
    /\ pc = "reset"
    /\ frame = 0
    /\ ended = 0 /\ hasty = FALSE
    /\ losses = 0 /\ unplugs = 0 /\ connections = 0

-----------------------------------------------------------------------------
\* What the host wrote travels to the device, if the port is still there.
Carry(command) ==
    toDevice' = IF command = Host!None THEN toDevice ELSE Append(toDevice, command)

\* A port is opened on a device that is running.  Opening purges the port's
\* queues, and on many boards it restarts the device.
OpenPort ==
    /\ Connect
    /\ plugged
    /\ connections < MaxConnections
    /\ connections' = connections + 1
    /\ alive' = TRUE
    /\ toHost' = << >> /\ toDevice' = << >>
    /\ pc' \in {pc, "reset"}
    /\ UNCHANGED <<plugged, device, frame, history, losses, unplugs>>

ClosedPort ==
    /\ alive' = FALSE
    /\ toHost' = << >> /\ toDevice' = << >>
    /\ UNCHANGED <<plugged, deviceVars, history, counters>>

ClosePort == Disconnect /\ ClosedPort

\* The device has nothing to say and nothing is under way.
Quiet ==
    /\ toHost = << >> /\ toDevice = << >>
    /\ \/ pc \in {"waitReset", "waitFrame"}
       \/ pc = "frame" /\ frame = MaxFrames /\ ~Endless
       \/ ~alive

HostTick == TickComponent /\ UNCHANGED <<cableVars, deviceVars, history, counters>>

HostTurn ==
    /\ BeginTurn
    /\ Prompt /\ late' => Quiet
    /\ hasty' = (hasty \/ (late' /\ ~Quiet))
    /\ UNCHANGED <<cableVars, deviceVars, ended, counters>>

HostReceive ==
    /\ toHost # << >>
    /\ Len(toDevice) < DeviceCap
    /\ Receive(Head(toHost), alive)
    /\ toHost' = Tail(toHost)
    /\ Carry(reply')
    /\ ended' = IF event' = "OnFrameEnd" THEN Head(toHost).frame ELSE ended
    /\ UNCHANGED <<plugged, alive, deviceVars, hasty, counters>>

\* All that arrived of the command under way, if any, is not yet all of it;
\* if the host gives up on it the rest will not make a command.
HostReceiveNothing ==
    /\ late => Len(toDevice) < DeviceCap
    /\ ReceiveNothing(alive)
    /\ Carry(reply')
    /\ \/ UNCHANGED <<toHost, losses>>
       \/ /\ late /\ toHost # << >>
          /\ losses < MaxLosses
          /\ Head(toHost).type \in Losable
          /\ toHost' = Tail(toHost)
          /\ losses' = losses + 1
    /\ UNCHANGED <<plugged, alive, deviceVars, history, unplugs, connections>>

HostTickFailed == TickFailed /\ ClosedPort

HostBegin == BeginPlay /\ UNCHANGED <<cableVars, deviceVars, history, counters>>

-----------------------------------------------------------------------------
\* The device.  Nobody hears it while the port is closed.
Say(commands) ==
    \/ ~alive /\ UNCHANGED toHost
    \/ /\ alive
       /\ Len(toHost) + Len(commands) <= HostCap
       /\ toHost' = toHost \o commands

Announce ==
    /\ plugged /\ pc = "reset"
    /\ Say(<<[type |-> "Reset"]>>)
    /\ pc' = "waitReset"
    /\ UNCHANGED <<device, frame, toDevice>>

Inputs_(d) == [i \in DOMAIN InputsOf[d] |->
    [type |-> "RegisterInput", id |-> InputsOf[d][i].id, label |-> InputsOf[d][i].label]]

\* A device may send text at any time; this one does so before its inputs.
Register ==
    /\ plugged /\ pc = "register"
    /\ Say(<<[type |-> "Message"]>> \o Inputs_(device))
    /\ pc' = "frame"
    /\ UNCHANGED <<device, frame, toDevice>>

FrameOf(d, n) ==
    <<[type |-> "StartFrame"]>>
    \o [i \in DOMAIN InputsOf[d] |->
          [type |-> "InputValue", id |-> InputsOf[d][i].id,
           value |-> [label |-> InputsOf[d][i].label, frame |-> n]]]
    \o <<[type |-> "EndFrame", frame |-> n]>>

SendFrame ==
    /\ plugged /\ pc = "frame"
    /\ \/ frame < MaxFrames /\ frame' = frame + 1
       \/ frame = MaxFrames /\ Endless /\ frame' = 1
    /\ Say(FrameOf(device, frame'))
    /\ pc' = "waitFrame"
    /\ UNCHANGED <<device, toDevice>>

\* Any Reset restarts the device; an acknowledgement counts where it waits.
Hear ==
    /\ plugged /\ toDevice # << >>
    /\ toDevice' = Tail(toDevice)
    /\ pc' = CASE Head(toDevice) = "Reset" -> "reset"
               [] Head(toDevice) = "AcknowledgeReset" /\ pc = "waitReset" -> "register"
               [] Head(toDevice) = "AcknowledgeFrame" /\ pc = "waitFrame" -> "frame"
               [] OTHER -> pc
    /\ UNCHANGED <<device, frame, toHost>>

DeviceStep == (Announce \/ Register \/ SendFrame \/ Hear)
              /\ UNCHANGED <<componentVars, plugged, alive, history, counters>>

-----------------------------------------------------------------------------
\* The cable.
Without(s, i) == SubSeq(s, 1, i - 1) \o SubSeq(s, i + 1, Len(s))

Lose ==
    /\ losses < MaxLosses
    /\ losses' = losses + 1
    /\ \/ \E i \in DOMAIN toHost :
             /\ toHost[i].type \in Losable
             /\ toHost' = Without(toHost, i)
             /\ UNCHANGED toDevice
       \/ \E i \in DOMAIN toDevice :
             /\ toDevice' = Without(toDevice, i)
             /\ UNCHANGED toHost
    /\ UNCHANGED <<componentVars, plugged, alive, deviceVars, history, unplugs, connections>>

Unplug ==
    /\ plugged
    /\ unplugs < MaxUnplugs
    /\ unplugs' = unplugs + 1
    /\ plugged' = FALSE /\ alive' = FALSE
    /\ toHost' = << >> /\ toDevice' = << >>
    /\ UNCHANGED <<componentVars, deviceVars, history, losses, connections>>

Plug ==
    /\ ~plugged
    /\ plugged' = TRUE
    /\ device' \in Device
    /\ pc' = "reset"
    /\ UNCHANGED <<componentVars, alive, toHost, toDevice, frame, history, counters>>

HostStep == HostBegin \/ HostTick \/ HostTurn \/ HostReceive \/ HostReceiveNothing
            \/ HostTickFailed

Next == HostStep \/ OpenPort \/ ClosePort \/ DeviceStep \/ Lose \/ Unplug \/ Plug

Spec == Init /\ [][Next]_vars

(***************************************************************************)
(* The engine ticks the component for ever, a port that goes on being read *)
(* yields what is on its way, the device runs, and time passes: a host     *)
(* that may find itself late again and again does so at last.  Nothing is  *)
(* assumed of Blueprints, of noise, or of the hand at the plug.            *)
(***************************************************************************)
FairSpec ==
    /\ Spec
    /\ WF_vars(HostTick) /\ WF_vars(HostTurn)
    /\ WF_vars(HostReceiveNothing) /\ WF_vars(HostTickFailed)
    /\ SF_vars(HostReceive) /\ SF_vars(HostTurn /\ late')
    /\ WF_vars(DeviceStep)

-----------------------------------------------------------------------------
(***************************************************************************)
(* A delegate is only ever given a value of the input its label names,     *)
(* also after another device with other ids has been plugged in, and after *)
(* a reconnect to a device that never noticed.                             *)
(***************************************************************************)
ValuesReachTheirLabel ==
    \A x \in executed : InputBindings[x.meeting.binding].label = x.value.label

\* Something that was sent may not have been heard.
Lossy == losses > 0 \/ unplugs > 0 \/ connections > 1

(***************************************************************************)
(* What the delegates are given at the end of a frame are values of that   *)
(* frame and no other, each given to its delegate once, however resets,    *)
(* retries, losses and replugs interleave; but for commands lost to a host *)
(* that, besides, lost patience too soon.                                  *)
(***************************************************************************)
FramesDoNotMix ==
    ~(hasty /\ Lossy) =>
        \A x, y \in executed :
            /\ x.value.frame = ended
            /\ x.value = y.value /\ x.delegate = y.delegate => x = y

(***************************************************************************)
(* A device that goes on to its next frame does so because the host has    *)
(* dealt with this one: no acknowledgement is taken for another's.         *)
(***************************************************************************)
AcknowledgedFrameEnded ==
    [][pc = "waitFrame" /\ pc' = "frame" => ended = frame]_vars

(***************************************************************************)
(* A device that stays on a port that stays open gets its frames through   *)
(* again and again, whatever was lost on the way.                          *)
(***************************************************************************)
FramesKeepFlowing == <>[]alive => []<>(event = "OnFrameEnd")

\* A component whose device is gone ends up disconnected.
UnplugIsNoticed == connected /\ ~alive ~> ~connected

=============================================================================
