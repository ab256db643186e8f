-------------------------- MODULE WaldoPuppetProofs --------------------------
(***************************************************************************)
(* For every set of devices, whatever inputs they have, however often they *)
(* are swapped and whatever is lost: a delegate is only given values of    *)
(* the input its label names.  An acknowledgement that arrives in time is  *)
(* of the frame the device sent last.  And a frame's deliveries are of     *)
(* that frame, each once, unless commands were lost to a host that lost    *)
(* patience besides.                                                       *)
(***************************************************************************)
EXTENDS WaldoPuppet, SequenceTheorems, FiniteSetTheorems, FunctionTheorems, TLAPS

Descriptions == [id : Nat, label : Label]

InputsFrom(d) == {InputsOf[d][i] : i \in DOMAIN InputsOf[d]}

ValuesFrom(d) == {[id |-> in.id, value |-> [label |-> in.label, frame |-> n]] :
                    in \in InputsFrom(d), n \in Nat}

\* The commands a device sends.
SentBy(d) ==
    {[type |-> t] : t \in {"Reset", "Message", "StartFrame"}}
    \cup {[type |-> "EndFrame", frame |-> n] : n \in Nat}
    \cup {[type |-> "RegisterInput", id |-> in.id, label |-> in.label] : in \in InputsFrom(d)}
    \cup {[type |-> "InputValue", id |-> in.id, value |-> [label |-> in.label, frame |-> n]] :
            in \in InputsFrom(d), n \in Nat}

\* What is in flight on a live port is of the device at its other end; and a
\* host that has heard a Reset on the port holds nothing of another device,
\* though it may hold anything before.
OfOneDevice ==
    /\ device \in Device /\ frame \in Nat
    /\ alive => connected /\ plugged
    /\ callbacks <=> connected
    /\ toHost # << >> => alive
    /\ toHost \in Seq(SentBy(device))
    /\ alive /\ State \in {"Ready", "Frame"} =>
         /\ RegisteredInputs \in Seq(InputsFrom(device))
         /\ FrameInputValues \in Seq(ValuesFrom(device))

Inv == OfOneDevice /\ ValuesReachTheirLabel

-----------------------------------------------------------------------------
\* An id names one input, so a value meets the bindings of its own label.
LEMMA DeliveriesReachTheirLabel ==
    ASSUME NEW d \in Device, NEW inputs \in Seq(InputsFrom(d)),
           NEW values \in Seq(ValuesFrom(d)), NEW bindings,
           NEW x \in Deliveries(inputs, values, bindings)
    PROVE  bindings[x.meeting.binding].label = x.value.label
<1>1. PICK m \in Meetings(inputs, values, bindings) :
         x = [delegate |-> bindings[m.binding].delegate, value |-> values[m.at].value,
              meeting |-> m]
  BY DEF Deliveries
<1>2. /\ m.input \in DOMAIN inputs /\ m.at \in DOMAIN values
      /\ inputs[m.input].id = values[m.at].id
      /\ bindings[m.binding].label = inputs[m.input].label
  BY DEF Meetings
<1>3. inputs[m.input] \in InputsFrom(d) /\ values[m.at] \in ValuesFrom(d)
  BY <1>2
<1>4. PICK i \in DOMAIN InputsOf[d] : inputs[m.input] = InputsOf[d][i]
  BY <1>3 DEF InputsFrom
<1>5. PICK in \in InputsFrom(d), n \in Nat :
         values[m.at] = [id |-> in.id, value |-> [label |-> in.label, frame |-> n]]
  <2>1. \A v \in ValuesFrom(d) : \E in \in InputsFrom(d), n \in Nat :
           v = [id |-> in.id, value |-> [label |-> in.label, frame |-> n]]
    BY DEF ValuesFrom
  <2> QED BY <1>3, <2>1
<1>6. PICK j \in DOMAIN InputsOf[d] : in = InputsOf[d][j]
  BY <1>5 DEF InputsFrom
<1>7. InputsOf[d][i] = InputsOf[d][j]
  <2>1. InputsOf[d][i].id = InputsOf[d][j].id
    BY <1>2, <1>4, <1>5, <1>6
  <2> QED BY <2>1, PuppetAssumption
<1>8. x.meeting.binding = m.binding /\ x.value = values[m.at].value
  BY <1>1
<1> QED BY <1>2, <1>4, <1>5, <1>6, <1>7, <1>8

\* What the handlers keep of a device's commands is of the device.
LEMMA SentBecomesHeard ==
    ASSUME NEW d \in Device, NEW c \in SentBy(d)
    PROVE  /\ c.type = "RegisterInput" => [id |-> c.id, label |-> c.label] \in InputsFrom(d)
           /\ c.type = "InputValue" => [id |-> c.id, value |-> c.value] \in ValuesFrom(d)
<1>1. CASE c \in {[type |-> t] : t \in {"Reset", "Message", "StartFrame"}}
  BY <1>1
<1>2. CASE c \in {[type |-> "EndFrame", frame |-> n] : n \in Nat}
  BY <1>2
<1>3. CASE c \in {[type |-> "RegisterInput", id |-> in.id, label |-> in.label] :
                    in \in InputsFrom(d)}
  <2>1. PICK in \in InputsFrom(d) : c = [type |-> "RegisterInput", id |-> in.id, label |-> in.label]
    BY <1>3
  <2>2. in \in Descriptions
    <3>1. InputsOf[d] \in Seq(Descriptions)
      BY PuppetAssumption DEF Descriptions
    <3>2. PICK i \in DOMAIN InputsOf[d] : in = InputsOf[d][i]
      BY <2>1 DEF InputsFrom
    <3> QED BY <3>1, <3>2
  <2>3. [id |-> in.id, label |-> in.label] = in
    BY <2>2 DEF Descriptions
  <2> QED BY <2>1, <2>3
<1>4. CASE c \in {[type |-> "InputValue", id |-> in.id,
                   value |-> [label |-> in.label, frame |-> n]] :
                    in \in InputsFrom(d), n \in Nat}
  BY <1>4 DEF ValuesFrom
<1> QED BY <1>1, <1>2, <1>3, <1>4 DEF SentBy

-----------------------------------------------------------------------------
\* Words on the cable: what a device says, and what noise leaves of it.
LEMMA SayKeepsQueue ==
    ASSUME NEW T, toHost \in Seq(T), NEW commands \in Seq(T), Say(commands),
           toHost # << >> => alive
    PROVE  toHost' \in Seq(T) /\ (toHost' # << >> => alive)
<1>1. CASE ~alive /\ UNCHANGED toHost
  BY <1>1
<1>2. CASE alive /\ toHost' = toHost \o commands
  BY <1>2
<1> QED BY <1>1, <1>2 DEF Say

\* A loss leaves a sequence of what there was.
LEMMA WithoutIsSeq ==
    ASSUME NEW T, NEW s \in Seq(T), NEW i \in DOMAIN s
    PROVE  Without(s, i) \in Seq(T)
<1>1. SubSeq(s, 1, i - 1) \in Seq(T) /\ SubSeq(s, i + 1, Len(s)) \in Seq(T)
  OBVIOUS
<1> QED BY <1>1 DEF Without

\* What a device says are its own commands.
LEMMA DeviceSaysItsOwn ==
    ASSUME NEW d \in Device, NEW n \in Nat
    PROVE  /\ <<[type |-> "Reset"]>> \in Seq(SentBy(d))
           /\ <<[type |-> "Message"]>> \o Inputs_(d) \in Seq(SentBy(d))
           /\ FrameOf(d, n) \in Seq(SentBy(d))
<1>1. InputsOf[d] \in Seq([id : Nat, label : Label])
  BY PuppetAssumption
<1>2. \A i \in DOMAIN InputsOf[d] : InputsOf[d][i] \in InputsFrom(d)
  BY DEF InputsFrom
<1>3. \A t \in {"Reset", "Message", "StartFrame"} : [type |-> t] \in SentBy(d)
  BY DEF SentBy
<1>4. [type |-> "EndFrame", frame |-> n] \in SentBy(d)
  BY DEF SentBy
<1>5. ASSUME NEW in \in InputsFrom(d)
      PROVE  [type |-> "RegisterInput", id |-> in.id, label |-> in.label] \in SentBy(d)
  <2>1. [type |-> "RegisterInput", id |-> in.id, label |-> in.label]
          \in {[type |-> "RegisterInput", id |-> x.id, label |-> x.label] : x \in InputsFrom(d)}
    OBVIOUS
  <2> QED BY <2>1 DEF SentBy
<1>6. \A in \in InputsFrom(d) :
         [type |-> "InputValue", id |-> in.id,
          value |-> [label |-> in.label, frame |-> n]] \in SentBy(d)
  BY DEF SentBy
<1>7. DOMAIN InputsOf[d] = 1..Len(InputsOf[d]) /\ Len(InputsOf[d]) \in Nat
  BY <1>1
<1>8. Inputs_(d) \in Seq(SentBy(d))
  BY <1>2, <1>5, <1>7 DEF Inputs_
<1> DEFINE values == [i \in DOMAIN InputsOf[d] |->
                        [type |-> "InputValue", id |-> InputsOf[d][i].id,
                         value |-> [label |-> InputsOf[d][i].label, frame |-> n]]]
<1>9. values \in Seq(SentBy(d))
  BY <1>2, <1>6, <1>7
<1> HIDE DEF values
<1>10. /\ <<[type |-> "Reset"]>> \in Seq(SentBy(d)) /\ <<[type |-> "Message"]>> \in Seq(SentBy(d))
       /\ <<[type |-> "StartFrame"]>> \in Seq(SentBy(d))
       /\ <<[type |-> "EndFrame", frame |-> n]>> \in Seq(SentBy(d))
  BY <1>3, <1>4
<1>11. FrameOf(d, n) \in Seq(SentBy(d))
  BY <1>9, <1>10 DEF FrameOf, values
<1> QED BY <1>8, <1>10, <1>11

\* A command of the device adds to the lists only what is of the device.
LEMMA ReceiveKeepsLists ==
    ASSUME NEW d \in Device, NEW c \in SentBy(d), NEW ok \in BOOLEAN,
           Receive(c, ok), callbacks,
           State \in {"Ready", "Frame"} => /\ RegisteredInputs \in Seq(InputsFrom(d))
                                           /\ FrameInputValues \in Seq(ValuesFrom(d)),
           State' \in {"Ready", "Frame"}
    PROVE  /\ RegisteredInputs' \in Seq(InputsFrom(d))
           /\ FrameInputValues' \in Seq(ValuesFrom(d))
           /\ executed' = {} \/ \A x \in executed' :
                 InputBindings[x.meeting.binding].label = x.value.label
<1>1. Host!Process(c, ok) /\ Dispatch(event', c)
  BY DEF Receive, Host!Receive
<1>2. << >> \in Seq(InputsFrom(d)) /\ << >> \in Seq(ValuesFrom(d))
  BY EmptySeq
<1>3. CASE event' = "OnReset"
  BY <1>1, <1>2, <1>3 DEF Dispatch, HandleReset, Host!None
<1>4. event' # "OnReset" => State \in {"Ready", "Frame"}
  BY <1>1 DEF Host!Process, Host!Acknowledge, Host!Broadcast, Host!Fail, Host!Handled
<1>5. CASE event' = "OnRegisterInput"
  <2>1. c.type = "RegisterInput"
    BY <1>1, <1>5 DEF Host!Process, Host!Acknowledge, Host!Broadcast, Host!Fail, Host!None
  <2>2. [id |-> c.id, label |-> c.label] \in InputsFrom(d)
    BY <2>1, SentBecomesHeard
  <2>3. /\ RegisteredInputs' = Append(RegisteredInputs, [id |-> c.id, label |-> c.label])
        /\ FrameInputValues' = FrameInputValues /\ executed' = {}
    BY <1>1, <1>5 DEF Dispatch, HandleRegisterInput, Host!None
  <2>4. RegisteredInputs \in Seq(InputsFrom(d)) /\ FrameInputValues \in Seq(ValuesFrom(d))
    BY <1>4, <1>5
  <2> QED BY <2>2, <2>3, <2>4
<1>6. CASE event' = "OnInputValue"
  <2>1. c.type = "InputValue"
    BY <1>1, <1>6 DEF Host!Process, Host!Acknowledge, Host!Broadcast, Host!Fail, Host!None
  <2>2. [id |-> c.id, value |-> c.value] \in ValuesFrom(d)
    BY <2>1, SentBecomesHeard
  <2>3. /\ FrameInputValues' = Append(FrameInputValues, [id |-> c.id, value |-> c.value])
        /\ RegisteredInputs' = RegisteredInputs /\ executed' = {}
    BY <1>1, <1>6 DEF Dispatch, HandleInputValue, Host!None
  <2>4. RegisteredInputs \in Seq(InputsFrom(d)) /\ FrameInputValues \in Seq(ValuesFrom(d))
    BY <1>4, <1>6
  <2> QED BY <2>2, <2>3, <2>4
<1>7. CASE event' = "OnFrameStart"
  BY <1>1, <1>2, <1>4, <1>7 DEF Dispatch, HandleFrameStart, Host!None
<1>8. CASE event' = "OnFrameEnd"
  <2>1. executed' = Deliveries(RegisteredInputs, FrameInputValues, InputBindings)
        /\ FrameInputValues' = << >> /\ RegisteredInputs' = RegisteredInputs
    BY <1>1, <1>8 DEF Dispatch, HandleFrameEnd, Host!None
  <2> QED BY <1>2, <1>4, <1>8, <2>1, DeliveriesReachTheirLabel
<1>9. CASE event' \in {"OnMessage", Host!None}
  BY <1>1, <1>4, <1>9 DEF Dispatch, Host!None, inputVars
<1> QED
  BY <1>1, <1>3, <1>5, <1>6, <1>7, <1>8, <1>9 DEF Dispatch, Host!None

\* A step of the host that leaves the device alone and hears nothing.
LEMMA QuietStep ==
    ASSUME Inv, UNCHANGED <<device, frame, RegisteredInputs, FrameInputValues, InputBindings>>,
           alive' => connected' /\ plugged', callbacks' <=> connected',
           toHost' # << >> => alive', toHost' \in Seq(SentBy(device)),
           executed' = {} \/ UNCHANGED executed,
           alive' => State' = "Reset" \/ (alive /\ UNCHANGED State)
    PROVE  Inv'
<1>1. OfOneDevice'
  BY DEF Inv, OfOneDevice
<1>2. ValuesReachTheirLabel'
  BY DEF Inv, ValuesReachTheirLabel
<1> QED BY <1>1, <1>2 DEF Inv

\* Nothing is under way at the start.
LEMMA InitEstablishesInv == Init => Inv
<1> SUFFICES ASSUME Init PROVE Inv
  OBVIOUS
<1>1. << >> \in Seq(SentBy(device))
  BY EmptySeq
<1> QED BY <1>1 DEF Init, InitWith, Inv, OfOneDevice, ValuesReachTheirLabel

\* Step by step: only a live port carries commands, and only of its device.
LEMMA NextKeepsInv == Inv /\ [Next]_vars => Inv'
<1> SUFFICES ASSUME Inv, [Next]_vars PROVE Inv'
  OBVIOUS
<1>1. /\ device \in Device /\ frame \in Nat
      /\ alive => connected /\ plugged
      /\ callbacks <=> connected
      /\ toHost # << >> => alive
      /\ toHost \in Seq(SentBy(device))
  BY DEF Inv, OfOneDevice
<1>2. << >> \in Seq(SentBy(device))
  BY EmptySeq
<1>3. CASE OpenPort
  <2>1. /\ connected' /\ callbacks' /\ State' = "Reset" /\ executed' = {}
        /\ UNCHANGED <<device, frame, plugged, RegisteredInputs, FrameInputValues, InputBindings>>
        /\ plugged /\ toHost' = << >>
    BY <1>3 DEF OpenPort, Connect, Host!Reset, inputVars
  <2> QED BY <1>2, <2>1, QuietStep
<1>4. CASE ClosePort \/ HostTickFailed
  <2>1. /\ ~alive' /\ toHost' = << >> /\ UNCHANGED <<device, frame>>
    BY <1>4 DEF ClosePort, HostTickFailed, ClosedPort, deviceVars
  <2>2. /\ callbacks' <=> connected'
        /\ executed' = {}
        /\ UNCHANGED <<RegisteredInputs, FrameInputValues, InputBindings>>
    BY <1>1, <1>4 DEF ClosePort, HostTickFailed, Disconnect, TickFailed, Detach, inputVars
  <2> QED BY <1>2, <2>1, <2>2, QuietStep
<1>5. CASE HostBegin
  <2>1. UNCHANGED <<device, frame, RegisteredInputs, FrameInputValues, InputBindings, alive,
                    connected, plugged, callbacks, toHost, executed, State>>
    BY <1>5 DEF HostBegin, BeginPlay, cableVars, deviceVars, hostVars, inputVars
  <2> QED BY <1>1, <2>1, QuietStep
<1>6. CASE HostTick \/ HostTurn
  <2>1. /\ UNCHANGED <<device, frame, RegisteredInputs, FrameInputValues, InputBindings, alive,
                       connected, plugged, callbacks, toHost, State>>
        /\ executed' = {}
    BY <1>6 DEF HostTick, HostTurn, TickComponent, BeginTurn, Host!BeginTick, Host!BeginTurn,
                cableVars, deviceVars, inputVars
  <2> QED BY <1>1, <2>1, QuietStep
<1>7. CASE HostReceiveNothing
  <2>1. /\ UNCHANGED <<device, frame, RegisteredInputs, FrameInputValues, InputBindings, alive,
                       connected, plugged, callbacks, State>>
        /\ executed' = {}
    BY <1>7 DEF HostReceiveNothing, ReceiveNothing, Host!ReceiveNothing, deviceVars, inputVars
  <2>2. toHost' = toHost \/ (toHost # << >> /\ toHost' = Tail(toHost))
    BY <1>7 DEF HostReceiveNothing
  <2>3. toHost' \in Seq(SentBy(device)) /\ (toHost' # << >> => alive)
    BY <1>1, <2>2
  <2> QED BY <1>1, <2>1, <2>3, QuietStep
<1>8. CASE HostReceive
  <2> DEFINE c == Head(toHost)
  <2>1. /\ alive /\ connected /\ callbacks /\ c \in SentBy(device)
        /\ toHost' = Tail(toHost) /\ toHost' \in Seq(SentBy(device))
    BY <1>1, <1>8 DEF HostReceive
  <2>2. Receive(c, alive) /\ UNCHANGED <<device, frame, plugged, alive>>
    BY <1>8 DEF HostReceive, deviceVars
  <2>3. UNCHANGED <<connected, callbacks, InputBindings>>
    BY <2>2 DEF Receive
  <2>4. State \in {"Ready", "Frame"} => /\ RegisteredInputs \in Seq(InputsFrom(device))
                                        /\ FrameInputValues \in Seq(ValuesFrom(device))
    BY <2>1 DEF Inv, OfOneDevice
  <2>5. Receive(c, TRUE)
    BY <2>1, <2>2
  <2> HIDE DEF c
  <2>6. CASE State' \in {"Ready", "Frame"}
    <3>1. /\ RegisteredInputs' \in Seq(InputsFrom(device))
          /\ FrameInputValues' \in Seq(ValuesFrom(device))
          /\ executed' = {} \/ \A x \in executed' :
                InputBindings[x.meeting.binding].label = x.value.label
      BY <1>1, <2>1, <2>4, <2>5, <2>6, ReceiveKeepsLists
    <3>2. OfOneDevice'
      BY <1>1, <2>1, <2>2, <2>3, <3>1 DEF OfOneDevice
    <3>3. ValuesReachTheirLabel'
      BY <2>3, <3>1 DEF ValuesReachTheirLabel
    <3> QED BY <3>2, <3>3 DEF Inv
  <2>7. CASE State' \notin {"Ready", "Frame"}
    <3>1. OfOneDevice'
      BY <1>1, <2>1, <2>2, <2>3, <2>7 DEF OfOneDevice
    <3>2. event' \in {"OnMessage", Host!None}
      BY <2>5, <2>4, <2>7 DEF Receive, Host!Receive, Host!Process, Host!Acknowledge,
         Host!Broadcast, Host!Fail, Host!Handled
    <3>3. executed' = {}
      BY <2>5, <3>2 DEF Receive, Dispatch, Host!None
    <3>4. ValuesReachTheirLabel'
      BY <3>3 DEF ValuesReachTheirLabel
    <3> QED BY <3>1, <3>4 DEF Inv
  <2> QED BY <2>6, <2>7
<1>9. CASE DeviceStep
  <2>1. UNCHANGED <<State, RegisteredInputs, FrameInputValues, InputBindings, alive, connected,
                    plugged, callbacks, executed>>
    BY <1>9 DEF DeviceStep, componentVars, hostVars, inputVars
  <2>2. device' = device
    BY <1>9 DEF DeviceStep, Announce, Register, SendFrame, Hear
  <2>3. frame' \in Nat
    BY <1>1, <1>9 DEF DeviceStep, Announce, Register, SendFrame, Hear
  <2>4. UNCHANGED toHost \/ \E commands \in Seq(SentBy(device)) : Say(commands)
    BY <1>1, <1>9, <2>3, DeviceSaysItsOwn DEF DeviceStep, Announce, Register, SendFrame, Hear
  <2>5. toHost' \in Seq(SentBy(device)) /\ (toHost' # << >> => alive)
    BY <1>1, <2>4, SayKeepsQueue
  <2>6. OfOneDevice'
    BY <1>1, <2>1, <2>2, <2>3, <2>5 DEF Inv, OfOneDevice
  <2>7. ValuesReachTheirLabel'
    BY <2>1 DEF Inv, ValuesReachTheirLabel
  <2> QED BY <2>6, <2>7 DEF Inv
<1>10. CASE Lose
  <2>1. UNCHANGED <<device, frame, RegisteredInputs, FrameInputValues, InputBindings, alive,
                    connected, plugged, callbacks, State, executed>>
    BY <1>10 DEF Lose, componentVars, hostVars, inputVars, deviceVars
  <2>2. UNCHANGED toHost \/ \E i \in DOMAIN toHost : toHost' = Without(toHost, i)
    BY <1>10 DEF Lose
  <2>3. toHost' \in Seq(SentBy(device))
    BY <1>1, <2>2, WithoutIsSeq
  <2>4. toHost = << >> => DOMAIN toHost = {}
    OBVIOUS
  <2>5. toHost' # << >> => alive
    BY <1>1, <2>2, <2>4
  <2> QED BY <1>1, <2>1, <2>3, <2>5, QuietStep
<1>11. CASE Unplug
  <2>1. /\ ~alive' /\ toHost' = << >>
        /\ UNCHANGED <<device, frame, RegisteredInputs, FrameInputValues, InputBindings,
                       connected, callbacks, State, executed>>
    BY <1>11 DEF Unplug, componentVars, hostVars, inputVars, deviceVars
  <2> QED BY <1>1, <1>2, <2>1, QuietStep
<1>12. CASE Plug
  <2>1. /\ device' \in Device /\ ~alive /\ ~alive' /\ toHost' = toHost /\ toHost = << >>
        /\ UNCHANGED <<frame, InputBindings, connected, callbacks, executed>>
    BY <1>1, <1>12 DEF Plug, componentVars, hostVars, inputVars
  <2>2. toHost' \in Seq(SentBy(device'))
    BY <2>1, EmptySeq
  <2>3. OfOneDevice'
    BY <1>1, <2>1, <2>2 DEF OfOneDevice
  <2>4. ValuesReachTheirLabel'
    BY <2>1 DEF Inv, ValuesReachTheirLabel
  <2> QED BY <2>3, <2>4 DEF Inv
<1>13. CASE UNCHANGED vars
  <2>1. UNCHANGED <<device, frame, RegisteredInputs, FrameInputValues, InputBindings, alive,
                    connected, plugged, callbacks, toHost, State, executed>>
    BY <1>13 DEF vars, componentVars, hostVars, inputVars, cableVars, deviceVars
  <2> QED BY <1>1, <2>1, QuietStep
<1> QED
  BY <1>3, <1>4, <1>5, <1>6, <1>7, <1>8, <1>9, <1>10, <1>11, <1>12, <1>13
  DEF Next, HostStep

\* All that the theorems below rest on.
LEMMA InvIsInvariant == Spec => []Inv
BY InitEstablishesInv, NextKeepsInv, PTL DEF Spec

\* After replugs of devices whose ids mean other things, and reconnects a
\* device never noticed: no delegate is given a value of another label.
THEOREM LabelsAreRight == Spec => []ValuesReachTheirLabel
<1>1. Inv => ValuesReachTheirLabel
  BY DEF Inv
<1> QED BY <1>1, InvIsInvariant, PTL

-----------------------------------------------------------------------------
\* What a command on its way does when it is heard.
Unheard(c) == /\ c.type # "Reset"
              /\ c.type \in {"RegisterInput", "StartFrame"} => State # "Ready"
              /\ c.type \in {"InputValue", "EndFrame"} => State # "Frame"

\* A heard command is handled in one of five ways, or changes nothing.
LEMMA HeardCommand ==
    ASSUME Inv, HostReceive
    PROVE  LET c == Head(toHost)
               Same == UNCHANGED <<State, RegisteredInputs, FrameInputValues, toDevice, ended>>
                       /\ executed' = {}
           IN  \/ /\ c.type = "Reset" /\ State' = "Ready"
                  /\ RegisteredInputs' = << >> /\ FrameInputValues' = << >> /\ executed' = {}
                  /\ toDevice' = Append(toDevice, "AcknowledgeReset") /\ ended' = ended
               \/ /\ c.type = "RegisterInput" /\ State = "Ready" /\ State' = "Ready"
                  /\ RegisteredInputs' = Append(RegisteredInputs, [id |-> c.id, label |-> c.label])
                  /\ executed' = {}
                  /\ UNCHANGED <<FrameInputValues, toDevice, ended>>
               \/ /\ c.type = "StartFrame" /\ State = "Ready" /\ State' = "Frame"
                  /\ FrameInputValues' = << >> /\ executed' = {}
                  /\ UNCHANGED <<RegisteredInputs, toDevice, ended>>
               \/ /\ c.type = "InputValue" /\ State = "Frame" /\ State' = "Frame"
                  /\ FrameInputValues' = Append(FrameInputValues, [id |-> c.id, value |-> c.value])
                  /\ executed' = {}
                  /\ UNCHANGED <<RegisteredInputs, toDevice, ended>>
               \/ /\ c.type = "EndFrame" /\ State = "Frame" /\ State' = "Ready"
                  /\ executed' = Deliveries(RegisteredInputs, FrameInputValues, InputBindings)
                  /\ FrameInputValues' = << >> /\ RegisteredInputs' = RegisteredInputs
                  /\ toDevice' = Append(toDevice, "AcknowledgeFrame") /\ ended' = c.frame
               \/ Unheard(c) /\ Same
<1> DEFINE c == Head(toHost)
<1>1. /\ alive /\ connected /\ callbacks
  BY DEF Inv, OfOneDevice, HostReceive
<1>2. /\ Receive(c, TRUE) /\ Carry(reply')
      /\ ended' = IF event' = "OnFrameEnd" THEN c.frame ELSE ended
  BY <1>1 DEF HostReceive
<1> HIDE DEF c
<1>3. Host!Process(c, TRUE) /\ Dispatch(event', c)
  BY <1>2 DEF Receive, Host!Receive
<1>4. reply' = Host!None => toDevice' = toDevice
  BY <1>2 DEF Carry
<1>5. reply' # Host!None => toDevice' = Append(toDevice, reply')
  BY <1>2 DEF Carry
<1>6. CASE c.type = "Reset"
  <2>1. State' = "Ready" /\ event' = "OnReset" /\ reply' = "AcknowledgeReset"
    BY <1>3, <1>6 DEF Host!Process, Host!Acknowledge, Host!Handled
  <2> QED BY <1>1, <1>2, <1>3, <1>5, <1>6, <2>1 DEF Dispatch, HandleReset, Host!None, c
<1>7. CASE c.type = "RegisterInput" /\ State = "Ready"
  <2>1. State' = State /\ event' = "OnRegisterInput" /\ reply' = Host!None
    BY <1>3, <1>7 DEF Host!Process, Host!Broadcast, Host!Handled
  <2> QED BY <1>1, <1>2, <1>3, <1>4, <1>7, <2>1 DEF Dispatch, HandleRegisterInput, Host!None, c
<1>8. CASE c.type = "StartFrame" /\ State = "Ready"
  <2>1. State' = "Frame" /\ event' = "OnFrameStart" /\ reply' = Host!None
    BY <1>3, <1>8 DEF Host!Process, Host!Broadcast, Host!Handled
  <2> QED BY <1>1, <1>2, <1>3, <1>4, <1>8, <2>1 DEF Dispatch, HandleFrameStart, Host!None, c
<1>9. CASE c.type = "InputValue" /\ State = "Frame"
  <2>1. State' = State /\ event' = "OnInputValue" /\ reply' = Host!None
    BY <1>3, <1>9 DEF Host!Process, Host!Broadcast, Host!Handled
  <2> QED BY <1>1, <1>2, <1>3, <1>4, <1>9, <2>1 DEF Dispatch, HandleInputValue, Host!None, c
<1>10. CASE c.type = "EndFrame" /\ State = "Frame"
  <2>1. State' = "Ready" /\ event' = "OnFrameEnd" /\ reply' = "AcknowledgeFrame"
    BY <1>3, <1>10 DEF Host!Process, Host!Acknowledge, Host!Handled
  <2> QED BY <1>1, <1>2, <1>3, <1>5, <1>10, <2>1 DEF Dispatch, HandleFrameEnd, Host!None, c
<1>11. CASE Unheard(c)
  <2>1. c.type = "Message" \/ ~Host!Handled(c)
    BY <1>11 DEF Unheard, Host!Handled
  <2>2. c.type # "Message" => ~Host!Handled(c)
    BY <2>1
  <2>3. c.type = "Message" => event' = "OnMessage" /\ State' = State /\ reply' = Host!None
    BY <1>3 DEF Host!Process, Host!Broadcast, Host!Handled
  <2>4. ~Host!Handled(c) => event' = Host!None /\ State' = State /\ reply' = Host!None
    BY <1>3 DEF Host!Process, Host!Broadcast, Host!Handled, Host!Fail
  <2>5. /\ event' \in {"OnMessage", Host!None} /\ State' = State /\ reply' = Host!None
    BY <2>2, <2>3, <2>4
  <2>6. executed' = {} /\ UNCHANGED inputVars
    BY <1>3, <2>5 DEF Dispatch, Host!None
  <2>7. ended' = ended /\ toDevice' = toDevice
    BY <1>2, <1>4, <2>5 DEF Host!None
  <2> QED BY <1>11, <2>5, <2>6, <2>7 DEF c, inputVars
<1>12. \/ c.type = "Reset" \/ (c.type = "RegisterInput" /\ State = "Ready")
       \/ (c.type = "StartFrame" /\ State = "Ready") \/ (c.type = "InputValue" /\ State = "Frame")
       \/ (c.type = "EndFrame" /\ State = "Frame") \/ Unheard(c)
  BY DEF Unheard
<1> QED BY <1>6, <1>7, <1>8, <1>9, <1>10, <1>11, <1>12

\* A sequence without its i-th element.
Skip(i, k) == IF k < i THEN k ELSE k + 1

\* The places of what is left.
LEMMA WithoutSkips ==
    ASSUME NEW T, NEW s \in Seq(T), NEW i \in 1..Len(s)
    PROVE  /\ Len(Without(s, i)) = Len(s) - 1
           /\ \A k \in 1..Len(Without(s, i)) :
                 /\ Skip(i, k) \in 1..Len(s)
                 /\ Without(s, i)[k] = s[Skip(i, k)]
<1> DEFINE a == SubSeq(s, 1, i - 1)
           b == SubSeq(s, i + 1, Len(s))
<1>1. a \in Seq(T) /\ Len(a) = i - 1 /\ \A k \in 1..Len(a) : a[k] = s[k]
  OBVIOUS
<1>2. b \in Seq(T) /\ Len(b) = Len(s) - i /\ \A k \in 1..Len(b) : b[k] = s[i + k]
  OBVIOUS
<1>3. /\ Len(a \o b) = Len(a) + Len(b)
      /\ \A k \in 1..(Len(a) + Len(b)) : (a \o b)[k] = IF k <= Len(a) THEN a[k] ELSE b[k - Len(a)]
  <2> HIDE DEF a, b
  <2> QED BY <1>1, <1>2, ConcatProperties
<1> HIDE DEF a, b
<1>4. Without(s, i) = a \o b
  BY DEF Without, a, b
<1>5. Len(s) \in Nat
  OBVIOUS
<1>6. ASSUME NEW k \in 1..(Len(s) - 1)
      PROVE  Skip(i, k) \in 1..Len(s) /\ (a \o b)[k] = s[Skip(i, k)]
  <2>1. CASE k < i
    BY <1>1, <1>2, <1>3, <1>5, <2>1 DEF Skip
  <2>2. CASE k >= i
    <3>1. /\ k - Len(a) \in 1..Len(b) /\ i + (k - Len(a)) = k + 1 /\ ~(k <= Len(a))
      BY <1>1, <1>2, <1>5, <2>2
    <3>2. (a \o b)[k] = b[k - Len(a)]
      <4>1. k \in 1..(Len(a) + Len(b))
        BY <1>1, <1>2, <1>5
      <4> QED BY <1>3, <3>1, <4>1
    <3>3. b[k - Len(a)] = s[k + 1]
      BY <1>2, <3>1
    <3>4. Skip(i, k) = k + 1 /\ k + 1 \in 1..Len(s)
      BY <1>5, <2>2 DEF Skip
    <3> QED BY <3>2, <3>3, <3>4
  <2>3. k < i \/ k >= i
    BY <1>5
  <2> QED BY <2>1, <2>2, <2>3, Zenon
<1>7. Len(Without(s, i)) = Len(s) - 1
  <2>1. Len(a \o b) = Len(a) + Len(b) /\ Len(a) = i - 1 /\ Len(b) = Len(s) - i
    BY <1>1, <1>2, <1>3
  <2>2. Len(a \o b) = Len(s) - 1
    BY <1>5, <2>1
  <2> QED BY <1>4, <2>2
<1> QED BY <1>4, <1>6, <1>7, Zenon

\* The same for the first element.
LEMMA TailSkips ==
    ASSUME NEW T, NEW s \in Seq(T), s # << >>
    PROVE  /\ 1 \in 1..Len(s) /\ Head(s) = s[1] /\ Head(s) \in T
           /\ Len(Tail(s)) = Len(s) - 1
           /\ \A k \in 1..Len(Tail(s)) : k + 1 \in 1..Len(s) /\ Tail(s)[k] = s[k + 1]
BY HeadTailProperties

\* What a device says, command by command.
AreInputs(q, d) ==
    LET m == Len(InputsOf[d])
    IN  /\ m \in Nat /\ DOMAIN InputsOf[d] = 1..m
        /\ q \in Seq(SentBy(d)) /\ Len(q) = m + 1
        /\ q[1].type = "Message"
        /\ \A k \in 2..(m + 1) : q[k].type = "RegisterInput" /\ q[k].id = InputsOf[d][k - 1].id

IsFrame(q, d, n) ==
    LET m == Len(InputsOf[d])
    IN  /\ m \in Nat /\ DOMAIN InputsOf[d] = 1..m
        /\ q \in Seq(SentBy(d)) /\ Len(q) = m + 2
        /\ q[1].type = "StartFrame" /\ q[m + 2].type = "EndFrame" /\ q[m + 2].frame = n
        /\ \A k \in 2..(m + 1) : /\ q[k].type = "InputValue" /\ q[k].id = InputsOf[d][k - 1].id
                                 /\ q[k].value.frame = n

\* Message and the inputs in order; StartFrame, the values in order, EndFrame.
LEMMA WhatDevicesSay ==
    ASSUME NEW d \in Device, NEW n \in Nat
    PROVE  AreInputs(<<[type |-> "Message"]>> \o Inputs_(d), d) /\ IsFrame(FrameOf(d, n), d, n)
<1> DEFINE m == Len(InputsOf[d])
           msg == [type |-> "Message"]
           start == [type |-> "StartFrame"]
           end == [type |-> "EndFrame", frame |-> n]
           reg(i) == [type |-> "RegisterInput", id |-> InputsOf[d][i].id, label |-> InputsOf[d][i].label]
           val(i) == [type |-> "InputValue", id |-> InputsOf[d][i].id,
                      value |-> [label |-> InputsOf[d][i].label, frame |-> n]]
           regs == [i \in 1..m |-> reg(i)]
           vals == [i \in 1..m |-> val(i)]
<1>1. m \in Nat /\ DOMAIN InputsOf[d] = 1..m
  BY PuppetAssumption
<1>2. Inputs_(d) = regs /\ FrameOf(d, n) = <<start>> \o vals \o <<end>>
  BY <1>1, Zenon DEF Inputs_, FrameOf
<1> DEFINE R == {reg(i) : i \in 1..m}
           V == {val(i) : i \in 1..m}
<1>3. regs \in Seq(R) /\ Len(regs) = m /\ \A i \in 1..m : regs[i] = reg(i)
  BY <1>1
<1>4. vals \in Seq(V) /\ Len(vals) = m /\ \A i \in 1..m : vals[i] = val(i)
  BY <1>1
<1>5. \A i \in 1..m : reg(i).type = "RegisterInput" /\ reg(i).id = InputsOf[d][i].id
  OBVIOUS
<1>6. \A i \in 1..m : /\ val(i).type = "InputValue" /\ val(i).id = InputsOf[d][i].id
                      /\ val(i).value.frame = n
  OBVIOUS
<1>7. msg.type = "Message" /\ start.type = "StartFrame" /\ end.type = "EndFrame" /\ end.frame = n
  OBVIOUS
<1> HIDE DEF m, msg, start, end, reg, val, regs, vals, R, V
<1>8. /\ Len(<<msg>> \o regs) = m + 1 /\ (<<msg>> \o regs)[1] = msg
      /\ \A k \in 2..(m + 1) : (<<msg>> \o regs)[k] = regs[k - 1]
  <2>1. regs \in Seq(R \cup {msg}) /\ <<msg>> \in Seq(R \cup {msg}) /\ Len(<<msg>>) = 1 /\ <<msg>>[1] = msg
    BY <1>1, <1>3
  <2> QED BY <1>1, <1>3, <2>1
<1>9. /\ Len(<<start>> \o vals \o <<end>>) = m + 2 /\ (<<start>> \o vals \o <<end>>)[1] = start
      /\ (<<start>> \o vals \o <<end>>)[m + 2] = end
      /\ \A k \in 2..(m + 1) : (<<start>> \o vals \o <<end>>)[k] = vals[k - 1]
  <2>1. vals \in Seq(V \cup {start, end}) /\ <<start>> \in Seq(V \cup {start, end}) /\ Len(<<start>>) = 1
        /\ <<start>>[1] = start /\ <<end>> \in Seq(V \cup {start, end}) /\ Len(<<end>>) = 1 /\ <<end>>[1] = end
    BY <1>1, <1>4
  <2> DEFINE x == <<start>> \o vals
  <2>2. x \in Seq(V \cup {start, end}) /\ Len(x) = m + 1 /\ x[1] = start
        /\ \A k \in 2..(m + 1) : x[k] = vals[k - 1]
    BY <1>1, <1>4, <2>1
  <2> HIDE DEF x
  <2>3. Len(x \o <<end>>) = m + 2 /\ (x \o <<end>>)[m + 2] = end
        /\ \A k \in 1..(m + 1) : (x \o <<end>>)[k] = x[k]
    BY <1>1, <2>1, <2>2
  <2>4. 1 \in 1..(m + 1) /\ \A k \in 2..(m + 1) : k \in 1..(m + 1)
    BY <1>1
  <2> QED BY <2>2, <2>3, <2>4 DEF x
<1>10. \A k \in 2..(m + 1) : k - 1 \in 1..m
  BY <1>1
<1>11. /\ <<msg>> \o regs \in Seq(SentBy(d)) /\ FrameOf(d, n) \in Seq(SentBy(d))
  BY <1>2, DeviceSaysItsOwn DEF msg
<1>12. \A k \in 2..(m + 1) : /\ (<<msg>> \o regs)[k].type = "RegisterInput"
                             /\ (<<msg>> \o regs)[k].id = InputsOf[d][k - 1].id
  BY <1>3, <1>5, <1>8, <1>10
<1>13. \A k \in 2..(m + 1) : /\ FrameOf(d, n)[k].type = "InputValue" /\ FrameOf(d, n)[k].value.frame = n
                             /\ FrameOf(d, n)[k].id = InputsOf[d][k - 1].id
  BY <1>2, <1>4, <1>6, <1>9, <1>10
<1>14. FrameOf(d, n)[1].type = "StartFrame" /\ FrameOf(d, n)[m + 2].type = "EndFrame"
       /\ FrameOf(d, n)[m + 2].frame = n /\ Len(FrameOf(d, n)) = m + 2
  BY <1>2, <1>7, <1>9
<1>15. Inputs_(d) = regs /\ (<<msg>> \o regs)[1].type = "Message"
  BY <1>2, <1>7, <1>8
<1> QED BY <1>1, <1>8, <1>11, <1>12, <1>13, <1>14, <1>15, Zenon DEF m, msg, AreInputs, IsFrame

-----------------------------------------------------------------------------
\* If the host never lost patience: one side at a time has something to say.
Settled == \/ pc \in {"waitReset", "waitFrame"}
           \/ pc = "frame" /\ frame = MaxFrames /\ ~Endless

\* The host speaks to a device that waits, and there is one answer under way.
Answered ==
    /\ late => tick = "receive" /\ toHost = << >> /\ toDevice = << >> /\ Settled
    /\ toDevice # << >> =>
          /\ toHost = << >>
          /\ \/ toDevice = <<"Reset">> /\ Settled
             \/ /\ toDevice = <<"AcknowledgeReset">> /\ pc = "waitReset"
                /\ State = "Ready" /\ RegisteredInputs = << >>
             \/ /\ toDevice = <<"AcknowledgeFrame">> /\ pc = "waitFrame"
                /\ State = "Ready" /\ ended = frame

\* What is under way to the host is what the device has said since the last
\* answer it took for one.
Said ==
    /\ pc \in {"reset", "waitReset", "register", "frame", "waitFrame"}
    /\ pc \in {"reset", "register"} => toHost = << >> /\ toDevice = << >>
    /\ pc = "register" => State = "Reset" \/ (State = "Ready" /\ RegisteredInputs = << >>)
    /\ pc = "waitReset" => /\ Len(toHost) <= 1
                           /\ \A i \in 1..Len(toHost) : toHost[i].type = "Reset"
    /\ pc = "frame" => /\ State # "Frame"
                       /\ \A i \in 1..Len(toHost) : toHost[i].type \in {"Message", "RegisterInput"}
    /\ pc = "waitFrame" => \A i \in 1..Len(toHost) :
          /\ toHost[i].type # "Reset"
          /\ toHost[i].type = "InputValue" => toHost[i].value.frame = frame
          /\ toHost[i].type = "EndFrame" => toHost[i].frame = frame /\ i = Len(toHost)

InTurns ==
    /\ pc \in {"reset", "waitReset", "register", "frame", "waitFrame"}
    /\ toDevice # << >> => alive
    /\ ~hasty /\ alive => Answered /\ Said

\* A queue of one command.
LEMMA OneAnswer ==
    ASSUME NEW x PROVE /\ << >> # <<x>> /\ Len(<<x>>) = 1 /\ Head(<<x>>) = x /\ Tail(<<x>>) = << >>
                       /\ Append(<< >>, x) = <<x>>
OBVIOUS

\* An empty queue has no places.
LEMMA NothingSaid ==
    ASSUME toHost = << >>
    PROVE  /\ Len(toHost) = 0 /\ 1..Len(toHost) = {}
OBVIOUS

\* A step that leaves what is under way alone.
LEMMA TurnsStay ==
    ASSUME InTurns, ~hasty' => ~hasty,
           UNCHANGED <<alive, toHost, toDevice, pc, frame, State, RegisteredInputs, ended>>,
           alive' /\ ~hasty' /\ late' =>
               tick' = "receive" /\ toHost = << >> /\ toDevice = << >> /\ Settled
    PROVE  InTurns'
<1>1. ASSUME ~hasty', alive' PROVE Answered' /\ Said'
  <2>1. Answered /\ Said
    BY <1>1 DEF InTurns
  <2>2. Answered'
    BY <1>1, <2>1 DEF Answered, Settled
  <2>3. Said'
    BY <2>1 DEF Said
  <2> QED BY <2>2, <2>3
<1> QED BY <1>1 DEF InTurns

\* The host hears a command: it may answer, and then nothing else is under way.
LEMMA HeardInTurn ==
    ASSUME Inv, InTurns, HostReceive PROVE InTurns'
<1>1. /\ toHost \in Seq(SentBy(device)) /\ toHost # << >> /\ alive /\ device \in Device
  BY DEF Inv, OfOneDevice, HostReceive
<1>2. /\ toHost' = Tail(toHost) /\ UNCHANGED <<pc, frame, alive, hasty>> /\ late' = FALSE
  BY DEF HostReceive, Receive, Host!Receive, deviceVars
<1> SUFFICES ASSUME ~hasty PROVE Answered' /\ Said'
  BY <1>1, <1>2 DEF InTurns
<1>3. Answered /\ Said
  BY <1>1 DEF InTurns
<1> DEFINE c == Head(toHost)
<1>4. /\ 1 \in 1..Len(toHost) /\ c = toHost[1] /\ c \in SentBy(device)
      /\ Len(toHost') = Len(toHost) - 1 /\ Len(toHost) \in Nat
      /\ \A k \in 1..Len(toHost') : k + 1 \in 1..Len(toHost) /\ toHost'[k] = toHost[k + 1]
      /\ toHost' \in Seq(SentBy(device))
  BY <1>1, <1>2, TailSkips
<1>5. toDevice = << >>
  BY <1>1, <1>3 DEF Answered
<1>6. pc \in {"waitReset", "frame", "waitFrame"}
  BY <1>1, <1>3 DEF Said
<1>7. Len(toHost') = 0 => toHost' = << >>
  BY <1>4
<1> HIDE DEF c
<1>8. CASE pc = "waitReset"
  <2>1. c.type = "Reset" /\ toHost' = << >>
    BY <1>3, <1>4, <1>7, <1>8 DEF Said
  <2>2. State' = "Ready" /\ RegisteredInputs' = << >> /\ toDevice' = Append(toDevice, "AcknowledgeReset")
    BY <2>1, HeardCommand DEF c, Unheard
  <2>3. toDevice' = <<"AcknowledgeReset">>
    BY <1>5, <2>2
  <2>4. Len(toHost') = 0 /\ 1..Len(toHost') = {}
    BY <2>1
  <2>5. Said'
    <3>1. /\ pc' = "waitReset"
          /\ pc' \notin {"reset", "register"} /\ pc' # "register" /\ pc' # "frame" /\ pc' # "waitFrame"
      BY <1>2, <1>8
    <3> QED BY <2>4, <3>1 DEF Said
  <2>6. Answered'
    BY <1>2, <1>8, <2>1, <2>2, <2>3 DEF Answered
  <2> QED BY <2>5, <2>6
<1>9. CASE pc = "frame"
  <2>1. c.type \in {"Message", "RegisterInput"} /\ State # "Frame"
    BY <1>3, <1>4, <1>9 DEF Said
  <2>2. State' # "Frame" /\ toDevice' = toDevice
    BY <2>1, HeardCommand DEF c, Unheard
  <2>3. \A k \in 1..Len(toHost') : toHost'[k].type \in {"Message", "RegisterInput"}
    BY <1>3, <1>4, <1>9 DEF Said
  <2> QED BY <1>2, <1>5, <1>9, <2>2, <2>3 DEF Answered, Said
<1>10. CASE pc = "waitFrame"
  <2>1. ASSUME NEW k \in 1..Len(toHost')
        PROVE  /\ toHost'[k].type # "Reset"
               /\ toHost'[k].type = "InputValue" => toHost'[k].value.frame = frame
               /\ toHost'[k].type = "EndFrame" => toHost'[k].frame = frame /\ k = Len(toHost')
    BY <1>3, <1>4, <1>10 DEF Said
  <2>2. Said'
    BY <1>2, <1>10, <2>1 DEF Said
  <2>3. CASE c.type = "EndFrame" /\ State = "Frame"
    <3>1. c.frame = frame /\ Len(toHost) = 1
      BY <1>3, <1>4, <1>10, <2>3 DEF Said
    <3>2. toHost' = << >>
      BY <1>4, <1>7, <3>1
    <3>3. State' = "Ready" /\ ended' = c.frame /\ toDevice' = Append(toDevice, "AcknowledgeFrame")
      BY <2>3, HeardCommand DEF c, Unheard
    <3>4. toDevice' = <<"AcknowledgeFrame">>
      BY <1>5, <3>3
    <3> QED BY <1>2, <1>10, <2>2, <3>1, <3>2, <3>3, <3>4 DEF Answered
  <2>4. CASE ~(c.type = "EndFrame" /\ State = "Frame")
    <3>1. c.type # "Reset"
      BY <1>3, <1>4, <1>10 DEF Said
    <3>2. toDevice' = toDevice
      BY <2>4, <3>1, HeardCommand DEF c
    <3> QED BY <1>2, <1>5, <2>2, <3>2 DEF Answered
  <2> QED BY <2>3, <2>4
<1> QED BY <1>6, <1>8, <1>9, <1>10

\* The device speaks when it has heard what it waits for.
LEMMA DeviceTakesTurns ==
    ASSUME Inv, InTurns, DeviceStep PROVE InTurns'
<1>1. /\ UNCHANGED <<late, tick, State, RegisteredInputs, alive, hasty, ended>>
      /\ toHost \in Seq(SentBy(device)) /\ device \in Device /\ device' = device
      /\ frame \in Nat /\ frame' \in Nat
  BY DEF DeviceStep, componentVars, hostVars, inputVars, history, Inv, OfOneDevice,
         Announce, Register, SendFrame, Hear
<1>2. pc' \in {"reset", "waitReset", "register", "frame", "waitFrame"}
  BY DEF DeviceStep, Announce, Register, SendFrame, Hear, InTurns
<1> SUFFICES ASSUME ~hasty, alive PROVE Answered' /\ Said'
  <2>1. toDevice' # << >> => toDevice # << >>
    BY DEF DeviceStep, Announce, Register, SendFrame, Hear
  <2> QED BY <1>1, <1>2, <2>1 DEF InTurns
<1>3. Answered /\ Said
  BY DEF InTurns
<1>4. CASE Announce
  <2> DEFINE reset == [type |-> "Reset"]
  <2>1. /\ pc = "reset" /\ pc' = "waitReset" /\ UNCHANGED <<frame, toDevice>>
        /\ toHost' = toHost \o <<reset>>
    BY <1>4 DEF Announce, Say
  <2>2. toHost = << >> /\ toDevice = << >>
    BY <1>3, <2>1 DEF Said
  <2>3. reset.type = "Reset"
    OBVIOUS
  <2> HIDE DEF reset
  <2>4. toHost' = <<reset>> /\ Len(toHost') = 1 /\ toHost'[1] = reset
    BY <2>1, <2>2
  <2>5. ~late
    BY <1>3, <2>1 DEF Answered, Settled
  <2>6. \A i \in 1..Len(toHost') : toHost'[i].type = "Reset"
    BY <2>3, <2>4
  <2> QED BY <1>1, <2>1, <2>2, <2>4, <2>5, <2>6 DEF Answered, Said
<1>5. CASE Register
  <2> DEFINE a == <<[type |-> "Message"]>> \o Inputs_(device)
             m == Len(InputsOf[device])
  <2>1. /\ pc = "register" /\ pc' = "frame" /\ UNCHANGED <<frame, toDevice>>
        /\ toHost' = toHost \o a
    BY <1>5 DEF Register, Say
  <2>2. toHost = << >> /\ toDevice = << >> /\ State # "Frame" /\ ~late
    BY <1>3, <2>1 DEF Said, Answered, Settled
  <2>3. /\ m \in Nat /\ a \in Seq(SentBy(device)) /\ Len(a) = m + 1 /\ a[1].type = "Message"
        /\ \A k \in 2..(m + 1) : a[k].type = "RegisterInput"
    BY <1>1, WhatDevicesSay, Zenon DEF AreInputs
  <2> HIDE DEF a, m
  <2>4. toHost' = a
    BY <2>1, <2>2, <2>3
  <2>5. \A i \in 1..Len(toHost') : toHost'[i].type \in {"Message", "RegisterInput"}
    BY <2>3, <2>4
  <2> QED BY <1>1, <2>1, <2>2, <2>5 DEF Answered, Said
<1>6. CASE SendFrame
  <2> DEFINE b == FrameOf(device, frame')
             m == Len(InputsOf[device])
             n == Len(toHost)
  <2>1. /\ pc = "frame" /\ pc' = "waitFrame" /\ UNCHANGED toDevice
        /\ toHost' = toHost \o b /\ (frame < MaxFrames \/ (frame = MaxFrames /\ Endless))
    BY <1>6 DEF SendFrame, Say
  <2>2. ~late /\ toDevice = << >>
    BY <1>1, <1>3, <2>1, PuppetAssumption DEF Answered, Settled
  <2>3. /\ m \in Nat /\ b \in Seq(SentBy(device)) /\ Len(b) = m + 2
        /\ b[1].type = "StartFrame" /\ b[m + 2].type = "EndFrame" /\ b[m + 2].frame = frame'
        /\ \A k \in 2..(m + 1) : b[k].type = "InputValue" /\ b[k].value.frame = frame'
    <3>1. IsFrame(b, device, frame')
      BY <1>1, WhatDevicesSay
    <3> QED BY <3>1, Zenon DEF IsFrame
  <2> HIDE DEF b, m
  <2>4. /\ n \in Nat /\ Len(toHost') = n + (m + 2)
        /\ \A i \in 1..n : toHost'[i] = toHost[i]
        /\ \A i \in (n + 1)..(n + (m + 2)) : toHost'[i] = b[i - n]
    <3>1. toHost \o b \in Seq(SentBy(device)) /\ Len(toHost \o b) = n + Len(b)
          /\ \A i \in 1..(n + Len(b)) : (toHost \o b)[i] = IF i <= n THEN toHost[i] ELSE b[i - n]
      BY <1>1, <2>3, ConcatProperties
    <3>2. n \in Nat
      BY <1>1
    <3> HIDE DEF n
    <3> QED BY <2>1, <2>3, <3>1, <3>2
  <2>5. \A i \in 1..n : toHost[i].type \in {"Message", "RegisterInput"}
    BY <1>3, <2>1 DEF Said
  <2> HIDE DEF n
  <2>6. ASSUME NEW i \in 1..Len(toHost')
        PROVE  /\ toHost'[i].type # "Reset"
               /\ toHost'[i].type = "InputValue" => toHost'[i].value.frame = frame'
               /\ toHost'[i].type = "EndFrame" => toHost'[i].frame = frame' /\ i = Len(toHost')
    <3>1. CASE i \in 1..n
      BY <2>4, <2>5, <3>1
    <3>2. CASE i - n = 1
      BY <2>3, <2>4, <3>2
    <3>3. CASE i - n = m + 2
      BY <2>3, <2>4, <3>3
    <3>4. CASE i - n \in 2..(m + 1)
      BY <2>3, <2>4, <3>4
    <3>5. i \in 1..n \/ i - n = 1 \/ i - n = m + 2 \/ i - n \in 2..(m + 1)
      BY <2>3, <2>4
    <3> QED BY <3>1, <3>2, <3>3, <3>4, <3>5
  <2> QED BY <1>1, <2>1, <2>2, <2>6 DEF Answered, Said
<1>7. CASE Hear
  <2>1. /\ toDevice # << >> /\ toDevice' = Tail(toDevice) /\ UNCHANGED <<frame, toHost>>
        /\ pc' = CASE Head(toDevice) = "Reset" -> "reset"
                   [] Head(toDevice) = "AcknowledgeReset" /\ pc = "waitReset" -> "register"
                   [] Head(toDevice) = "AcknowledgeFrame" /\ pc = "waitFrame" -> "frame"
                   [] OTHER -> pc
    BY <1>7 DEF Hear
  <2>2. toHost = << >> /\ ~late
    BY <1>3, <2>1 DEF Answered
  <2>3. CASE toDevice = <<"Reset">>
    <3>1. toDevice' = << >> /\ pc' = "reset"
      BY <2>1, <2>3
    <3> QED BY <1>1, <2>1, <2>2, <3>1 DEF Answered, Said
  <2>4. CASE toDevice = <<"AcknowledgeReset">> /\ pc = "waitReset" /\ State = "Ready" /\ RegisteredInputs = << >>
    <3>1. toDevice' = << >> /\ pc' = "register"
      BY <2>1, <2>4
    <3> QED BY <1>1, <2>1, <2>2, <2>4, <3>1 DEF Answered, Said
  <2>5. CASE toDevice = <<"AcknowledgeFrame">> /\ pc = "waitFrame" /\ State = "Ready"
    <3>1. toDevice' = << >> /\ pc' = "frame"
      BY <2>1, <2>5
    <3>2. \A i \in 1..Len(toHost') : FALSE
      BY <2>1, <2>2
    <3> QED BY <1>1, <2>1, <2>2, <2>5, <3>1, <3>2 DEF Answered, Said
  <2> QED BY <1>3, <2>1, <2>3, <2>4, <2>5 DEF Answered
<1> QED BY <1>4, <1>5, <1>6, <1>7 DEF DeviceStep

\* What noise leaves is in the same order.
LEMMA LossKeepsTurns ==
    ASSUME Inv, InTurns, Lose PROVE InTurns'
<1>1. /\ UNCHANGED <<late, tick, State, RegisteredInputs, alive, hasty, ended, pc, frame>>
      /\ toHost \in Seq(SentBy(device))
  BY DEF Lose, componentVars, hostVars, inputVars, deviceVars, history, Inv, OfOneDevice
<1> SUFFICES ASSUME ~hasty, alive PROVE Answered' /\ Said'
  <2>1. toDevice' # << >> => toDevice # << >>
    BY DEF Lose
  <2> QED BY <1>1, <2>1 DEF InTurns
<1>2. Answered /\ Said
  BY DEF InTurns
<1>3. CASE \E i \in DOMAIN toHost : toHost' = Without(toHost, i) /\ UNCHANGED toDevice
  <2>1. PICK i \in 1..Len(toHost) : toHost' = Without(toHost, i) /\ UNCHANGED toDevice
    BY <1>1, <1>3
  <2>2. /\ Len(toHost') = Len(toHost) - 1 /\ Len(toHost) \in Nat
        /\ \A k \in 1..Len(toHost') :
              Skip(i, k) \in 1..Len(toHost) /\ toHost'[k] = toHost[Skip(i, k)]
    BY <1>1, <2>1, WithoutSkips
  <2>3. toHost # << >>
    BY <2>1, NothingSaid
  <2>4. \A k \in 1..Len(toHost') : Skip(i, k) = Len(toHost) => k = Len(toHost')
    BY <2>1, <2>2 DEF Skip
  <2>5. toDevice = << >> /\ ~late /\ pc \notin {"reset", "register"}
    BY <1>2, <2>3 DEF Answered, Said
  <2>6. Answered'
    BY <1>1, <2>1, <2>5 DEF Answered
  <2>7. pc = "waitReset" => Len(toHost') <= 1 /\ \A k \in 1..Len(toHost') : toHost'[k].type = "Reset"
    BY <1>2, <2>2 DEF Said
  <2>8. pc = "frame" => /\ State # "Frame"
                        /\ \A k \in 1..Len(toHost') : toHost'[k].type \in {"Message", "RegisterInput"}
    BY <1>2, <2>2 DEF Said
  <2>9. ASSUME pc = "waitFrame", NEW k \in 1..Len(toHost')
        PROVE  /\ toHost'[k].type # "Reset"
               /\ toHost'[k].type = "InputValue" => toHost'[k].value.frame = frame
               /\ toHost'[k].type = "EndFrame" => toHost'[k].frame = frame /\ k = Len(toHost')
    BY <1>2, <2>2, <2>4, <2>9 DEF Said
  <2>10. Said'
    BY <1>1, <1>2, <2>5, <2>7, <2>8, <2>9 DEF Said
  <2> QED BY <2>6, <2>10
<1>4. CASE \E i \in DOMAIN toDevice : toDevice' = Without(toDevice, i) /\ UNCHANGED toHost
  <2>1. PICK i \in DOMAIN toDevice : toDevice' = Without(toDevice, i) /\ UNCHANGED toHost
    BY <1>4
  <2>2. toDevice # << >>
    BY <2>1
  <2>3. \E x : toDevice = <<x>>
    BY <1>2, <2>2 DEF Answered
  <2>4. toDevice' = << >>
    BY <2>1, <2>3 DEF Without
  <2> QED BY <1>1, <1>2, <2>1, <2>2, <2>4 DEF Answered, Said
<1> QED BY <1>3, <1>4 DEF Lose

\* A host that loses patience while all is quiet adds the one Reset.
LEMMA SilenceKeepsTurns ==
    ASSUME Inv, InTurns, HostReceiveNothing PROVE InTurns'
<1>1. /\ UNCHANGED <<State, RegisteredInputs, alive, hasty, ended, pc, frame>> /\ late' = FALSE
      /\ toHost' = toHost \/ (late /\ toHost # << >>)
      /\ Host!ReceiveNothing(alive) /\ Carry(reply')
  BY DEF HostReceiveNothing, ReceiveNothing, Host!ReceiveNothing, inputVars, deviceVars, history
<1> SUFFICES ASSUME ~hasty, alive PROVE Answered' /\ Said'
  <2>1. ~alive => toDevice' = toDevice
    BY <1>1 DEF Carry, Host!ReceiveNothing
  <2> QED BY <1>1, <2>1 DEF InTurns
<1>2. Answered /\ Said
  BY DEF InTurns
<1>3. toHost' = toHost
  BY <1>1, <1>2 DEF Answered
<1>4. CASE ~late
  <2>1. toDevice' = toDevice
    BY <1>1, <1>4 DEF Carry, Host!ReceiveNothing
  <2> QED BY <1>1, <1>2, <1>3, <2>1 DEF Answered, Said, Settled
<1>5. CASE late
  <2>1. /\ reply' = "Reset" /\ toHost = << >> /\ toDevice = << >> /\ Settled
    BY <1>1, <1>2, <1>5 DEF Answered, Host!ReceiveNothing
  <2>2. toDevice' = <<"Reset">>
    BY <1>1, <2>1, OneAnswer DEF Carry, Host!None
  <2>3. Settled' /\ pc \notin {"reset", "register"}
    BY <1>1, <2>1 DEF Settled
  <2> QED BY <1>1, <1>2, <1>3, <2>1, <2>2, <2>3 DEF Answered, Said
<1> QED BY <1>4, <1>5

\* At the start nobody has spoken.
LEMMA InitInTurns == Init => InTurns
BY DEF Init, InTurns

\* The other steps: ports and plugs end what is under way, the host's own
\* bookkeeping leaves it.
LEMMA NextInTurns == Inv /\ InTurns /\ [Next]_vars => InTurns'
<1> SUFFICES ASSUME Inv, InTurns, [Next]_vars PROVE InTurns'
  OBVIOUS
<1>1. ~hasty /\ alive /\ late => tick = "receive" /\ toHost = << >> /\ toDevice = << >> /\ Settled
  BY DEF InTurns, Answered
<1>2. CASE OpenPort
  <2>1. /\ State' = "Reset" /\ late' = FALSE /\ toHost' = << >> /\ toDevice' = << >>
        /\ pc' \in {pc, "reset"}
    BY <1>2 DEF OpenPort, Connect, Host!Reset
  <2>2. Len(toHost') = 0 /\ 1..Len(toHost') = {}
    BY <2>1
  <2> QED BY <2>1, <2>2 DEF InTurns, Answered, Said
<1>3. CASE ClosePort \/ HostTickFailed \/ Unplug
  <2>1. ~alive' /\ pc' = pc /\ toDevice' = << >>
    BY <1>3 DEF ClosePort, HostTickFailed, ClosedPort, Unplug, deviceVars
  <2> QED BY <2>1 DEF InTurns
<1>4. CASE Plug
  <2>1. ~alive /\ alive' = alive /\ pc' = "reset" /\ toDevice' = toDevice
    BY <1>4 DEF Plug, Inv, OfOneDevice
  <2> QED BY <2>1 DEF InTurns
<1>5. CASE HostBegin \/ UNCHANGED vars
  <2>1. UNCHANGED <<toHost, toDevice, pc, frame, State, RegisteredInputs, ended, hasty, alive, late, tick>>
    BY <1>5 DEF HostBegin, BeginPlay, vars, componentVars, cableVars, deviceVars, hostVars,
                inputVars, history
  <2> QED BY <1>1, <2>1, TurnsStay
<1>6. CASE HostTick
  <2>1. /\ UNCHANGED <<toHost, toDevice, pc, frame, State, RegisteredInputs, ended, hasty, alive, late>>
        /\ tick = "idle"
    BY <1>6 DEF HostTick, TickComponent, Host!BeginTick, cableVars, deviceVars, inputVars, history
  <2> QED BY <1>1, <2>1, TurnsStay
<1>7. CASE HostTurn
  <2>1. /\ UNCHANGED <<toHost, toDevice, pc, frame, State, RegisteredInputs, ended, alive>>
        /\ tick' = "receive" /\ hasty' = (hasty \/ (late' /\ ~Quiet))
    BY <1>7 DEF HostTurn, BeginTurn, Host!BeginTurn, cableVars, deviceVars, inputVars
  <2>2. ~hasty' => ~hasty /\ (late' => Quiet)
    BY <2>1
  <2>3. alive /\ Quiet => toHost = << >> /\ toDevice = << >> /\ Settled
    BY DEF Quiet, Settled
  <2> QED BY <2>1, <2>2, <2>3, TurnsStay
<1> QED
  BY <1>2, <1>3, <1>4, <1>5, <1>6, <1>7, HeardInTurn, DeviceTakesTurns, LossKeepsTurns,
     SilenceKeepsTurns DEF Next, HostStep

\* A host that was never hasty and its device take turns.
LEMMA TurnsAreTaken == Spec => []InTurns
<1>1. Inv /\ InTurns /\ [Next]_vars => InTurns'
  BY NextInTurns
<1> QED BY <1>1, InitInTurns, InvIsInvariant, PTL DEF Spec

\* A host whose limit is longer than any answer takes never loses patience
\* too soon.
LEMMA PromptIsNotHasty == ASSUME Prompt PROVE Spec => []~hasty
<1>1. Init => ~hasty
  BY DEF Init
<1>2. ASSUME ~hasty, [Next]_vars PROVE ~hasty'
  <2>1. CASE HostTurn
    BY <1>2, <2>1 DEF HostTurn
  <2> QED BY <1>2, <2>1 DEF Next, HostStep, HostBegin, HostTick, HostReceive, HostReceiveNothing,
        HostTickFailed, OpenPort, ClosePort, ClosedPort, DeviceStep, Lose, Unplug, Plug, vars, history
<1> QED BY <1>1, <1>2, PTL DEF Spec

\* However many commands are lost and however often the device is unplugged
\* or the port closed: if answers beat the host's limit, a device goes on to
\* the next frame only when this one has been dealt with.
THEOREM AcknowledgementsAreOfTheFrame ==
    ASSUME Prompt PROVE Spec => AcknowledgedFrameEnded
<1>1. Inv /\ InTurns /\ ~hasty /\ [Next]_vars => [pc = "waitFrame" /\ pc' = "frame" => ended = frame]_vars
  <2> SUFFICES ASSUME Inv, InTurns, ~hasty, Next, pc = "waitFrame", pc' = "frame" PROVE ended = frame
    OBVIOUS
  <2>1. DeviceStep
    BY DEF Next, HostStep, HostBegin, HostTick, HostTurn, HostReceive, HostReceiveNothing,
       HostTickFailed, OpenPort, ClosePort, ClosedPort, Lose, Unplug, Plug, deviceVars
  <2>2. Hear
    BY <2>1 DEF DeviceStep, Announce, Register, SendFrame
  <2>3. toDevice # << >> /\ Head(toDevice) = "AcknowledgeFrame"
    BY <2>2 DEF Hear
  <2>4. alive
    BY <2>3 DEF InTurns
  <2>5. Answered
    BY <2>4 DEF InTurns
  <2> QED BY <2>3, <2>5 DEF Answered
<1> QED BY <1>1, InvIsInvariant, TurnsAreTaken, PromptIsNotHasty, PTL DEF Spec, AcknowledgedFrameEnded

-----------------------------------------------------------------------------
\* FramesDoNotMix tells values apart by their labels, so it is about devices
\* that have one input for a label.
OneInputPerLabel ==
    \A d \in Device : \A i, j \in DOMAIN InputsOf[d] :
        \/ InputsOf[d][i].id = InputsOf[d][j].id
        \/ InputsOf[d][i].label = InputsOf[d][j].label
        => i = j

Different(list) == \A i, j \in 1..Len(list) : list[i].id = list[j].id => i = j

OneBindingPerLabel ==
    \A i, j \in DOMAIN InputBindings : InputBindings[i].label = InputBindings[j].label => i = j

OfFrame(deliveries, n) ==
    \A x, y \in deliveries :
        /\ x.value.frame = n
        /\ x.value = y.value /\ x.delegate = y.delegate => x = y

\* Lists without repetitions, values of one frame: deliveries of that frame,
\* each once.
LEMMA DeliveriesOfOneFrame ==
    ASSUME OneInputPerLabel, NEW d \in Device, NEW n,
           NEW inputs \in Seq(InputsFrom(d)), NEW values \in Seq(ValuesFrom(d)),
           Different(inputs), Different(values), OneBindingPerLabel,
           \A i \in 1..Len(values) : values[i].value.frame = n
    PROVE  OfFrame(Deliveries(inputs, values, InputBindings), n)
<1>1. ASSUME NEW x \in Deliveries(inputs, values, InputBindings)
      PROVE  \E m \in Meetings(inputs, values, InputBindings) :
                 x = [delegate |-> InputBindings[m.binding].delegate,
                      value |-> values[m.at].value, meeting |-> m]
  BY DEF Deliveries
<1>2. ASSUME NEW m \in Meetings(inputs, values, InputBindings)
      PROVE  /\ m \in [input : 1..Len(inputs), at : 1..Len(values), binding : DOMAIN InputBindings]
             /\ inputs[m.input].id = values[m.at].id
             /\ InputBindings[m.binding].label = inputs[m.input].label
  BY DEF Meetings
<1>3. ASSUME NEW k \in 1..Len(values)
      PROVE  \E i \in DOMAIN InputsOf[d] : /\ values[k].id = InputsOf[d][i].id
                                           /\ values[k].value.label = InputsOf[d][i].label
  <2>1. values[k] \in ValuesFrom(d)
    OBVIOUS
  <2>2. PICK in \in InputsFrom(d), f \in Nat :
           values[k] = [id |-> in.id, value |-> [label |-> in.label, frame |-> f]]
    BY <2>1 DEF ValuesFrom
  <2>3. PICK i \in DOMAIN InputsOf[d] : in = InputsOf[d][i]
    BY DEF InputsFrom
  <2> QED BY <2>2, <2>3
<1>4. ASSUME NEW k \in 1..Len(values), NEW l \in 1..Len(values), values[k].value = values[l].value
      PROVE  k = l
  <2>1. PICK i \in DOMAIN InputsOf[d] : /\ values[k].id = InputsOf[d][i].id
                                        /\ values[k].value.label = InputsOf[d][i].label
    BY <1>3
  <2>2. PICK j \in DOMAIN InputsOf[d] : /\ values[l].id = InputsOf[d][j].id
                                        /\ values[l].value.label = InputsOf[d][j].label
    BY <1>3
  <2>3. i = j
    BY <1>4, <2>1, <2>2 DEF OneInputPerLabel
  <2> QED BY <2>1, <2>2, <2>3 DEF Different
<1>5. ASSUME NEW x \in Deliveries(inputs, values, InputBindings),
             NEW y \in Deliveries(inputs, values, InputBindings)
      PROVE  /\ x.value.frame = n
             /\ x.value = y.value /\ x.delegate = y.delegate => x = y
  <2>1. PICK m \in Meetings(inputs, values, InputBindings) :
           x = [delegate |-> InputBindings[m.binding].delegate,
                value |-> values[m.at].value, meeting |-> m]
    BY <1>1
  <2>2. PICK o \in Meetings(inputs, values, InputBindings) :
           y = [delegate |-> InputBindings[o.binding].delegate,
                value |-> values[o.at].value, meeting |-> o]
    BY <1>1
  <2>3. x.value.frame = n
    BY <1>2, <2>1
  <2>4. ASSUME x.value = y.value PROVE x = y
    <3>1. m.at = o.at
      BY <1>2, <1>4, <2>1, <2>2, <2>4
    <3>2. m.input = o.input
      BY <1>2, <3>1 DEF Different
    <3>3. m.binding = o.binding
      BY <1>2, <3>2 DEF OneBindingPerLabel
    <3>4. m = o
      BY <1>2, <3>1, <3>2, <3>3
    <3> QED BY <2>1, <2>2, <3>4
  <2> QED BY <2>3, <2>4
<1> QED BY <1>5 DEF OfFrame

\* An entry with another id.
LEMMA AppendDifferent ==
    ASSUME NEW T, NEW list \in Seq(T), NEW e \in T, Different(list),
           \A i \in 1..Len(list) : list[i].id # e.id
    PROVE  /\ Different(Append(list, e)) /\ Len(Append(list, e)) = Len(list) + 1 /\ Len(list) \in Nat
           /\ \A i \in 1..(Len(list) + 1) : Append(list, e)[i] = IF i <= Len(list) THEN list[i] ELSE e
<1>1. /\ Len(Append(list, e)) = Len(list) + 1 /\ Len(list) \in Nat
      /\ \A i \in 1..(Len(list) + 1) : Append(list, e)[i] = IF i <= Len(list) THEN list[i] ELSE e
  BY AppendProperties
<1>2. ASSUME NEW i \in 1..(Len(list) + 1), NEW j \in 1..(Len(list) + 1),
             Append(list, e)[i].id = Append(list, e)[j].id
      PROVE  i = j
  <2>1. CASE i <= Len(list) /\ j <= Len(list)
    BY <1>1, <1>2, <2>1 DEF Different
  <2>2. CASE i <= Len(list) /\ ~(j <= Len(list))
    BY <1>1, <1>2, <2>2
  <2>3. CASE ~(i <= Len(list)) /\ j <= Len(list)
    BY <1>1, <1>2, <2>3
  <2>4. CASE ~(i <= Len(list)) /\ ~(j <= Len(list))
    BY <1>1, <2>4
  <2> QED BY <2>1, <2>2, <2>3, <2>4
<1> QED BY <1>1, <1>2 DEF Different

\* An empty list repeats nothing.
LEMMA NothingIsDifferent == Different(<< >>) /\ Len(<< >>) = 0 /\ 1..Len(<< >>) = {}
BY DEF Different

\* The ids of what a device registers or sends in a frame are different.
LEMMA SaidOnce ==
    ASSUME OneInputPerLabel, NEW d \in Device, NEW q,
           AreInputs(q, d) \/ \E n : IsFrame(q, d, n)
    PROVE  \A i, j \in 1..Len(q) :
              /\ q[i].type \in {"RegisterInput", "InputValue"}
              /\ q[i].type = q[j].type
              /\ q[i].id = q[j].id
              => i = j
<1> DEFINE m == Len(InputsOf[d])
<1>1. ASSUME NEW i \in 2..(m + 1), NEW j \in 2..(m + 1), DOMAIN InputsOf[d] = 1..m, m \in Nat,
             InputsOf[d][i - 1].id = InputsOf[d][j - 1].id
      PROVE  i = j
  <2>1. i - 1 \in 1..m /\ j - 1 \in 1..m
    BY <1>1
  <2>2. i - 1 = j - 1
    BY <1>1, <2>1 DEF OneInputPerLabel
  <2> QED BY <1>1, <2>2
<1>2. CASE AreInputs(q, d)
  <2>1. /\ m \in Nat /\ DOMAIN InputsOf[d] = 1..m /\ Len(q) = m + 1 /\ q[1].type = "Message"
        /\ \A k \in 2..(m + 1) : q[k].type = "RegisterInput" /\ q[k].id = InputsOf[d][k - 1].id
    BY <1>2 DEF AreInputs
  <2> HIDE DEF m
  <2>2. \A i \in 1..Len(q) : i = 1 \/ i \in 2..(m + 1)
    BY <2>1
  <2>3. SUFFICES ASSUME NEW i \in 1..Len(q), NEW j \in 1..Len(q),
                        q[i].type \in {"RegisterInput", "InputValue"},
                        q[i].type = q[j].type, q[i].id = q[j].id
                 PROVE  i = j
    OBVIOUS
  <2>4. i \in 2..(m + 1) /\ j \in 2..(m + 1)
    BY <2>1, <2>2, <2>3
  <2>5. InputsOf[d][i - 1].id = InputsOf[d][j - 1].id
    BY <2>1, <2>3, <2>4
  <2> QED BY <1>1, <2>1, <2>4, <2>5
<1>3. CASE \E n : IsFrame(q, d, n)
  <2>1. PICK n : IsFrame(q, d, n)
    BY <1>3
  <2>2. /\ m \in Nat /\ DOMAIN InputsOf[d] = 1..m /\ Len(q) = m + 2
        /\ q[1].type = "StartFrame" /\ q[m + 2].type = "EndFrame"
        /\ \A k \in 2..(m + 1) : q[k].type = "InputValue" /\ q[k].id = InputsOf[d][k - 1].id
    BY <2>1 DEF IsFrame
  <2> HIDE DEF m
  <2>3. \A i \in 1..Len(q) : i = 1 \/ i = m + 2 \/ i \in 2..(m + 1)
    BY <2>2
  <2>4. \A i \in 1..Len(q) : q[i].type \in {"RegisterInput", "InputValue"} =>
            i \in 2..(m + 1) /\ q[i].id = InputsOf[d][i - 1].id
    BY <2>2, <2>3
  <2>5. \A i, j \in 2..(m + 1) : InputsOf[d][i - 1].id = InputsOf[d][j - 1].id => i = j
    BY <1>1, <2>2
  <2> QED BY <2>4, <2>5
<1> QED BY <1>2, <1>3

\* What is on its way and what has been heard of it: no input twice, no value
\* twice, and nothing of another frame.
Apart ==
    \A i, j \in 1..Len(toHost) :
        /\ toHost[i].type \in {"RegisterInput", "InputValue"}
        /\ toHost[i].type = toHost[j].type
        /\ toHost[i].id = toHost[j].id
        => i = j

Fresh ==
    pc \in {"frame", "waitFrame"} /\ State = "Ready" =>
        \A i \in 1..Len(RegisteredInputs), j \in 1..Len(toHost) :
            toHost[j].type = "RegisterInput" => RegisteredInputs[i].id # toHost[j].id

Current ==
    pc = "waitFrame" /\ State = "Frame" => \A i \in 1..Len(FrameInputValues) :
        /\ FrameInputValues[i].value.frame = frame
        /\ \A j \in 1..Len(toHost) :
              toHost[j].type = "InputValue" => FrameInputValues[i].id # toHost[j].id

Lists ==
    /\ State \in {"Ready", "Frame"} => Different(RegisteredInputs)
    /\ State = "Frame" => Different(FrameInputValues)

HeardOnce == ~hasty /\ alive => Apart /\ Fresh /\ Current /\ Lists

\* Steps that leave what is under way and what is held.
LEMMA HeardOnceStays ==
    ASSUME HeardOnce, ~hasty' => ~hasty, alive' => alive,
           UNCHANGED <<toHost, pc, frame, State, RegisteredInputs, FrameInputValues>>
    PROVE  HeardOnce'
<1>1. ASSUME ~hasty', alive' PROVE Apart' /\ Fresh' /\ Current' /\ Lists'
  <2>1. Apart /\ Fresh /\ Current /\ Lists
    BY <1>1 DEF HeardOnce
  <2> QED BY <2>1 DEF Apart, Fresh, Current, Lists, Different
<1> QED BY <1>1 DEF HeardOnce

\* What is heard moves from what is under way to what is held.
LEMMA ReceiveHearsOnce ==
    ASSUME Inv, InTurns, HeardOnce, HostReceive PROVE HeardOnce'
<1>1. /\ toHost \in Seq(SentBy(device)) /\ toHost # << >> /\ alive /\ device \in Device
  BY DEF Inv, OfOneDevice, HostReceive
<1>2. /\ toHost' = Tail(toHost) /\ UNCHANGED <<pc, frame, alive, hasty>>
  BY DEF HostReceive, Receive, Host!Receive, deviceVars
<1> SUFFICES ASSUME ~hasty PROVE Apart' /\ Fresh' /\ Current' /\ Lists'
  BY <1>2 DEF HeardOnce
<1>3. /\ Said /\ Apart /\ Fresh /\ Current /\ Lists
  BY <1>1 DEF InTurns, HeardOnce
<1> DEFINE c == Head(toHost)
<1>4. /\ 1 \in 1..Len(toHost) /\ c = toHost[1] /\ c \in SentBy(device)
      /\ Len(toHost') = Len(toHost) - 1 /\ Len(toHost) \in Nat
      /\ \A k \in 1..Len(toHost') : k + 1 \in 1..Len(toHost) /\ toHost'[k] = toHost[k + 1] /\ k + 1 # 1
  BY <1>1, <1>2, TailSkips
<1>5. State \in {"Ready", "Frame"} => /\ RegisteredInputs \in Seq(InputsFrom(device))
                                      /\ FrameInputValues \in Seq(ValuesFrom(device))
  BY <1>1 DEF Inv, OfOneDevice
<1>6. pc \in {"waitReset", "frame", "waitFrame"}
  BY <1>1, <1>3 DEF Said
<1> HIDE DEF c
<1>7. Apart'
  <2> SUFFICES ASSUME NEW i \in 1..Len(toHost'), NEW j \in 1..Len(toHost'),
                      toHost'[i].type \in {"RegisterInput", "InputValue"},
                      toHost'[i].type = toHost'[j].type, toHost'[i].id = toHost'[j].id
               PROVE  i = j
    BY DEF Apart
  <2>1. i + 1 = j + 1
    BY <1>3, <1>4 DEF Apart
  <2> QED BY <1>4, <2>1
<1>8. \A j \in 1..Len(toHost') :
         /\ toHost'[j] = toHost[j + 1] /\ j + 1 \in 1..Len(toHost)
         /\ c.type \in {"RegisterInput", "InputValue"} /\ toHost'[j].type = c.type
               => c.id # toHost'[j].id
  BY <1>3, <1>4 DEF Apart
<1>9. CASE c.type = "Reset"
  <2>1. State' = "Ready" /\ RegisteredInputs' = << >>
    BY <1>9, HeardCommand DEF c, Unheard
  <2> QED BY <1>7, <2>1, NothingIsDifferent DEF Fresh, Current, Lists
<1>10. CASE c.type = "RegisterInput" /\ State = "Ready"
  <2> DEFINE e == [id |-> c.id, label |-> c.label]
  <2>1. /\ State' = "Ready" /\ RegisteredInputs' = Append(RegisteredInputs, e)
    BY <1>10, HeardCommand DEF c, Unheard
  <2>2. e \in InputsFrom(device)
    BY <1>1, <1>4, <1>10, SentBecomesHeard
  <2>3. e.id = c.id
    OBVIOUS
  <2> HIDE DEF e
  <2>4. pc \in {"frame", "waitFrame"}
    BY <1>3, <1>4, <1>6, <1>10 DEF Said
  <2>5. \A i \in 1..Len(RegisteredInputs) : RegisteredInputs[i].id # e.id
    BY <1>3, <1>4, <1>10, <2>3, <2>4 DEF Fresh
  <2>6. /\ Different(RegisteredInputs') /\ Len(RegisteredInputs') = Len(RegisteredInputs) + 1
        /\ Len(RegisteredInputs) \in Nat
        /\ \A i \in 1..(Len(RegisteredInputs) + 1) :
              RegisteredInputs'[i] = IF i <= Len(RegisteredInputs) THEN RegisteredInputs[i] ELSE e
    BY <1>3, <1>5, <1>10, <2>1, <2>2, <2>5, AppendDifferent DEF Lists
  <2>7. Fresh'
    <3> SUFFICES ASSUME NEW i \in 1..Len(RegisteredInputs'), NEW j \in 1..Len(toHost'),
                        toHost'[j].type = "RegisterInput"
                 PROVE  RegisteredInputs'[i].id # toHost'[j].id
      BY DEF Fresh
    <3>1. CASE i <= Len(RegisteredInputs)
      BY <1>3, <1>8, <1>10, <2>4, <2>6, <3>1 DEF Fresh
    <3>2. CASE ~(i <= Len(RegisteredInputs))
      BY <1>8, <1>10, <2>3, <2>6, <3>2
    <3> QED BY <3>1, <3>2
  <2> QED BY <1>7, <2>1, <2>6, <2>7 DEF Current, Lists
<1>11. CASE c.type = "StartFrame" /\ State = "Ready"
  <2>1. State' = "Frame" /\ FrameInputValues' = << >> /\ RegisteredInputs' = RegisteredInputs
    BY <1>11, HeardCommand DEF c, Unheard
  <2>2. Different(RegisteredInputs)
    BY <1>3, <1>11 DEF Lists
  <2> QED BY <1>7, <2>1, <2>2, NothingIsDifferent DEF Fresh, Current, Lists
<1>12. CASE c.type = "InputValue" /\ State = "Frame"
  <2> DEFINE e == [id |-> c.id, value |-> c.value]
  <2>1. /\ State' = "Frame" /\ FrameInputValues' = Append(FrameInputValues, e)
        /\ RegisteredInputs' = RegisteredInputs
    BY <1>12, HeardCommand DEF c, Unheard
  <2>2. e \in ValuesFrom(device)
    BY <1>1, <1>4, <1>12, SentBecomesHeard
  <2>3. e.id = c.id /\ e.value = c.value
    OBVIOUS
  <2> HIDE DEF e
  <2>4. pc = "waitFrame" /\ c.value.frame = frame
    BY <1>3, <1>4, <1>6, <1>12 DEF Said
  <2>5. \A i \in 1..Len(FrameInputValues) : FrameInputValues[i].id # e.id
    BY <1>3, <1>4, <1>12, <2>3, <2>4 DEF Current
  <2>6. /\ Different(FrameInputValues') /\ Len(FrameInputValues') = Len(FrameInputValues) + 1
        /\ Len(FrameInputValues) \in Nat
        /\ \A i \in 1..(Len(FrameInputValues) + 1) :
              FrameInputValues'[i] = IF i <= Len(FrameInputValues) THEN FrameInputValues[i] ELSE e
    BY <1>3, <1>5, <1>12, <2>1, <2>2, <2>5, AppendDifferent DEF Lists
  <2>7. Current'
    <3>1. \A i \in 1..Len(FrameInputValues) :
             /\ FrameInputValues[i].value.frame = frame
             /\ \A j \in 1..Len(toHost) :
                   toHost[j].type = "InputValue" => FrameInputValues[i].id # toHost[j].id
      BY <1>3, <1>12, <2>4 DEF Current
    <3>2. ASSUME NEW i \in 1..Len(FrameInputValues')
          PROVE  /\ FrameInputValues'[i].value.frame = frame
                 /\ \A j \in 1..Len(toHost') :
                       toHost'[j].type = "InputValue" => FrameInputValues'[i].id # toHost'[j].id
      <4>1. CASE i <= Len(FrameInputValues)
        <5>1. i \in 1..Len(FrameInputValues) /\ FrameInputValues'[i] = FrameInputValues[i]
          BY <2>6, <4>1
        <5> QED BY <1>4, <3>1, <5>1
      <4>2. CASE ~(i <= Len(FrameInputValues))
        <5>1. FrameInputValues'[i] = e
          BY <2>6, <4>2
        <5> QED BY <1>8, <1>12, <2>3, <2>4, <5>1
      <4> QED BY <4>1, <4>2
    <3>3. pc' = pc /\ frame' = frame
      BY <1>2
    <3> QED BY <3>2, <3>3 DEF Current
  <2>8. Different(RegisteredInputs)
    BY <1>3, <1>12 DEF Lists
  <2> QED BY <1>7, <2>1, <2>6, <2>7, <2>8 DEF Fresh, Lists
<1>13. CASE c.type = "EndFrame" /\ State = "Frame"
  <2>1. State' = "Ready" /\ RegisteredInputs' = RegisteredInputs
    BY <1>13, HeardCommand DEF c, Unheard
  <2>2. pc = "waitFrame" /\ Len(toHost) = 1
    BY <1>3, <1>4, <1>6, <1>13 DEF Said
  <2>3. 1..Len(toHost') = {}
    BY <1>4, <2>2
  <2>4. Different(RegisteredInputs)
    BY <1>3, <1>13 DEF Lists
  <2> QED BY <1>7, <2>1, <2>3, <2>4 DEF Fresh, Current, Lists
<1>14. CASE Unheard(c)
  <2>1. UNCHANGED <<State, RegisteredInputs, FrameInputValues>>
    BY <1>14, HeardCommand DEF c, Unheard
  <2>2. Fresh'
    BY <1>2, <1>3, <1>8, <2>1 DEF Fresh
  <2>3. Current'
    BY <1>2, <1>3, <1>8, <2>1 DEF Current
  <2> QED BY <1>3, <1>7, <2>1, <2>2, <2>3 DEF Lists, Different
<1> QED
  BY <1>9, <1>10, <1>11, <1>12, <1>13, <1>14 DEF Unheard

\* What is said is new: nothing else of its kind is under way or held.
LEMMA DeviceSaysOnce ==
    ASSUME OneInputPerLabel, Inv, InTurns, HeardOnce, DeviceStep PROVE HeardOnce'
<1>1. /\ UNCHANGED <<State, RegisteredInputs, FrameInputValues, alive, hasty>>
      /\ toHost \in Seq(SentBy(device)) /\ device \in Device
      /\ frame \in Nat /\ frame' \in Nat
  BY DEF DeviceStep, componentVars, hostVars, inputVars, history, Inv, OfOneDevice,
         Announce, Register, SendFrame, Hear
<1> SUFFICES ASSUME ~hasty, alive PROVE Apart' /\ Fresh' /\ Current' /\ Lists'
  BY <1>1 DEF HeardOnce
<1>2. Said /\ Answered /\ Apart /\ Fresh /\ Current /\ Lists
  BY DEF InTurns, HeardOnce
<1>3. Lists'
  BY <1>1, <1>2 DEF Lists, Different
<1>4. CASE Announce
  <2>1. /\ pc' = "waitReset" /\ toHost' = toHost \o <<[type |-> "Reset"]>> /\ toHost = << >>
    BY <1>2, <1>4 DEF Announce, Say, Said
  <2>2. toHost' = <<[type |-> "Reset"]>>
    BY <2>1
  <2>3. \A i \in 1..Len(toHost') : i = 1
    BY <2>2
  <2> QED BY <1>3, <2>1, <2>3 DEF Apart, Fresh, Current
<1>5. CASE Register
  <2> DEFINE a == <<[type |-> "Message"]>> \o Inputs_(device)
  <2>1. pc = "register" /\ pc' = "frame" /\ toHost' = toHost \o a
    BY <1>5 DEF Register, Say
  <2>2. toHost = << >> /\ (State = "Reset" \/ RegisteredInputs = << >>)
    BY <1>2, <2>1 DEF Said
  <2>3. AreInputs(a, device)
    BY <1>1, WhatDevicesSay
  <2>4. a \in Seq(SentBy(device))
    BY <2>3 DEF AreInputs
  <2> HIDE DEF a
  <2>5. toHost' = a
    BY <2>1, <2>2, <2>4
  <2>6. Apart'
    BY <1>1, <2>3, <2>5, SaidOnce DEF Apart
  <2>7. Fresh'
    BY <1>1, <2>2, NothingIsDifferent DEF Fresh
  <2> QED BY <1>3, <2>1, <2>6, <2>7 DEF Current
<1>6. CASE SendFrame
  <2> DEFINE b == FrameOf(device, frame')
             n == Len(toHost)
             m == Len(InputsOf[device])
  <2>1. pc = "frame" /\ pc' = "waitFrame" /\ toHost' = toHost \o b
    BY <1>6 DEF SendFrame, Say
  <2>2. IsFrame(b, device, frame')
    BY <1>1, WhatDevicesSay
  <2>3. /\ b \in Seq(SentBy(device)) /\ m \in Nat /\ Len(b) = m + 2
        /\ \A k \in 1..Len(b) : b[k].type # "RegisterInput"
    <3>1. /\ b \in Seq(SentBy(device)) /\ m \in Nat /\ Len(b) = m + 2
          /\ b[1].type = "StartFrame" /\ b[m + 2].type = "EndFrame"
          /\ \A k \in 2..(m + 1) : b[k].type = "InputValue"
      BY <2>2, Zenon DEF IsFrame
    <3> HIDE DEF b, m
    <3>2. \A k \in 1..(m + 2) : k = 1 \/ k = m + 2 \/ k \in 2..(m + 1)
      BY <3>1
    <3> QED BY <3>1, <3>2
  <2>4. \A i, j \in 1..Len(b) :
           /\ b[i].type \in {"RegisterInput", "InputValue"}
           /\ b[i].type = b[j].type
           /\ b[i].id = b[j].id
           => i = j
    BY <1>1, <2>2, SaidOnce
  <2> HIDE DEF b
  <2>5. /\ n \in Nat /\ Len(toHost') = n + Len(b)
        /\ \A i \in 1..(n + Len(b)) : toHost'[i] = IF i <= n THEN toHost[i] ELSE b[i - n]
    <3>1. /\ Len(toHost \o b) = n + Len(b)
          /\ \A i \in 1..(n + Len(b)) : (toHost \o b)[i] = IF i <= n THEN toHost[i] ELSE b[i - n]
      BY <1>1, <2>3, ConcatProperties
    <3>2. n \in Nat
      BY <1>1
    <3> HIDE DEF n
    <3> QED BY <2>1, <3>1, <3>2
  <2>6. /\ State # "Frame"
        /\ \A i \in 1..n : toHost[i].type \in {"Message", "RegisterInput"}
    BY <1>2, <2>1 DEF Said
  <2> HIDE DEF n, m
  <2>7. \A i \in 1..Len(toHost') :
           \/ i \in 1..n /\ toHost'[i] = toHost[i] /\ toHost'[i].type \in {"Message", "RegisterInput"}
           \/ i - n \in 1..Len(b) /\ toHost'[i] = b[i - n] /\ toHost'[i].type # "RegisterInput"
    BY <2>3, <2>5, <2>6
  <2>8. \A i, j \in 1..n :
           (/\ toHost[i].type = "RegisterInput" /\ toHost[j].type = "RegisterInput"
            /\ toHost[i].id = toHost[j].id) => i = j
    BY <1>2 DEF Apart, n
  <2>9. Apart'
    <3> SUFFICES ASSUME NEW i \in 1..Len(toHost'), NEW j \in 1..Len(toHost'),
                        toHost'[i].type \in {"RegisterInput", "InputValue"},
                        toHost'[i].type = toHost'[j].type, toHost'[i].id = toHost'[j].id
                 PROVE  i = j
      BY DEF Apart
    <3>1. CASE toHost'[i].type = "RegisterInput"
      BY <2>7, <2>8, <3>1
    <3>2. CASE toHost'[i].type = "InputValue"
      <4>1. /\ i - n \in 1..Len(b) /\ toHost'[i] = b[i - n]
            /\ j - n \in 1..Len(b) /\ toHost'[j] = b[j - n]
        BY <2>7, <3>2
      <4>2. i - n = j - n
        BY <2>4, <4>1
      <4> QED BY <2>5, <4>2
    <3> QED BY <3>1, <3>2
  <2>10. Fresh'
    BY <1>1, <1>2, <2>1, <2>7 DEF Fresh, n
  <2> QED BY <1>1, <1>3, <2>6, <2>9, <2>10 DEF Current
<1>7. CASE Hear
  <2>1. toHost' = toHost /\ toHost = << >> /\ frame' = frame
    BY <1>2, <1>7 DEF Hear, Answered
  <2>2. 1..Len(toHost') = {}
    BY <2>1
  <2>3. pc' # "waitFrame" \/ pc = "waitFrame"
    BY <1>7 DEF Hear
  <2> QED BY <1>1, <1>2, <1>3, <2>1, <2>2, <2>3 DEF Apart, Fresh, Current
<1> QED BY <1>4, <1>5, <1>6, <1>7 DEF DeviceStep

\* A loss repeats nothing.
LEMMA LossHearsOnce ==
    ASSUME Inv, InTurns, HeardOnce, Lose PROVE HeardOnce'
<1>1. /\ UNCHANGED <<State, RegisteredInputs, FrameInputValues, alive, hasty, pc, frame>>
      /\ toHost \in Seq(SentBy(device))
  BY DEF Lose, componentVars, hostVars, inputVars, deviceVars, history, Inv, OfOneDevice
<1>2. CASE UNCHANGED toHost
  BY <1>1, <1>2, HeardOnceStays
<1>3. CASE \E i \in DOMAIN toHost : toHost' = Without(toHost, i)
  <2> SUFFICES ASSUME ~hasty, alive PROVE Apart' /\ Fresh' /\ Current' /\ Lists'
    BY <1>1 DEF HeardOnce
  <2>1. Apart /\ Fresh /\ Current /\ Lists
    BY DEF HeardOnce
  <2>2. PICK i \in 1..Len(toHost) : toHost' = Without(toHost, i)
    BY <1>1, <1>3
  <2>3. /\ Len(toHost') = Len(toHost) - 1 /\ Len(toHost) \in Nat
        /\ \A k \in 1..Len(toHost') :
              Skip(i, k) \in 1..Len(toHost) /\ toHost'[k] = toHost[Skip(i, k)]
    BY <1>1, <2>2, WithoutSkips
  <2>4. \A k, l \in 1..Len(toHost') : Skip(i, k) = Skip(i, l) => k = l
    BY <2>2, <2>3 DEF Skip
  <2>5. Apart'
    BY <2>1, <2>3, <2>4 DEF Apart
  <2>6. Fresh'
    BY <1>1, <2>1, <2>3 DEF Fresh
  <2>7. Current'
    BY <1>1, <2>1, <2>3 DEF Current
  <2> QED BY <1>1, <2>1, <2>5, <2>6, <2>7 DEF Lists, Different
<1> QED BY <1>2, <1>3 DEF Lose

\* Only hearing, saying and losing could repeat something.
LEMMA NextHearsOnce ==
    ASSUME OneInputPerLabel, Inv, InTurns, HeardOnce, [Next]_vars PROVE HeardOnce'
<1>1. CASE OpenPort
  <2>1. State' = "Reset" /\ toHost' = << >>
    BY <1>1 DEF OpenPort, Connect, Host!Reset
  <2>2. 1..Len(toHost') = {}
    BY <2>1
  <2> QED BY <2>1, <2>2 DEF HeardOnce, Apart, Fresh, Current, Lists
<1>2. CASE ClosePort \/ HostTickFailed \/ Unplug \/ Plug
  <2>1. ~alive'
    BY <1>2 DEF ClosePort, HostTickFailed, ClosedPort, Unplug, Plug, Inv, OfOneDevice
  <2> QED BY <2>1 DEF HeardOnce
<1>3. CASE HostBegin \/ HostTick \/ HostTurn \/ UNCHANGED vars
  <2>1. /\ UNCHANGED <<toHost, pc, frame, State, RegisteredInputs, FrameInputValues, alive>>
        /\ ~hasty' => ~hasty
    <3>1. CASE HostBegin \/ UNCHANGED vars
      BY <3>1 DEF HostBegin, BeginPlay, vars, componentVars, cableVars, deviceVars, hostVars,
                  inputVars, history
    <3>2. CASE HostTick
      BY <3>2 DEF HostTick, TickComponent, Host!BeginTick, cableVars, deviceVars, inputVars, history
    <3>3. CASE HostTurn
      BY <3>3 DEF HostTurn, BeginTurn, Host!BeginTurn, cableVars, deviceVars, inputVars
    <3> QED BY <1>3, <3>1, <3>2, <3>3
  <2> QED BY <2>1, HeardOnceStays
<1>4. CASE HostReceiveNothing
  <2>1. /\ UNCHANGED <<pc, frame, State, RegisteredInputs, FrameInputValues, alive, hasty>>
        /\ toHost' = toHost \/ (late /\ toHost # << >>)
    BY <1>4 DEF HostReceiveNothing, ReceiveNothing, Host!ReceiveNothing, inputVars, deviceVars, history
  <2>2. ~hasty /\ alive => toHost' = toHost
    BY <2>1 DEF InTurns, Answered
  <2>3. CASE toHost' = toHost
    BY <2>1, <2>3, HeardOnceStays
  <2>4. CASE ~(~hasty /\ alive)
    BY <2>1, <2>4 DEF HeardOnce
  <2> QED BY <2>2, <2>3, <2>4
<1> QED
  BY <1>1, <1>2, <1>3, <1>4, ReceiveHearsOnce, DeviceSaysOnce, LossHearsOnce DEF Next, HostStep

-----------------------------------------------------------------------------
\* If nothing is lost, the host reads what the devices said, whoever was
\* hasty: inputs registered again come after a Reset, values of another frame
\* after an EndFrame.
Then(i, j, type) == \E k \in i..j : toHost[k].type = type

OnceBetweenResets ==
    /\ \A i, j \in 1..Len(toHost) :
          /\ i < j
          /\ toHost[i].type = "RegisterInput" /\ toHost[j].type = "RegisterInput"
          /\ toHost[i].id = toHost[j].id
          => Then(i, j, "Reset")
    /\ State \in {"Ready", "Frame"} =>
          \A i \in 1..Len(RegisteredInputs), j \in 1..Len(toHost) :
             /\ toHost[j].type = "RegisterInput"
             /\ RegisteredInputs[i].id = toHost[j].id
             => Then(1, j, "Reset")

OnceInAFrame ==
    /\ \A i, j \in 1..Len(toHost) :
          /\ i < j
          /\ toHost[i].type = "InputValue" /\ toHost[j].type = "InputValue"
          /\ toHost[i].id = toHost[j].id
          => Then(i, j, "EndFrame")
    /\ State = "Frame" =>
          \A i \in 1..Len(FrameInputValues), j \in 1..Len(toHost) :
             /\ toHost[j].type = "InputValue"
             /\ FrameInputValues[i].id = toHost[j].id
             => Then(1, j, "EndFrame")

OfTheFrameThatEnds ==
    /\ \A i, j \in 1..Len(toHost) :
          /\ i < j
          /\ toHost[i].type = "InputValue" /\ toHost[j].type = "EndFrame"
          /\ toHost[i].value.frame # toHost[j].frame
          => Then(i, j - 1, "EndFrame")
    /\ State = "Frame" =>
          \A i \in 1..Len(FrameInputValues), j \in 1..Len(toHost) :
             /\ toHost[j].type = "EndFrame"
             /\ FrameInputValues[i].value.frame # toHost[j].frame
             => Then(1, j - 1, "EndFrame")

FramesEnd ==
    /\ \A i \in 1..Len(toHost) :
          toHost[i].type \in {"StartFrame", "InputValue"} => Then(i, Len(toHost), "EndFrame")
    /\ State = "Frame" => Then(1, Len(toHost), "EndFrame")

ResetFirst ==
    pc \in {"waitReset", "register"} =>
        /\ \A i \in 1..Len(toHost) :
              toHost[i].type = "RegisterInput" => Then(i, Len(toHost), "Reset")
        /\ State \in {"Ready", "Frame"} /\ 1..Len(RegisteredInputs) # {} =>
              Then(1, Len(toHost), "Reset")

AsSaid == OnceBetweenResets /\ OnceInAFrame /\ OfTheFrameThatEnds /\ FramesEnd /\ ResetFirst /\ Lists

NothingMissing ==
    /\ losses \in Nat /\ unplugs \in Nat /\ connections \in Nat
    /\ ~Lossy /\ alive => AsSaid

\* A command that is not of the type heard now is still to come.
LEMMA ThenInTail ==
    ASSUME NEW T, toHost \in Seq(T), toHost # << >>, toHost' = Tail(toHost), NEW type
    PROVE  /\ \A i, j \in Nat : /\ i >= 1 /\ j <= Len(toHost')
                                /\ Then(i + 1, j + 1, type)
                                => Then(i, j, type)'
           /\ \A j \in Nat : /\ j <= Len(toHost') /\ toHost[1].type # type
                             /\ Then(1, j + 1, type)
                             => Then(1, j, type)'
<1>1. /\ Len(toHost') = Len(toHost) - 1 /\ Len(toHost) \in Nat
      /\ \A k \in 1..Len(toHost') : toHost'[k] = toHost[k + 1]
  BY TailSkips
<1>2. ASSUME NEW i \in Nat, NEW j \in Nat, i >= 1, j <= Len(toHost'), Then(i + 1, j + 1, type)
      PROVE  Then(i, j, type)'
  <2>1. PICK k \in (i + 1)..(j + 1) : toHost[k].type = type
    BY <1>2 DEF Then
  <2>2. k - 1 \in i..j /\ k - 1 \in 1..Len(toHost') /\ (k - 1) + 1 = k
    BY <1>1, <1>2
  <2>3. toHost'[k - 1] = toHost[k]
    BY <1>1, <2>2
  <2> QED BY <2>1, <2>2, <2>3 DEF Then
<1>3. ASSUME NEW j \in Nat, j <= Len(toHost'), toHost[1].type # type, Then(1, j + 1, type)
      PROVE  Then(1, j, type)'
  <2>1. PICK k \in 1..(j + 1) : toHost[k].type = type
    BY <1>3 DEF Then
  <2>2. k \in 2..(j + 1)
    BY <1>3, <2>1
  <2>3. Then(1 + 1, j + 1, type)
    BY <2>1, <2>2 DEF Then
  <2> QED BY <1>2, <1>3, <2>3
<1> QED BY <1>2, <1>3

\* The order in which it was said is the order in which it is heard.
LEMMA ReceiveLeavesAsSaid ==
    ASSUME Inv, AsSaid, HostReceive PROVE AsSaid'
<1>1. /\ toHost \in Seq(SentBy(device)) /\ toHost # << >> /\ alive /\ device \in Device
  BY DEF Inv, OfOneDevice, HostReceive
<1>2. /\ toHost' = Tail(toHost) /\ pc' = pc
  BY DEF HostReceive, deviceVars
<1>3. /\ OnceBetweenResets /\ OnceInAFrame /\ OfTheFrameThatEnds /\ FramesEnd /\ ResetFirst /\ Lists
  BY DEF AsSaid
<1> DEFINE c == Head(toHost)
<1>4. /\ 1 \in 1..Len(toHost) /\ c = toHost[1] /\ c \in SentBy(device)
      /\ Len(toHost') = Len(toHost) - 1 /\ Len(toHost) \in Nat /\ Len(toHost') \in Nat
      /\ \A k \in 1..Len(toHost') : k + 1 \in 1..Len(toHost) /\ toHost'[k] = toHost[k + 1] /\ 1 < k + 1
  BY <1>1, <1>2, TailSkips
<1>5. State \in {"Ready", "Frame"} => /\ RegisteredInputs \in Seq(InputsFrom(device))
                                      /\ FrameInputValues \in Seq(ValuesFrom(device))
  BY <1>1 DEF Inv, OfOneDevice
<1> HIDE DEF c
<1> PICK last \in Nat : last = Len(toHost')
  BY <1>4
<1>6. ASSUME NEW type, NEW i \in 1..Len(toHost'), NEW j \in 0..Len(toHost'), Then(i + 1, j + 1, type)
      PROVE  Then(i, j, type)'
  <2>1. i \in Nat /\ j \in Nat /\ i >= 1 /\ j <= Len(toHost')
    BY <1>4
  <2> QED BY <1>1, <1>2, <1>6, <2>1, ThenInTail
<1>7. ASSUME NEW type, NEW j \in 0..Len(toHost'), c.type # type, Then(1, j + 1, type)
      PROVE  Then(1, j, type)'
  <2>1. j \in Nat /\ j <= Len(toHost')
    BY <1>4
  <2> QED BY <1>1, <1>2, <1>4, <1>7, <2>1, ThenInTail
<1>8. \A j \in 1..Len(toHost') : /\ j \in 0..Len(toHost') /\ j - 1 \in 0..Len(toHost')
                                 /\ (j - 1) + 1 = j /\ (j + 1) - 1 = j
  BY <1>4
\* what is said about commands under way only
<1>9. \A i, j \in 1..Len(toHost') :
         /\ i < j
         /\ toHost'[i].type = "RegisterInput" /\ toHost'[j].type = "RegisterInput"
         /\ toHost'[i].id = toHost'[j].id
         => Then(i, j, "Reset")'
  <2> SUFFICES ASSUME NEW i \in 1..Len(toHost'), NEW j \in 1..Len(toHost'), i < j,
                      toHost'[i].type = "RegisterInput", toHost'[j].type = "RegisterInput",
                      toHost'[i].id = toHost'[j].id
               PROVE  Then(i, j, "Reset")'
    OBVIOUS
  <2>1. i + 1 < j + 1
    BY <1>4
  <2>2. Then(i + 1, j + 1, "Reset")
    BY <1>3, <1>4, <2>1 DEF OnceBetweenResets
  <2> QED BY <1>6, <1>8, <2>2
<1>10. \A i, j \in 1..Len(toHost') :
         /\ i < j
         /\ toHost'[i].type = "InputValue" /\ toHost'[j].type = "InputValue"
         /\ toHost'[i].id = toHost'[j].id
         => Then(i, j, "EndFrame")'
  <2> SUFFICES ASSUME NEW i \in 1..Len(toHost'), NEW j \in 1..Len(toHost'), i < j,
                      toHost'[i].type = "InputValue", toHost'[j].type = "InputValue",
                      toHost'[i].id = toHost'[j].id
               PROVE  Then(i, j, "EndFrame")'
    OBVIOUS
  <2>1. i + 1 < j + 1
    BY <1>4
  <2>2. Then(i + 1, j + 1, "EndFrame")
    BY <1>3, <1>4, <2>1 DEF OnceInAFrame
  <2> QED BY <1>6, <1>8, <2>2
<1>11. \A i, j \in 1..Len(toHost') :
         /\ i < j
         /\ toHost'[i].type = "InputValue" /\ toHost'[j].type = "EndFrame"
         /\ toHost'[i].value.frame # toHost'[j].frame
         => Then(i, j - 1, "EndFrame")'
  <2> SUFFICES ASSUME NEW i \in 1..Len(toHost'), NEW j \in 1..Len(toHost'), i < j,
                      toHost'[i].type = "InputValue", toHost'[j].type = "EndFrame",
                      toHost'[i].value.frame # toHost'[j].frame
               PROVE  Then(i, j - 1, "EndFrame")'
    OBVIOUS
  <2>1. i + 1 < j + 1
    BY <1>4
  <2>2. Then(i + 1, (j + 1) - 1, "EndFrame")
    BY <1>3, <1>4, <2>1 DEF OfTheFrameThatEnds
  <2>3. Then(i + 1, (j - 1) + 1, "EndFrame")
    BY <1>8, <2>2
  <2> QED BY <1>6, <1>8, <2>3
<1>12. \A i \in 1..Len(toHost') :
          /\ toHost'[i].type \in {"StartFrame", "InputValue"} => Then(i, last, "EndFrame")'
          /\ pc \in {"waitReset", "register"} /\ toHost'[i].type = "RegisterInput"
                => Then(i, last, "Reset")'
  <2> SUFFICES ASSUME NEW i \in 1..Len(toHost')
               PROVE  /\ toHost'[i].type \in {"StartFrame", "InputValue"} => Then(i, last, "EndFrame")'
                      /\ pc \in {"waitReset", "register"} /\ toHost'[i].type = "RegisterInput"
                            => Then(i, last, "Reset")'
    OBVIOUS
  <2>1. Len(toHost') + 1 = Len(toHost) /\ Len(toHost') \in 0..Len(toHost')
    BY <1>4
  <2>2. toHost'[i].type \in {"StartFrame", "InputValue"} => Then(i + 1, Len(toHost') + 1, "EndFrame")
    BY <1>3, <1>4, <2>1 DEF FramesEnd
  <2>3. pc \in {"waitReset", "register"} /\ toHost'[i].type = "RegisterInput"
          => Then(i + 1, Len(toHost') + 1, "Reset")
    BY <1>3, <1>4, <2>1 DEF ResetFirst
  <2> QED BY <1>6, <2>1, <2>2, <2>3
\* what is said about what is held, too
<1>13. /\ c.type # "EndFrame" /\ State = "Frame" => Then(1, last, "EndFrame")'
       /\ c.type = "StartFrame" => Then(1, last, "EndFrame")'
       /\ c.type # "Reset" /\ pc \in {"waitReset", "register"}
             /\ \/ State \in {"Ready", "Frame"} /\ 1..Len(RegisteredInputs) # {}
                \/ c.type = "RegisterInput"
             => Then(1, last, "Reset")'
  <2>1. Len(toHost') + 1 = Len(toHost) /\ Len(toHost') \in 0..Len(toHost')
    BY <1>4
  <2>2. State = "Frame" \/ c.type = "StartFrame" => Then(1, Len(toHost') + 1, "EndFrame")
    BY <1>3, <1>4, <2>1 DEF FramesEnd
  <2>3. /\ pc \in {"waitReset", "register"}
        /\ \/ State \in {"Ready", "Frame"} /\ 1..Len(RegisteredInputs) # {}
           \/ c.type = "RegisterInput"
        => Then(1, Len(toHost') + 1, "Reset")
    BY <1>3, <1>4, <2>1 DEF ResetFirst
  <2> QED BY <1>7, <2>1, <2>2, <2>3
<1>14. ASSUME c.type # "Reset", State \in {"Ready", "Frame"}, NEW id, NEW j \in 1..Len(toHost'),
              toHost'[j].type = "RegisterInput", toHost'[j].id = id,
              \/ c.type = "RegisterInput" /\ c.id = id
              \/ \E i \in 1..Len(RegisteredInputs) : RegisteredInputs[i].id = id
       PROVE  Then(1, j, "Reset")'
  <2>1. Then(1, j + 1, "Reset")
    BY <1>3, <1>4, <1>14 DEF OnceBetweenResets
  <2> QED BY <1>7, <1>8, <1>14, <2>1
<1>15. ASSUME c.type # "EndFrame", State = "Frame", NEW id, NEW j \in 1..Len(toHost'),
              toHost'[j].type = "InputValue", toHost'[j].id = id,
              \/ c.type = "InputValue" /\ c.id = id
              \/ \E i \in 1..Len(FrameInputValues) : FrameInputValues[i].id = id
       PROVE  Then(1, j, "EndFrame")'
  <2>1. Then(1, j + 1, "EndFrame")
    BY <1>3, <1>4, <1>15 DEF OnceInAFrame
  <2> QED BY <1>7, <1>8, <1>15, <2>1
<1>16. ASSUME c.type # "EndFrame", State = "Frame", NEW n, NEW j \in 1..Len(toHost'),
              toHost'[j].type = "EndFrame", toHost'[j].frame # n,
              \/ c.type = "InputValue" /\ c.value.frame = n
              \/ \E i \in 1..Len(FrameInputValues) : FrameInputValues[i].value.frame = n
       PROVE  Then(1, j - 1, "EndFrame")'
  <2>1. Then(1, (j + 1) - 1, "EndFrame")
    BY <1>3, <1>4, <1>16 DEF OfTheFrameThatEnds
  <2>2. Then(1, (j - 1) + 1, "EndFrame")
    BY <1>8, <2>1
  <2> QED BY <1>7, <1>8, <1>16, <2>2
<1>17. FramesEnd'
  <2>1. State' = "Frame" => \/ State = "Frame" /\ c.type # "EndFrame"
                            \/ c.type = "StartFrame"
    BY HeardCommand DEF c, Unheard
  <2> QED BY <1>12, <1>13, <2>1 DEF FramesEnd, Then
<1>18. CASE c.type = "Reset"
  <2>1. State' = "Ready" /\ RegisteredInputs' = << >>
    BY <1>18, HeardCommand DEF c, Unheard
  <2>2. OnceBetweenResets'
    BY <1>9, <2>1, NothingIsDifferent DEF OnceBetweenResets
  <2>3. OnceInAFrame' /\ OfTheFrameThatEnds'
    BY <1>10, <1>11, <2>1 DEF OnceInAFrame, OfTheFrameThatEnds
  <2>4. ResetFirst'
    BY <1>2, <1>12, <2>1, NothingIsDifferent DEF ResetFirst, Then
  <2> QED BY <1>17, <2>1, <2>2, <2>3, <2>4, NothingIsDifferent DEF Lists, AsSaid
<1>19. CASE c.type = "RegisterInput" /\ State = "Ready"
  <2> DEFINE e == [id |-> c.id, label |-> c.label]
  <2>1. /\ State' = "Ready" /\ RegisteredInputs' = Append(RegisteredInputs, e)
    BY <1>19, HeardCommand DEF c, Unheard
  <2>2. e \in InputsFrom(device)
    BY <1>1, <1>4, <1>19, SentBecomesHeard
  <2>3. e.id = c.id
    OBVIOUS
  <2> HIDE DEF e
  <2>4. \A i \in 1..Len(RegisteredInputs) : RegisteredInputs[i].id # e.id
    <3>1. ~Then(1, 1, "Reset")
      BY <1>4, <1>19 DEF Then
    <3> QED BY <1>3, <1>4, <1>19, <2>3, <3>1 DEF OnceBetweenResets
  <2>5. /\ Different(RegisteredInputs') /\ Len(RegisteredInputs') = Len(RegisteredInputs) + 1
        /\ Len(RegisteredInputs) \in Nat
        /\ \A i \in 1..(Len(RegisteredInputs) + 1) :
              RegisteredInputs'[i] = IF i <= Len(RegisteredInputs) THEN RegisteredInputs[i] ELSE e
    BY <1>3, <1>5, <1>19, <2>1, <2>2, <2>4, AppendDifferent DEF Lists
  <2>6. \A i \in 1..Len(RegisteredInputs') :
           RegisteredInputs'[i].id = c.id \/ \E k \in 1..Len(RegisteredInputs) :
                RegisteredInputs[k].id = RegisteredInputs'[i].id
    BY <2>3, <2>5
  <2>7. OnceBetweenResets'
    <3> SUFFICES ASSUME NEW i \in 1..Len(RegisteredInputs'), NEW j \in 1..Len(toHost'),
                        toHost'[j].type = "RegisterInput",
                        RegisteredInputs'[i].id = toHost'[j].id
                 PROVE  Then(1, j, "Reset")'
      BY <1>9 DEF OnceBetweenResets
    <3> QED BY <1>14, <1>19, <2>6
  <2>8. OnceInAFrame' /\ OfTheFrameThatEnds'
    BY <1>10, <1>11, <2>1 DEF OnceInAFrame, OfTheFrameThatEnds
  <2>9. ResetFirst'
    BY <1>2, <1>12, <1>13, <1>19 DEF ResetFirst, Then
  <2> QED BY <1>17, <2>1, <2>5, <2>7, <2>8, <2>9 DEF Lists, AsSaid
<1>20. ASSUME c.type # "Reset", UNCHANGED RegisteredInputs,
              State' \in {"Ready", "Frame"} => State \in {"Ready", "Frame"}
       PROVE  OnceBetweenResets' /\ ResetFirst'
  <2>1. OnceBetweenResets'
    BY <1>9, <1>14, <1>20 DEF OnceBetweenResets
  <2>2. ResetFirst'
    BY <1>2, <1>12, <1>13, <1>20 DEF ResetFirst, Then
  <2> QED BY <2>1, <2>2
<1>21. CASE c.type = "StartFrame" /\ State = "Ready"
  <2>1. State' = "Frame" /\ FrameInputValues' = << >> /\ RegisteredInputs' = RegisteredInputs
    BY <1>21, HeardCommand DEF c, Unheard
  <2>2. Lists'
    BY <1>3, <1>21, <2>1, NothingIsDifferent DEF Lists, Different
  <2>3. OnceInAFrame' /\ OfTheFrameThatEnds'
    BY <1>10, <1>11, <2>1, NothingIsDifferent DEF OnceInAFrame, OfTheFrameThatEnds
  <2> QED BY <1>17, <1>20, <1>21, <2>1, <2>2, <2>3 DEF AsSaid
<1>22. CASE c.type = "InputValue" /\ State = "Frame"
  <2> DEFINE e == [id |-> c.id, value |-> c.value]
  <2>1. /\ State' = "Frame" /\ FrameInputValues' = Append(FrameInputValues, e)
        /\ RegisteredInputs' = RegisteredInputs
    BY <1>22, HeardCommand DEF c, Unheard
  <2>2. e \in ValuesFrom(device)
    BY <1>1, <1>4, <1>22, SentBecomesHeard
  <2>3. e.id = c.id /\ e.value = c.value
    OBVIOUS
  <2> HIDE DEF e
  <2>4. \A i \in 1..Len(FrameInputValues) : FrameInputValues[i].id # e.id
    <3>1. ~Then(1, 1, "EndFrame")
      BY <1>4, <1>22 DEF Then
    <3> QED BY <1>3, <1>4, <1>22, <2>3, <3>1 DEF OnceInAFrame
  <2>5. /\ Different(FrameInputValues') /\ Len(FrameInputValues') = Len(FrameInputValues) + 1
        /\ Len(FrameInputValues) \in Nat
        /\ \A i \in 1..(Len(FrameInputValues) + 1) :
              FrameInputValues'[i] = IF i <= Len(FrameInputValues) THEN FrameInputValues[i] ELSE e
    BY <1>3, <1>5, <1>22, <2>1, <2>2, <2>4, AppendDifferent DEF Lists
  <2>6. \A i \in 1..Len(FrameInputValues') :
           \/ FrameInputValues'[i].id = c.id /\ FrameInputValues'[i].value = c.value
           \/ \E k \in 1..Len(FrameInputValues) : FrameInputValues[k] = FrameInputValues'[i]
    BY <2>3, <2>5
  <2>7. OnceInAFrame'
    <3> SUFFICES ASSUME NEW i \in 1..Len(FrameInputValues'), NEW j \in 1..Len(toHost'),
                        toHost'[j].type = "InputValue",
                        FrameInputValues'[i].id = toHost'[j].id
                 PROVE  Then(1, j, "EndFrame")'
      BY <1>10 DEF OnceInAFrame
    <3> QED BY <1>15, <1>22, <2>6
  <2>8. OfTheFrameThatEnds'
    <3> SUFFICES ASSUME NEW i \in 1..Len(FrameInputValues'), NEW j \in 1..Len(toHost'),
                        toHost'[j].type = "EndFrame",
                        FrameInputValues'[i].value.frame # toHost'[j].frame
                 PROVE  Then(1, j - 1, "EndFrame")'
      BY <1>11 DEF OfTheFrameThatEnds
    <3> QED BY <1>16, <1>22, <2>6
  <2>9. Lists'
    BY <1>3, <1>22, <2>1, <2>5 DEF Lists, Different
  <2> QED BY <1>17, <1>20, <1>22, <2>1, <2>7, <2>8, <2>9 DEF AsSaid
<1>23. CASE c.type = "EndFrame" /\ State = "Frame"
  <2>1. State' = "Ready" /\ RegisteredInputs' = RegisteredInputs
    BY <1>23, HeardCommand DEF c, Unheard
  <2>2. OnceInAFrame' /\ OfTheFrameThatEnds' /\ Lists'
    BY <1>3, <1>10, <1>11, <1>23, <2>1 DEF OnceInAFrame, OfTheFrameThatEnds, Lists, Different
  <2> QED BY <1>17, <1>20, <1>23, <2>1, <2>2 DEF AsSaid
<1>24. CASE Unheard(c)
  <2>1. UNCHANGED <<State, RegisteredInputs, FrameInputValues>>
    BY <1>24, HeardCommand DEF c, Unheard
  <2>2. c.type # "Reset" /\ (c.type \in {"InputValue", "EndFrame"} => State # "Frame")
    BY <1>24 DEF Unheard
  <2>3. OnceInAFrame'
    BY <1>10, <1>15, <2>1, <2>2 DEF OnceInAFrame
  <2>4. OfTheFrameThatEnds'
    BY <1>11, <1>16, <2>1, <2>2 DEF OfTheFrameThatEnds
  <2>5. Lists'
    BY <1>3, <2>1 DEF Lists, Different
  <2> QED BY <1>17, <1>20, <2>1, <2>2, <2>3, <2>4, <2>5 DEF AsSaid
<1> QED
  BY <1>18, <1>19, <1>21, <1>22, <1>23, <1>24 DEF Unheard

\* Whatever is said next leaves what is under way apart.
LEMMA DeviceLeavesAsSaid ==
    ASSUME OneInputPerLabel, Inv, alive, AsSaid, DeviceStep PROVE AsSaid'
<1>1. /\ UNCHANGED <<State, RegisteredInputs, FrameInputValues>>
      /\ toHost \in Seq(SentBy(device)) /\ device \in Device
      /\ frame \in Nat /\ frame' \in Nat
  BY DEF DeviceStep, componentVars, hostVars, inputVars, Inv, OfOneDevice,
         Announce, Register, SendFrame, Hear
<1>2. /\ OnceBetweenResets /\ OnceInAFrame /\ OfTheFrameThatEnds /\ FramesEnd /\ ResetFirst /\ Lists
  BY DEF AsSaid
<1>3. Lists'
  BY <1>1, <1>2 DEF Lists, Different
<1> DEFINE n == Len(toHost)
\* what is held stays apart, whatever is said after it
<1>4. ASSUME NEW b \in Seq(SentBy(device)), toHost' = toHost \o b,
             \/ pc' \notin {"waitReset", "register"}
             \/ pc' = "waitReset" /\ Len(b) = 1 /\ b[1].type = "Reset",
             \A i \in 1..Len(b) : b[i].type = "RegisterInput" => pc = "register",
             \A i \in 1..Len(b) : b[i].type \in {"StartFrame", "InputValue", "EndFrame"}
                => b[Len(b)].type = "EndFrame" /\ (b[i].type = "EndFrame" => i = Len(b)),
             \A i, j \in 1..Len(b) : b[i].type = "InputValue" /\ b[j].type = "EndFrame"
                => b[i].value.frame = b[j].frame,
             \A i, j \in 1..Len(b) :
                /\ b[i].type \in {"RegisterInput", "InputValue"}
                /\ b[i].type = b[j].type
                /\ b[i].id = b[j].id
                => i = j
      PROVE  AsSaid'
  <2> DEFINE m == Len(b)
  <2>1. /\ n \in Nat /\ m \in Nat /\ Len(toHost') = n + m
        /\ \A i \in 1..n : toHost'[i] = toHost[i]
        /\ \A i \in 1..(n + m) :
              \/ i \in 1..n /\ toHost'[i] = toHost[i]
              \/ i - n \in 1..m /\ toHost'[i] = b[i - n] /\ i > n
    <3>1. /\ Len(toHost \o b) = n + m
          /\ \A i \in 1..(n + m) : (toHost \o b)[i] = IF i <= n THEN toHost[i] ELSE b[i - n]
      BY <1>1, ConcatProperties
    <3>2. n \in Nat /\ m \in Nat
      BY <1>1
    <3> HIDE DEF n, m
    <3> QED BY <1>4, <3>1, <3>2
  <2> HIDE DEF m
  <2>2. n = Len(toHost) /\ n \in Nat /\ 1 \in Nat
    BY <2>1
  <2> HIDE DEF n
  <2> PICK all \in Nat : all = Len(toHost')
    BY <2>1
  <2>3. ASSUME NEW i \in Nat, i >= 1, NEW j \in Nat, j <= n, NEW k \in Nat, j <= k, NEW type,
               Then(i, j, type)
        PROVE  Then(i, k, type)'
    <3>1. PICK l \in i..j : toHost[l].type = type
      BY <2>3 DEF Then
    <3>2. l \in i..k /\ l \in 1..n
      BY <2>1, <2>3
    <3>3. toHost'[l].type = type
      BY <2>1, <3>1, <3>2
    <3> QED BY <3>2, <3>3 DEF Then
  \* the end of a frame that is said sets apart what was said before it
  <2>4. ASSUME NEW i \in Nat, NEW l \in 1..m, b[l].type = "EndFrame", i <= n + l,
               NEW k \in Nat, n + l <= k
        PROVE  Then(i, k, "EndFrame")'
    <3>1. n + l \in 1..(n + m) /\ ~(n + l \in 1..n) /\ (n + l) - n = l /\ n + l \in i..k
      BY <2>1, <2>4
    <3>2. toHost'[n + l].type = "EndFrame"
      BY <2>1, <2>4, <3>1
    <3> QED BY <3>1, <3>2 DEF Then
  <2>5. OnceBetweenResets'
    <3>1. \A j \in 1..m : b[j].type = "RegisterInput" =>
             /\ \A i \in 1..n : toHost[i].type = "RegisterInput" => Then(i, n, "Reset")
             /\ State \in {"Ready", "Frame"} /\ 1..Len(RegisteredInputs) # {} => Then(1, n, "Reset")
      BY <1>2, <1>4, <2>2 DEF ResetFirst, m
    <3>2. ASSUME NEW i \in 1..Len(toHost'), NEW j \in 1..Len(toHost'), i < j,
                 toHost'[i].type = "RegisterInput", toHost'[j].type = "RegisterInput",
                 toHost'[i].id = toHost'[j].id
          PROVE  Then(i, j, "Reset")'
      <4>1. CASE i \in 1..n /\ j \in 1..n
        <5>1. Then(i, j, "Reset")
          BY <1>2, <2>1, <2>2, <3>2, <4>1 DEF OnceBetweenResets
        <5> QED BY <2>3, <4>1, <5>1
      <4>2. CASE i \in 1..n /\ j - n \in 1..m /\ toHost'[j] = b[j - n] /\ j > n
        <5>1. Then(i, n, "Reset")
          BY <2>1, <3>1, <3>2, <4>2
        <5> QED BY <2>2, <2>3, <4>2, <5>1
      <4>3. CASE i - n \in 1..m /\ toHost'[i] = b[i - n] /\ j - n \in 1..m /\ toHost'[j] = b[j - n]
        <5>1. i - n = j - n
          BY <1>4, <3>2, <4>3 DEF m
        <5> QED BY <2>1, <3>2, <5>1
      <4> QED BY <2>1, <3>2, <4>1, <4>2, <4>3
    <3>3. ASSUME State \in {"Ready", "Frame"}, NEW i \in 1..Len(RegisteredInputs),
                 NEW j \in 1..Len(toHost'), toHost'[j].type = "RegisterInput",
                 RegisteredInputs[i].id = toHost'[j].id
          PROVE  Then(1, j, "Reset")'
      <4>1. CASE j \in 1..n
        <5>1. Then(1, j, "Reset")
          BY <1>2, <2>1, <2>2, <3>3, <4>1 DEF OnceBetweenResets
        <5> QED BY <2>2, <2>3, <4>1, <5>1
      <4>2. CASE j - n \in 1..m /\ toHost'[j] = b[j - n] /\ j > n
        <5>1. Then(1, n, "Reset")
          BY <3>1, <3>3, <4>2
        <5> QED BY <2>2, <2>3, <4>2, <5>1
      <4> QED BY <2>1, <4>1, <4>2
    <3> QED BY <1>1, <3>2, <3>3 DEF OnceBetweenResets
  <2>6. \A i \in 1..n : toHost[i].type \in {"StartFrame", "InputValue"} => Then(i, n, "EndFrame")
    BY <1>2, <2>2 DEF FramesEnd
  <2>7. State = "Frame" => Then(1, n, "EndFrame")
    BY <1>2, <2>2 DEF FramesEnd
  <2>8. OnceInAFrame'
    <3>1. ASSUME NEW i \in 1..Len(toHost'), NEW j \in 1..Len(toHost'), i < j,
                 toHost'[i].type = "InputValue", toHost'[j].type = "InputValue",
                 toHost'[i].id = toHost'[j].id
          PROVE  Then(i, j, "EndFrame")'
      <4>1. CASE i \in 1..n /\ j \in 1..n
        <5>1. Then(i, j, "EndFrame")
          BY <1>2, <2>1, <2>2, <3>1, <4>1 DEF OnceInAFrame
        <5> QED BY <2>3, <4>1, <5>1
      <4>2. CASE i \in 1..n /\ j - n \in 1..m /\ toHost'[j] = b[j - n] /\ j > n
        <5>1. Then(i, n, "EndFrame")
          BY <2>1, <2>6, <3>1, <4>2
        <5> QED BY <2>2, <2>3, <4>2, <5>1
      <4>3. CASE i - n \in 1..m /\ toHost'[i] = b[i - n] /\ j - n \in 1..m /\ toHost'[j] = b[j - n]
        <5>0. /\ b[i - n].type = "InputValue" /\ b[i - n].type = b[j - n].type
              /\ b[i - n].id = b[j - n].id
          BY <3>1, <4>3
        <5>1. i - n = j - n
          BY <1>4, <4>3, <5>0 DEF m
        <5> QED BY <2>1, <3>1, <5>1
      <4> QED BY <2>1, <3>1, <4>1, <4>2, <4>3
    <3>2. ASSUME State = "Frame", NEW i \in 1..Len(FrameInputValues),
                 NEW j \in 1..Len(toHost'), toHost'[j].type = "InputValue",
                 FrameInputValues[i].id = toHost'[j].id
          PROVE  Then(1, j, "EndFrame")'
      <4>1. CASE j \in 1..n
        <5>1. Then(1, j, "EndFrame")
          BY <1>2, <2>1, <2>2, <3>2, <4>1 DEF OnceInAFrame
        <5> QED BY <2>2, <2>3, <4>1, <5>1
      <4>2. CASE j > n
        BY <2>2, <2>3, <2>7, <3>2, <4>2
      <4> QED BY <2>1, <4>1, <4>2
    <3> QED BY <1>1, <3>1, <3>2 DEF OnceInAFrame
  <2>9. OfTheFrameThatEnds'
    <3>1. ASSUME NEW i \in 1..Len(toHost'), NEW j \in 1..Len(toHost'), i < j,
                 toHost'[i].type = "InputValue", toHost'[j].type = "EndFrame",
                 toHost'[i].value.frame # toHost'[j].frame
          PROVE  Then(i, j - 1, "EndFrame")'
      <4>1. CASE i \in 1..n /\ j \in 1..n
        <5>1. Then(i, j - 1, "EndFrame")
          BY <1>2, <2>1, <2>2, <3>1, <4>1 DEF OfTheFrameThatEnds
        <5>2. i \in Nat /\ i >= 1 /\ j - 1 \in Nat /\ j - 1 <= n
          BY <2>1, <4>1
        <5> QED BY <2>3, <5>1, <5>2
      <4>2. CASE i \in 1..n /\ j - n \in 1..m /\ toHost'[j] = b[j - n] /\ j > n
        <5>1. Then(i, n, "EndFrame")
          BY <2>1, <2>6, <3>1, <4>2
        <5> QED BY <2>2, <2>3, <4>2, <5>1
      <4>3. CASE i - n \in 1..m /\ toHost'[i] = b[i - n] /\ j - n \in 1..m /\ toHost'[j] = b[j - n]
        BY <1>4, <3>1, <4>3 DEF m
      <4> QED BY <2>1, <3>1, <4>1, <4>2, <4>3
    <3>2. ASSUME State = "Frame", NEW i \in 1..Len(FrameInputValues),
                 NEW j \in 1..Len(toHost'), toHost'[j].type = "EndFrame",
                 FrameInputValues[i].value.frame # toHost'[j].frame
          PROVE  Then(1, j - 1, "EndFrame")'
      <4>1. CASE j \in 1..n
        <5>1. Then(1, j - 1, "EndFrame")
          BY <1>2, <2>1, <2>2, <3>2, <4>1 DEF OfTheFrameThatEnds
        <5> QED BY <2>2, <2>3, <4>1, <5>1
      <4>2. CASE j > n
        BY <2>2, <2>3, <2>7, <3>2, <4>2
      <4> QED BY <2>1, <4>1, <4>2
    <3> QED BY <1>1, <3>1, <3>2 DEF OfTheFrameThatEnds
  <2>10. FramesEnd'
    <3>1. ASSUME NEW i \in 1..Len(toHost'), toHost'[i].type \in {"StartFrame", "InputValue"}
          PROVE  Then(i, all, "EndFrame")'
      <4>1. CASE i \in 1..n
        BY <2>1, <2>3, <2>6, <3>1, <4>1
      <4>2. CASE i - n \in 1..m /\ toHost'[i] = b[i - n]
        <5>1. b[m].type = "EndFrame" /\ m \in 1..m /\ i <= n + m /\ n + m = all
          BY <1>4, <2>1, <3>1, <4>2 DEF m
        <5> QED BY <2>4, <5>1
      <4> QED BY <2>1, <4>1, <4>2
    <3>2. State = "Frame" => Then(1, all, "EndFrame")'
      BY <2>1, <2>2, <2>3, <2>7
    <3> QED BY <1>1, <3>1, <3>2 DEF FramesEnd, Then
  <2>11. ResetFirst'
    <3>1. CASE pc' \notin {"waitReset", "register"}
      BY <3>1 DEF ResetFirst
    <3>2. CASE m = 1 /\ b[1].type = "Reset"
      <4>1. all = n + 1 /\ all - n \in 1..m /\ ~(all \in 1..n)
        BY <2>1, <3>2
      <4>2. toHost'[all].type = "Reset"
        BY <2>1, <3>2, <4>1
      <4>3. \A i \in 1..all : all \in i..all
        OBVIOUS
      <4>4. 1 \in 1..all
        BY <2>1, <4>1
      <4> QED BY <4>2, <4>3, <4>4 DEF ResetFirst, Then
    <3> QED BY <1>4, <3>1, <3>2 DEF m
  <2> QED BY <1>3, <2>5, <2>8, <2>9, <2>10, <2>11 DEF AsSaid
<1> HIDE DEF n
<1>5. CASE Announce
  <2> DEFINE b == <<[type |-> "Reset"]>>
  <2>1. pc' = "waitReset" /\ toHost' = toHost \o b
    BY <1>5 DEF Announce, Say
  <2>2. b \in Seq(SentBy(device)) /\ Len(b) = 1 /\ b[1].type = "Reset"
    BY <1>1, DeviceSaysItsOwn
  <2> HIDE DEF b
  <2>3. \A i \in 1..Len(b) : b[i].type = "Reset"
    BY <2>2
  <2> QED BY <1>4, <2>1, <2>2, <2>3
<1>6. CASE Register
  <2> DEFINE b == <<[type |-> "Message"]>> \o Inputs_(device)
             m == Len(InputsOf[device])
  <2>1. pc = "register" /\ pc' = "frame" /\ toHost' = toHost \o b
    BY <1>6 DEF Register, Say
  <2>2. AreInputs(b, device)
    BY <1>1, WhatDevicesSay
  <2> HIDE DEF b
  <2>3. /\ m \in Nat /\ b \in Seq(SentBy(device)) /\ Len(b) = m + 1
        /\ b[1].type = "Message" /\ \A k \in 2..(m + 1) : b[k].type = "RegisterInput"
    BY <2>2 DEF AreInputs
  <2>4. \A i, j \in 1..Len(b) :
           /\ b[i].type \in {"RegisterInput", "InputValue"}
           /\ b[i].type = b[j].type
           /\ b[i].id = b[j].id
           => i = j
    BY <1>1, <2>2, SaidOnce
  <2> HIDE DEF m
  <2>5. \A i \in 1..Len(b) : b[i].type \in {"Message", "RegisterInput"}
    BY <2>3
  <2> QED BY <1>4, <2>1, <2>3, <2>4, <2>5
<1>7. CASE SendFrame
  <2> DEFINE b == FrameOf(device, frame')
             m == Len(InputsOf[device])
  <2>1. pc = "frame" /\ pc' = "waitFrame" /\ toHost' = toHost \o b
    BY <1>7 DEF SendFrame, Say
  <2>2. IsFrame(b, device, frame')
    BY <1>1, WhatDevicesSay
  <2> HIDE DEF b
  <2>3. /\ m \in Nat /\ b \in Seq(SentBy(device)) /\ Len(b) = m + 2
        /\ b[1].type = "StartFrame" /\ b[m + 2].type = "EndFrame" /\ b[m + 2].frame = frame'
        /\ \A k \in 2..(m + 1) : b[k].type = "InputValue" /\ b[k].value.frame = frame'
    BY <2>2 DEF IsFrame
  <2>4. \A i, j \in 1..Len(b) :
           /\ b[i].type \in {"RegisterInput", "InputValue"}
           /\ b[i].type = b[j].type
           /\ b[i].id = b[j].id
           => i = j
    BY <1>1, <2>2, SaidOnce
  <2> HIDE DEF m
  <2>5. \A i \in 1..Len(b) :
           \/ i = 1 /\ b[i].type = "StartFrame"
           \/ i = Len(b) /\ b[i].type = "EndFrame" /\ b[i].frame = frame'
           \/ b[i].type = "InputValue" /\ b[i].value.frame = frame'
    BY <2>3
  <2>6. b[Len(b)].type = "EndFrame"
    BY <2>3
  <2> QED BY <1>4, <2>1, <2>3, <2>4, <2>5, <2>6
<1>8. CASE Hear
  <2>1. /\ toHost' = toHost
        /\ pc' \in {"waitReset", "register"} => pc \in {"waitReset", "register"}
    BY <1>8 DEF Hear
  <2>2. OnceBetweenResets' /\ OnceInAFrame'
    BY <1>1, <1>2, <2>1 DEF OnceBetweenResets, OnceInAFrame, Then
  <2>3. OfTheFrameThatEnds' /\ FramesEnd'
    BY <1>1, <1>2, <2>1 DEF OfTheFrameThatEnds, FramesEnd, Then
  <2>4. ResetFirst'
    BY <1>1, <1>2, <2>1 DEF ResetFirst, Then
  <2> QED BY <1>3, <2>2, <2>3, <2>4 DEF AsSaid
<1> QED BY <1>5, <1>6, <1>7, <1>8 DEF DeviceStep

\* Nothing else changes what is under way without a loss.
LEMMA NextMissesNothing ==
    ASSUME OneInputPerLabel, Inv, NothingMissing, [Next]_vars PROVE NothingMissing'
<1>1. /\ losses' \in Nat /\ unplugs' \in Nat /\ connections' \in Nat
      /\ ~Lossy' => ~Lossy
      /\ ~Lossy' => UNCHANGED <<losses, unplugs>>
  <2>1. \/ UNCHANGED counters
        \/ losses' = losses + 1 /\ UNCHANGED <<unplugs, connections>>
        \/ unplugs' = unplugs + 1 /\ UNCHANGED <<losses, connections>>
        \/ connections' = connections + 1 /\ UNCHANGED <<losses, unplugs>>
    BY DEF Next, HostStep, HostBegin, HostTick, HostTurn, HostReceive, HostReceiveNothing,
       HostTickFailed, OpenPort, ClosePort, ClosedPort, DeviceStep, Lose, Unplug, Plug, vars, counters
  <2> QED BY <2>1 DEF NothingMissing, Lossy, counters
<1> SUFFICES ASSUME ~Lossy', alive' PROVE AsSaid'
  BY <1>1 DEF NothingMissing
<1>2. alive => AsSaid
  BY <1>1 DEF NothingMissing
<1>3. losses \in Nat /\ unplugs \in Nat /\ losses' = losses /\ unplugs' = unplugs
  BY <1>1 DEF NothingMissing
<1>4. CASE OpenPort
  <2>1. State' = "Reset" /\ toHost' = << >>
    BY <1>4 DEF OpenPort, Connect, Host!Reset
  <2>2. 1..Len(toHost') = {}
    BY <2>1
  <2>3. OnceBetweenResets' /\ OnceInAFrame' /\ OfTheFrameThatEnds'
    BY <2>1, <2>2 DEF OnceBetweenResets, OnceInAFrame, OfTheFrameThatEnds
  <2>4. FramesEnd' /\ ResetFirst' /\ Lists'
    BY <2>1, <2>2 DEF FramesEnd, ResetFirst, Lists
  <2> QED BY <2>3, <2>4 DEF AsSaid
<1>5. ASSUME alive, UNCHANGED <<toHost, pc, State, RegisteredInputs, FrameInputValues>> PROVE AsSaid'
  <2>1. /\ OnceBetweenResets /\ OnceInAFrame /\ OfTheFrameThatEnds /\ FramesEnd /\ ResetFirst /\ Lists
    BY <1>2, <1>5 DEF AsSaid
  <2>2. OnceBetweenResets' /\ OnceInAFrame'
    BY <1>5, <2>1 DEF OnceBetweenResets, OnceInAFrame, Then
  <2>3. OfTheFrameThatEnds'
    BY <1>5, <2>1 DEF OfTheFrameThatEnds, Then
  <2>4. FramesEnd'
    BY <1>5, <2>1 DEF FramesEnd, Then
  <2>5. ResetFirst' /\ Lists'
    BY <1>5, <2>1 DEF ResetFirst, Lists, Different, Then
  <2> QED BY <2>2, <2>3, <2>4, <2>5 DEF AsSaid
<1>6. CASE HostBegin \/ UNCHANGED vars
  <2>1. UNCHANGED <<alive, toHost, pc, State, RegisteredInputs, FrameInputValues>>
    BY <1>6 DEF HostBegin, BeginPlay, vars, componentVars, cableVars, deviceVars, hostVars, inputVars
  <2> QED BY <1>5, <2>1
<1>7. CASE HostTick
  <2>1. UNCHANGED <<alive, toHost, pc, State, RegisteredInputs, FrameInputValues>>
    BY <1>7 DEF HostTick, TickComponent, Host!BeginTick, cableVars, deviceVars, inputVars
  <2> QED BY <1>5, <2>1
<1>8. CASE HostTurn
  <2>1. UNCHANGED <<alive, toHost, pc, State, RegisteredInputs, FrameInputValues>>
    BY <1>8 DEF HostTurn, BeginTurn, Host!BeginTurn, cableVars, deviceVars, inputVars
  <2> QED BY <1>5, <2>1
<1>9. CASE HostReceiveNothing
  <2>1. /\ UNCHANGED <<alive, pc, State, RegisteredInputs, FrameInputValues>>
        /\ toHost' = toHost \/ losses' = losses + 1
    BY <1>9 DEF HostReceiveNothing, ReceiveNothing, Host!ReceiveNothing, inputVars, deviceVars
  <2>2. toHost' = toHost
    BY <1>3, <2>1
  <2> QED BY <1>5, <2>1, <2>2
<1>10. CASE HostReceive
  BY <1>2, <1>10, ReceiveLeavesAsSaid DEF HostReceive
<1>11. CASE DeviceStep
  BY <1>2, <1>11, DeviceLeavesAsSaid DEF DeviceStep
<1>12. CASE Lose \/ Unplug
  BY <1>3, <1>12 DEF Lose, Unplug
<1>13. CASE ClosePort \/ HostTickFailed \/ Plug
  BY <1>13 DEF ClosePort, HostTickFailed, ClosedPort, Plug, Inv, OfOneDevice
<1> QED
  BY <1>4, <1>6, <1>7, <1>8, <1>9, <1>10, <1>11, <1>12, <1>13 DEF Next, HostStep

\* Init gives every label one delegate: as many bindings as labels, and
\* none without.
LEMMA InitBindsOnce == Init => OneBindingPerLabel
<1> SUFFICES ASSUME Init PROVE OneBindingPerLabel
  OBVIOUS
<1> DEFINE N == Cardinality(Label)
           Of(b) == {b[i].label : i \in DOMAIN b}
           R == [label : Label, delegate : Delegate]
<1>1. IsFiniteSet(Label) /\ N \in Nat
  BY PuppetAssumption, FS_CardinalityType
<1>2. InputBindings = CHOOSE b \in [1..N -> R] : Of(b) = Label
  BY DEF Init, InitWith
<1> HIDE DEF N
<1>3. \E b \in [1..N -> R] : Of(b) = Label
  <2>1. PICK f : f \in Bijection(1..N, Label)
    <3>1. ExistsBijection(1..N, Label)
      BY <1>1, FS_CardinalityType DEF N
    <3> QED BY <3>1, Zenon DEF ExistsBijection
  <2>2. f \in [1..N -> Label] /\ \A l \in Label : \E i \in 1..N : f[i] = l
    BY <2>1 DEF Bijection, Injection, Surjection
  <2>3. PICK d : d \in Delegate
    BY PuppetAssumption
  <2> DEFINE b == [i \in 1..N |-> [label |-> f[i], delegate |-> d]]
  <2>4. b \in [1..N -> R] /\ DOMAIN b = 1..N /\ \A i \in 1..N : b[i].label = f[i]
    BY <2>2, <2>3
  <2> HIDE DEF b
  <2>5. Of(b) = Label
    BY <2>2, <2>4
  <2> QED BY <2>4, <2>5
<1> HIDE DEF Of
<1>4. InputBindings \in [1..N -> R] /\ Of(InputBindings) = Label
  BY <1>2, <1>3
<1> DEFINE g == [i \in 1..N |-> InputBindings[i].label]
<1>5. g \in [1..N -> Label]
  BY <1>4
<1>6. \A l \in Label : \E i \in 1..N : g[i] = l
  <2> SUFFICES ASSUME NEW l \in Label PROVE \E i \in 1..N : g[i] = l
    OBVIOUS
  <2>1. PICK i \in DOMAIN InputBindings : l = InputBindings[i].label
    BY <1>4 DEF Of
  <2> QED BY <1>4, <2>1
<1>7. g \in Surjection(1..N, Label)
  BY <1>5, <1>6, Fun_IsSurj
<1>8. IsFiniteSet(1..N) /\ Cardinality(1..N) = N
  BY <1>1, FS_Interval
<1>9. g \in Injection(1..N, Label)
  BY <1>1, <1>7, <1>8, FS_SurjSameCardinalityImpliesInj DEF N
<1>10. \A i, j \in 1..N : g[i] = g[j] => i = j
  BY <1>9 DEF Injection, IsInjective
<1> QED BY <1>4, <1>10 DEF OneBindingPerLabel

\* However commands are lost or the host loses patience, as long as not both
\* happen, and however ports are closed and opened again: what the delegates
\* are given at the end of a frame are values of that frame, each once.
THEOREM FramesStayApart ==
    ASSUME OneInputPerLabel PROVE Spec => []FramesDoNotMix
<1> DEFINE I == /\ InTurns /\ HeardOnce /\ NothingMissing /\ OneBindingPerLabel
                /\ FramesDoNotMix
<1>1. Init => I
  <2> SUFFICES ASSUME Init PROVE I
    OBVIOUS
  <2>1. HeardOnce /\ NothingMissing
    BY DEF Init, HeardOnce, NothingMissing
  <2>2. FramesDoNotMix
    BY DEF Init, InitWith, FramesDoNotMix
  <2> QED BY <2>1, <2>2, InitInTurns, InitBindsOnce
<1>2. Inv /\ I /\ [Next]_vars => I'
  <2> SUFFICES ASSUME Inv, I, [Next]_vars PROVE I'
    OBVIOUS
  <2>1. InTurns' /\ HeardOnce' /\ NothingMissing'
    BY NextInTurns, NextHearsOnce, NextMissesNothing
  <2>2. InputBindings' = InputBindings
    BY DEF Next, HostStep, HostBegin, BeginPlay, HostTick, TickComponent, HostTurn, BeginTurn,
       HostReceive, Receive, HostReceiveNothing, ReceiveNothing, HostTickFailed, TickFailed, Detach,
       OpenPort, Connect, ClosePort, Disconnect, DeviceStep, Lose, Unplug, Plug, vars, componentVars
  <2>3. OneBindingPerLabel'
    BY <2>2 DEF OneBindingPerLabel
  <2>4. hasty => hasty'
    BY DEF Next, HostStep, HostBegin, HostTick, HostTurn, HostReceive, HostReceiveNothing,
       HostTickFailed, OpenPort, ClosePort, ClosedPort, DeviceStep, Lose, Unplug, Plug, vars, history
  <2>5. Lossy => Lossy'
    <3>1. \/ UNCHANGED counters
          \/ losses' = losses + 1 /\ UNCHANGED <<unplugs, connections>>
          \/ unplugs' = unplugs + 1 /\ UNCHANGED <<losses, connections>>
          \/ connections' = connections + 1 /\ UNCHANGED <<losses, unplugs>>
      BY DEF Next, HostStep, HostBegin, HostTick, HostTurn, HostReceive, HostReceiveNothing,
         HostTickFailed, OpenPort, ClosePort, ClosedPort, DeviceStep, Lose, Unplug, Plug, vars, counters
    <3> QED BY <3>1 DEF NothingMissing, Lossy, counters
  <2>6. CASE HostReceive
    <3> DEFINE c == Head(toHost)
    <3>1. CASE ~(c.type = "EndFrame" /\ State = "Frame")
      <4>1. executed' = {}
        BY <2>6, <3>1, HeardCommand DEF Unheard
      <4> QED BY <2>1, <2>3, <4>1 DEF FramesDoNotMix
    <3>2. CASE c.type = "EndFrame" /\ State = "Frame"
      <4>1. /\ executed' = Deliveries(RegisteredInputs, FrameInputValues, InputBindings)
            /\ ended' = c.frame
        BY <2>6, <3>2, HeardCommand DEF Unheard
      <4>2. /\ alive /\ toHost \in Seq(SentBy(device)) /\ toHost # << >> /\ device \in Device
            /\ RegisteredInputs \in Seq(InputsFrom(device))
            /\ FrameInputValues \in Seq(ValuesFrom(device))
        BY <2>6, <3>2 DEF Inv, OfOneDevice, HostReceive
      <4>3. 1 \in 1..Len(toHost) /\ c = toHost[1]
        BY <4>2, TailSkips
      <4> HIDE DEF c
      <4> SUFFICES ASSUME ~(hasty' /\ Lossy') PROVE OfFrame(executed', ended')
        BY <2>1, <2>3 DEF FramesDoNotMix, OfFrame
      <4>4. CASE ~hasty
        <5>1. Said /\ Current /\ Lists
          BY <4>2, <4>4 DEF InTurns, HeardOnce
        <5>2. pc = "waitFrame" /\ c.frame = frame
          BY <3>2, <4>3, <5>1 DEF Said
        <5>3. \A i \in 1..Len(FrameInputValues) : FrameInputValues[i].value.frame = c.frame
          BY <3>2, <5>1, <5>2 DEF Current
        <5>4. Different(RegisteredInputs) /\ Different(FrameInputValues)
          BY <3>2, <5>1 DEF Lists
        <5> QED BY <4>1, <4>2, <5>3, <5>4, DeliveriesOfOneFrame
      <4>5. CASE ~Lossy
        <5>1. OfTheFrameThatEnds /\ Lists
          BY <4>2, <4>5 DEF NothingMissing, AsSaid
        <5>2. ~Then(1, 1 - 1, "EndFrame")
          BY DEF Then
        <5>3. \A i \in 1..Len(FrameInputValues) : FrameInputValues[i].value.frame = c.frame
          BY <3>2, <4>3, <5>1, <5>2 DEF OfTheFrameThatEnds
        <5>4. Different(RegisteredInputs) /\ Different(FrameInputValues)
          BY <3>2, <5>1 DEF Lists
        <5> QED BY <4>1, <4>2, <5>3, <5>4, DeliveriesOfOneFrame
      <4> QED BY <2>4, <2>5, <4>4, <4>5
    <3> QED BY <3>1, <3>2
  <2>7. CASE ~HostReceive
    <3>1. executed' = {} \/ (executed' = executed /\ ended' = ended)
      BY <2>7 DEF Next, HostStep, HostBegin, BeginPlay, HostTick, TickComponent, HostTurn, BeginTurn,
         HostReceiveNothing, ReceiveNothing, HostTickFailed, TickFailed, Detach,
         OpenPort, Connect, ClosePort, Disconnect, ClosedPort, DeviceStep, Lose, Unplug, Plug,
         vars, componentVars, history
    <3> QED BY <2>1, <2>3, <2>4, <2>5, <3>1 DEF FramesDoNotMix
  <2> QED BY <2>6, <2>7
<1>3. I => FramesDoNotMix
  OBVIOUS
<1> QED BY <1>1, <1>2, <1>3, InvIsInvariant, PTL DEF Spec

=============================================================================
