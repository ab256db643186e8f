# UE5Waldo: models, checks and proofs

UE5Waldo drives a virtual puppet in Unreal Engine from the knobs and buttons of
an Arduino. The device and the game talk over a serial line: the device
announces itself, registers its inputs, and sends one frame of input values
after another; the host acknowledges. This directory holds TLA+ models of the
host side, their TLC runs, and theorems about them proved with TLAPS. Beside
them are models of the one vendored plugin with threads of its own, RiderLink:
its wire, and how its model of the editor follows a connection.

Paths below are relative to `src/Plugins/Waldo/Source/Waldo`,
`src/Plugins/Serial/Source/Serial` and, for RiderLink,
`src/Plugins/Developer/RiderLink/Source`.

## 1. Inventory

| Component | State it keeps | Operations | What is hard about it |
|---|---|---|---|
| `UWaldoCommandByteStream` (`Private/Command`) | `Buffer`, the bytes of the command being assembled; the port | `Setup`, `Reset`, `Receive`, `Send` | bytes come cut anywhere, with noise; the port may die between `Available` and `Read`; `Buffer` outlives connections |
| `UWaldoHostStateMachine` (`Private/State`) | `State`, `LastCommandTime` | `Reset`, `Tick`, `Process`; six delegates | time-outs race late answers; commands ignored by state; sends that fail half-way; re-entrancy through its broadcasts |
| `UWaldoComponent` (`Private/Components`) | the port, `RegisteredInputs`, `FrameInputValues`, `InputBindings` | `Connect`, `Disconnect`, `Bind…`, `Unbind…`, `BeginPlay`, `TickComponent`, six handlers | Blueprints call back from inside a tick; lists survive a disconnect; another device with the same ids |
| encoder, decoder, command types | none | encode, decode | payloads shorter than their type needs |
| `USerialPort`, `FSerialPortMac`, `FSerialPortWindows` | the operating system's handle | `Open`, `Close`, `Available`, `Read`, `Write`, destruction | every system call may fail, also while undoing an earlier failure; the platforms disagree on what failure is |
| `USerialSubsystem` | `SerialPortDevices`, a timer | `Initialize`, `Deinitialize`, `HandleTimer`, `EnumerateSerialPortDevices` | polling; a list that changes before its events are out; entries that are equal |
| the device's program | not in the repository (the Arduino library is a project of its own) | | known only from what the host expects |
| `ByteBufferAsyncProcessor` and `SocketWire` (`RD/src/rd_framework_cpp`) | what is put, queued, sent and not acknowledged; sequence numbers; paused or not | `put`, `ThreadProc`, `process`, `reprocess`, `pause`, `resume`, `acknowledge`, `stop`; `set_socket_provider`, `read_package` | three threads and three locks; connections that break with packages and acknowledgements under way; a counterpart that restarts |
| `MessageBroker`, `LifetimeImpl`, `Property`, the scheduler (`RD/src`) | who listens to an id; messages nobody listens to yet; actions of a lifetime | `dispatch`, `invoke`, `advise_on`; `add_action`, `bracket`, `terminate`; `set`, `view`; `queue` | the wire's thread and the scheduler's meet in each of them |
| `FRiderLinkModule`, `FRiderGameControlModule` (`RiderLink`, `RiderGameControl`) | `EditorModel`, `RdIsModelAlive`, `GameControl` | the handler of `connected`, `ViewModel`, `QueueAction`, `FireAsyncAction`, start-up and shutdown | a model is replaced while other threads use the last; connections come and go faster than tasks are done |
| the rest of RiderLink: reactive collections, RdProperty and RdMap replicas, heartbeat, serializers, generated protocol models, play modes, logging, third-party libraries | | | |
| module glue, logging, assets, configuration | none | | |

How they interact. `UWaldoComponent::TickComponent` calls
`UWaldoHostStateMachine::Tick`, which loops: read the clock, ask the byte
stream for a command, process it. Processing may send an acknowledgement
through the byte stream and the port, changes `State`, and broadcasts a
delegate; the component's handlers keep the lists and broadcast in turn to
Blueprints, which may call `Connect`, `Disconnect`, `Bind…` and `Unbind…` before
the broadcast returns. A failed send makes `Tick` return false and the component
disconnect. All of that runs on the game thread; the cable, the device and the
operating system do not wait for it. Blueprints find devices through
`USerialSubsystem`.

RiderLink has nothing to do with the puppet. A thread of `SocketWire` makes a
connection, resumes the processor, sets `connected`, and then reads packages;
messages go through `MessageBroker` to tasks of the one scheduler's thread.
`connected` gives a lifetime to `FRiderLinkModule`'s handler, which queues the
making of a model; the end of that lifetime queues the news that the model is
gone. `FRiderGameControlModule` views the model, and the logging threads fire
into it under a read lock.

What makes each correct. The byte stream delivers the commands the bytes amount
to, whole and in order, however they are cut. The state machine tells a silent
device to reset, in time and not sooner, and gets it going again whatever was
lost. The component gives each delegate the values of its label, of one frame,
each once. The port loses no handle and claims no byte it has not written. The
subsystem's list and its events never come apart. The wire repeats what may not
have been read, from the right place, and skips nothing. Nobody uses a model
that has been replaced, and messages reach the one that exists, in order. The hazards behind these
sentences are listed, each at its line, under `hazards` in `PROJECT.json`.

## 2. Plan

Done, in the order of importance to the program:

1. `WaldoCommandFormat`, `WaldoCommandByteStream` with its abstraction
   `CommandChannel`, and the proofs of the parser.
2. `WaldoHostTimer` and its proofs.
3. `WaldoHostStateMachine` inside `WaldoComponent`; `WaldoComponentLog` (any
   device), `WaldoPuppet` (a well-behaved one, with a cable that is not) and
   `WaldoFrameEnd` (the loops of a frame, delegate by delegate).
4. `SerialPort` and its proofs; `SerialSubsystem`.
5. `RdWire` with its abstraction `RepeatingStream`, and its proofs.
6. `RiderLink` and its proofs.

7. Of `WaldoComponentLog` everything: type correctness, the state and the
   deliveries as functions of the log; the passes of `WaldoFrameEnd`; all of
   `WaldoPuppet` that is not temporal; the acknowledgements of `RdWire`; the
   messages of `RiderLink`; `SerialSubsystem`. With these every invariant and every
   action property of a passing run is a theorem, but for `ChunkingIrrelevant`.

Next, proving more: `ImplementsChannel` and `ChunkingIrrelevant`, if the induction it needs can be done
with least counterexamples, as for `Only`.

Next, modelling more, if it is worth it: the replicas of RD (`RdProperty`,
`RdMap` with its versions and acknowledgements) over `RepeatingStream`. What to
look at first: whether two ends of which one `is_master` agree once the wire is
idle, when `RdMap.h:116` keeps the version of the first of two changes that are both
unacknowledged, and when the wire starts over with messages already read.

## 3. The modules

A definition keeps the name of the function it models; `map` in
`PROJECT.json` gives the lines. An operator introduced by a comment "The slip
of …" is not the code but a plausible mistake in it. No specification uses it:
substituted for the definition after it, it must make a property fail, which is
how each property is known to be able to.

**`WaldoCommandFormat`** (`WaldoCommandByteStream.cpp`). The wire format and the
parser's pure functions over sequences of bytes: `SkipToGuard`,
`IsReadyToParseCommand`, `ParseCommand`; and `Decode`, a reference parser that
sees a whole byte string at once. Guard and byte range are parameters.

**`WaldoCommandByteStream`**. `Receive` computes `Available` once and then reads
that many bytes, so it is `Receive` followed by `ReadByte` steps, with `left` the
iterations to go; `ReadGarbage` is an iteration whose `Read` fails. `Setup` keeps
`Buffer`, `Reset` empties it. The device sends whole commands; noise changes or
drops a byte; the cable may be pulled. `stream` and `delivered` are histories.

**`CommandChannel`**: what the byte stream promises, a queue of commands that
may lose but neither alters, reorders nor duplicates.

**`WaldoHostTimer`** (`UWaldoHostStateMachine::Tick`, clock part). `Time` is read
at the start of each turn of the loop, before the attempt to receive; what the
code sees of an instant is `Float[t]`, any function within half of `Quantum` of
it, because `GetTime` narrows a double to a float.

**`Filter`**: sequences without some of their elements, the loops of
`UnbindDelegateForInput` and of `HandleTimer`. It does what `SelectSeq` does, with a set in the place of
the predicate and a recursive function in the place of a recursive operator, so
that the proofs can follow it from one index to the next.

**`WaldoHostStateMachine`** is a library of actions over `State`, `tick` (where
in `Tick` it is), `late` (this turn's clock is beyond the limit), `event` (the
delegate broadcast) and `reply` (the command sent). `Process` mirrors the two
switches of the code; `ok` says whether the port takes what is sent.

**`WaldoComponent`** instantiates it and adds the port, the bindings and the
lists. `Dispatch` is what a broadcast does through the bound handlers.
`InBlueprint` is the heart of the model: a Blueprint may act between ticks, and
also in the middle of one, when the last step broadcast something the component
passes on. `Detach` is the body of `Disconnect`, which both Blueprints and a
failed tick (`TickFailed`) run. The deliveries of a
frame are one step here; `WaldoFrameEnd` has them one by one.

**`WaldoComponentLog`**: the component with a device that sends anything at any
time, and the log of what was heard on the connection.

**`WaldoFrameEnd`**: the component with `HandleFrameEnd` taken apart. A Blueprint
may act at `OnFrameStart`, in each delegate and at `OnFrameEnd`. The two outer
loops are over lists that nothing a Blueprint can call touches, so they are
unrolled into `passes` when they begin; a pass is the innermost loop. That is a
range-for over the memory of an array which `Bind` and `Unbind` change: `memory`
is what is at the addresses it took, `Added` and `Compacted` what the engine's
array does there, and `moved` says that the array is elsewhere. A loop that reads
behind the array's end finds what was there last, or ends the process (`Die`).

**`WaldoPuppet`**: the component, a cable with a queue of commands each way, and
a device: it announces itself, waits, says a message, registers, and sends frame
after frame, each after the last was acknowledged; any Reset starts it over. The device is
external: it is the simplest program the host's `Process` makes sense for. Noise spares messages. That
the cable carries commands and not bytes rests on the byte stream's runs. Values
carry label and frame number, so that a wrong delivery shows. `Prompt` says
whether answers beat the host's limit; `Losable`, what noise may hit.

**`SerialSubsystem`**: `HandleTimer` enumerates, compares and replaces the list
in one step, then `Broadcast` sends one event per step, so devices may change and a
listener may join in between. An enumeration lists what is present in any order,
with entries the comparison cannot tell apart, or fails and is empty.

**`SerialPort`**: `USerialPort`, its two platforms side by side (`MacOpen`,
`WindowsOpen`, …), and the byte stream's `Send`. A step is a call; `call` records
what the caller was told and what was really moved.

**`RdWire`**: one direction of a wire. The steps are what a thread does while it
holds a lock: `TakeData`, `StartProcessing`, `SendFront` and `EndProcessing` of the
processor's thread; `Connect`, `Resume`, `ReadAck` and `Pause` of the thread that
connects and reads; `Put` of anybody. `Break` loses what is under way, `Restart`
replaces the sending process while the other end keeps `max_received_seqn`. A
package is one message, and numbers stand for both. A send on a broken connection
may succeed or fail. `Prompt`, chosen once, says that the processor's thread is
never still between taking data and processing it when a new connection is made.
When the reader has been given a package twice it has one byte too many
(`garbled`): `read_package` returns `true` for a length. From then on it finds no
message; what it takes for one is not modelled.

**`RepeatingStream`**: what one direction promises, a stream that skips nothing
and at worst starts over from the first message.

**`RiderLink`**: four threads. The wire's runs `Connect`, `Receive`, `Disconnect`
and then the lifetime's actions, the last first (`RunAction`). The scheduler's
takes a task at a time, and a task that meets another thread is several steps
(`step`). The making of a model is eight: the lifetime may end before each
`add_action`, which then throws and ends the task (`AddAction`), also between the
two halves of `bind` (`Bind`, `AddUnbind`) and of `advise_on` (`Subscribe`,
`AddUnsubscribe`). Those who view the model are told last (`BeAlive`), and the
handler in `StartupModule` adds the control's reset before it makes the control
(`MakeControl`), so a shutdown may come in between. The task that pops a message
(lines 66-101 of `MessageBroker.cpp`) is five: it reads the subscription without
the lock, takes the first message with it, hands it over, and then, without the
lock again, tests the queue (`TestEmpty`) and erases it (`EraseQueue`). The
wire's thread may put a message there in between, which is destroyed (`lost`),
and the iterators of other tasks dangle; such a task (kind `dangling`) finds what the queue
held last, nothing, or the queue made in its place (`Shown`). The model has one
entity that listens to the wire, and `GameControl` stands for all who view it.
`Schedule` is any event of the editor the control listens to. A message is a
connection and a number.

`MC…` modules give constants to TLC; `…Proofs` modules hold theorems.

## 4. What the runs check

| Run | Properties | Bounds and why they are enough |
|---|---|---|
| `bytestream` | `TypeOK`, `ParseConsumesExactly`, `NoGuardMissed`, `ChunkingIrrelevant`, `ImplementsChannel` (refinement of `CommandChannel`) | bytes 0..2, guard `<<2, 1>>`, commands empty, short and with the guard itself as payload; two commands, two connections, and one fault, which is a byte corrupted or dropped or the cable pulled inside a `Receive`: a guard can be broken, doubled, begun inside another, and started by a stale buffer. `ImplementsChannel` holds of the first connection while the cable is clean and no command holds the guard's first byte: with it, the tail of an abandoned command could look like a command |
| `host_timer` | `ResetNotEarly`, `ResetNotMissed` | limit 3, floats the even instants, clock to 16: several time-outs in a row, each with and without rounding |
| `component_log` | `TypeOK`, `LogDeterminesState`, `CallbacksBoundIffConnected`, `DeliveriesMatchLog` | six commands over two connections: enough for a reset, two registrations, a frame with a value, or one registration and two values, or lists left to a second connection; two bindings of one label, two interchangeable delegates; a value no input has; nested calls everywhere; messages, which change no state, are left to the puppet's runs |
| `frame_end` | `PassExecutesWhatWasBound`, `OnlyBoundIsExecuted`, `FrameIsOfOneConnection` | two registrations, two values, so up to four passes; three bindings and four calls that bind or unbind, so that the array grows, shrinks, and is refilled under the loop; two connections to devices that use one id for two labels |
| `puppet_any` | `ValuesReachTheirLabel`, `FramesDoNotMix` | two devices that use one id for two labels; two frames, one loss, one unplugging, two connections, free timing, up to seven commands under way, so that resets pile up |
| `puppet_prompt` | `FramesDoNotMix`, `AcknowledgedFrameEnded`, `FramesKeepFlowing`, `UnplugIsNoticed` | one device with two inputs, prompt answers; frames for ever (numbered 1, 2, 3, 1, …), three losses, one unplugging, two connections |
| `subsystem_view` | `ViewFollowsList`, `ViewCatchesUp` | two devices, one duplicate entry, four changes, one failed enumeration |
| `serial_port` | `TypeOK`, `HandlesAccountedFor`, `SendMeansAllWritten`, `WindowsWriteMeansAnyWritten` | both platforms; three handles, so two can be lost and one used; writes of up to three bytes |
| `rd_wire` | `TypeOK`, `HoldsUnacknowledged`, `NothingLost`, `PromptAcknowledgementsIncrease`, `ImplementsStream`, `SentIsRead` | four messages over three connections and one restart: packages of a first connection are repeated on a second, some with their acknowledgement lost, and a break meets that; both values of `Prompt` |
| `rider_link` | `TypeOK`, `ModelOutlivesUse`, `MessageFindsItsModel`, `ActionFindsItsControl`, `ChangedBeforeNewModel`, `HandledInOrder`, `ModelFollowsConnection`, `MessagesAreHandled` | three connections, so that one is over while the task of the next is queued behind the end of the last; two messages on each, one before and one after the model is bound; modules queue up to two tasks ahead; 546,563 states, among them messages destroyed with their queue, leaked subscriptions, and shutdowns between the control's reset and its making |

Runs state `CHECK_DEADLOCK FALSE` because bounded devices, losses and
connections run out, and a component nobody connects has nothing to do.

`NoGuardMissed` and `ChunkingIrrelevant` compare the incremental parser with
definitions over whole strings. `LogDeterminesState` and `DeliveriesMatchLog`
compare the lists with a reading of the log by its positions: what came after
the last Reset, inside or outside a frame. `ValuesReachTheirLabel`,
`FramesDoNotMix` and `AcknowledgedFrameEnded` are end to end: they relate what
the delegates are given to what the device meant.

`PassExecutesWhatWasBound` compares a loop over memory that changes with the list
at its beginning. `ImplementsStream` and `HoldsUnacknowledged` tie queues, numbers
and what is under way together; `HandledInOrder` and `MessagesAreHandled` say that
the two ways a message can take through `MessageBroker` come to one order, also
when some messages are destroyed: what is left is in order, and none is skipped
that was not destroyed.

### Disagreements between code and documentation

Two runs are expected to fail; each quotes a line the code does not keep.

- `bytestream_stale`: the state machine's `Reset` promises "initial conditions",
  yet a new connection starts with the half command of the last.
- `rd_wire_ack`: the message of an error that "MUST" not occur, a package
  acknowledged twice. It takes a processor's thread that is slow between two
  locks; `PromptAcknowledgementsIncrease` shows that it takes nothing else.

Three more, known but without a run:

- `ensure(SerialPort->Read(byte))` (`WaldoCommandByteStream.cpp:102`) fails when
  the cable is pulled inside `Receive`; an uninitialised byte is parsed
  (`ReadGarbage`).
- `FSerialPortMac::Write` (`SerialPortMac.cpp:257`) returns true with -1 or 0 where
  `SerialPort.h:80` says "if any data was written". `SendMeansAllWritten` shows that
  the byte stream's own check of the count saves it.
- A device unplugged and replugged within a poll interval is not announced
  (`SerialSubsystem.cpp:32`), though `SerialSubsystem.h:8` promises events "whenever
  a device is added / removed".

### Limits of the protocol found while modelling

`FramesDoNotMix` makes an exception of executions in which commands were lost and
the host, besides, timed out while an answer was under way (`Lossy`, `hasty`).
Without the exception it is false of the code, though no line of the
repository promises it: if an `EndFrame` is lost and a stale `AcknowledgeFrame`
of an earlier round lets the device go on, its next `StartFrame` is ignored in
state `Frame` and two frames are delivered as one; if a device's `Reset` is lost
and a stale `AcknowledgeReset` lets it register again, every value is delivered
twice. Both take several time-outs of a slow device. A lost `RegisterInput` is
never asked for again. A failed enumeration looks like the removal of every
device. And where the spacing of floats exceeds the limit of 0.5 s,
`ResetNotEarly` promises nothing, as does the code.

A delegate that unbinds during a frame spoils the pass it is executed in: the
array moves down under the loop, which skips an entry or reads behind the end. A
delegate that only binds, connects or disconnects spoils nothing, unless the array
moves and what it left is gone (`Die`).

Of the wire: when an acknowledgement is lost with its connection, the package is
repeated, and the one byte read_package then adds to the stream
(`SocketWire.cpp:325`) makes the reader lose its place for good, so `NothingLost`
and `SentIsRead` speak of readers that have not. A send that fails leaves the rest
of the queue until something more is put. A processor stopped while it is paused
drops what it has.

Of RiderLink: if the connection ends between the two statements of `advise_on`,
the subscription stays and points into a model that the next connection destroys
(`leaked`). `MessageBroker` tests a queue without its lock (`MessageBroker.cpp:91`)
and then erases it: a message of the next connection that came in between is
destroyed, although that connection lasts (`lost`). So `HandledInOrder` promises that no
message is skipped, and `MessagesAreHandled` that each is handled, only while no
message was destroyed; the order holds also then. A shutdown between the
statements of `RiderGameControl.cpp:494-495` runs the control's reset before there
is a control, and the one made next stays when its model is replaced; so
`ModelOutlivesUse` promises a control its model until its module is shut down, and
nothing after. Neither takes more than two threads and one unlucky moment; no line of
the repository promises the contrary, so they are limits and not findings. Actions the editor's events queue hold the address of a control that
nothing keeps; one is queued by the shutdown that destroys it.

## 5. Fairness

`WaldoPuppet!FairSpec` assumes, weakly: the engine ticks a connected component
(`HostTick`), a turn of the loop begins and a turn that found nothing ends
(`HostTurn`, `HostReceiveNothing`), a failed tick is dealt with
(`HostTickFailed`), the device runs (`DeviceStep`). All of these are the next
statement of a running thread, or the engine's frame loop. Strongly: commands
that are under way again and again when the host reads are received
(`HostReceive`; a serial port hands over what has arrived, in finite time), and a
host that could find itself late again and again does (`HostTurn /\ late'`: time
passes while nothing happens, and each tick reads the clock). Nothing is assumed
of Blueprints, of noise, of plugging. `Prompt` is an assumption on timing, not
fairness: the host finds itself late only when nobody has anything to say.

`SubsystemFairSpec` assumes that the engine's looping timer fires and that
a loop over listeners ends.

`RdWire!FairSpec` assumes that threads which can go on do: the processor's, and the
one that reads. Nothing is assumed of `Put`, `Connect`, `Break` or `Stop`;
`SentIsRead` is about executions in which some connection stays (`<>[]up`).

`RiderLink!FairSpec` assumes that the actions of an ended lifetime are run, that
the scheduler does its tasks and that a handler given to `FireAsyncAction` returns.
The two tasks that need the lock for writing are strongly fair: the lock is taken
in the end though readers come again and again, as a fair `FRWLock` lets it.
Nobody need connect, send, view or fire.

## 6. What is proved

Each theorem holds for every value of the constants that meets the module's
named `ASSUME`.

- **Parser** (`WaldoCommandByteStreamProofs`). Invariant: types, and `Buffer`
  starts with the guard as far as it reaches and holds no complete command, and
  `Buffer` is the longest such suffix of `stream`. It is inductive because
  `SkipToGuard` returns a suffix, and because a buffer that held no complete
  command is completed by at most one byte: either the size byte was the last one
  and is 0, or exactly the announced number has now arrived. `TypeCorrect`,
  `ParserConsumesExactly` and `SkippingMissesNoGuard` follow. The last needs that
  a suffix of `stream` that starts like a guard starts in `Buffer`: appending a
  byte never makes a prefix match that did not match before.
- **Timer** (`WaldoHostTimerProofs`). Invariant: `Time` and `LastCommandTime` are
  the floats of the instants `readAt` and `lastSign`. Two rounding errors of at
  most half a spacing each give the bound of one spacing in both theorems.
- **Component** (`WaldoComponentProofs`). Invariant of `CallbacksMatchConnection`
  and `FramesStartEmpty`: handlers are bound iff there is a port, and a connected
  machine in `Ready` has no frame values. The second needs the first: only a bound
  handler clears the list when a Reset or the end of a frame leads to `Ready`.
- **The log** (`WaldoComponentProofs`). `TypeCorrect`, `LogIsState` and
  `DeliveriesAreOfTheLog`. `LogDeterminesState` is inductive together with types
  and `CallbacksBoundIffConnected`: the lemmas say what one more command does to
  `LastReset`, to what is open, and so to the registrations and values the log
  amounts to, and that a list grows with the rank of the position it is heard
  at. For the deliveries, two ways to count are compared: ranks are a bijection
  between positions of the log and places in the lists, so the meetings of the
  lists are as many as those of the log (`MeetingsMatch`).
- **Puppet** (`WaldoPuppetProofs`). `LabelsAreRight`. Invariant: what is under way
  on a live port is of the device at its other end, and a host in `Ready` or `Frame`
  holds inputs and values of that device only. A host in `Reset` may hold anything:
  the Reset that gets it to `Ready` empties both lists. The assumption that the inputs
  of one device with the same id are the same input is needed, since the code
  delivers a value to each registration of its id; a device that keeps it is what
  ids are for.

  `AcknowledgementsAreOfTheFrame`, for a host that is `Prompt`, so never hasty, and
  any losses, unpluggings and reconnections. Invariant (`InTurns`): one side speaks at a
  time. While an answer is under way nothing is under way to the host, and the answer is to
  what the device is waiting for (`Answered`); what is under way to the host is what the
  device said since the last answer (`Said`). A stale answer is thereby impossible.

  `FramesStayApart`, for devices that have one input for an id and for a label
  (`OneInputPerLabel`; the property tells values apart by their label, and so would
  take those of two inputs with one label for the same). Two invariants, one for each
  half of the property's premise. If the host is never hasty (`HeardOnce`, on top of
  `InTurns`): no registration and no value is under way twice, none that is
  held is under way, and the values held are of the frame being sent. If nothing was
  lost (`NothingMissing`), whoever was hasty: any number of resets, frames and answers
  may overtake each other, but the commands arrive as a stream in the order they were said, in
  which the same registration comes again only after a `Reset`, the same value, or one of
  another frame, only after an `EndFrame`, and a frame that began ends
  (`AsSaid`, each conjunct about what is under way and what the host holds of it).
  Both need that a label is bound to a delegate once (`OneBindingPerLabel`), which
  `Init` gives: as many bindings as labels, and every label among them
  (`PuppetAssumption` says that labels are finitely many and that there is a delegate).
- **Frame end** (`WaldoFrameEndProofs`). `FramesAreOfOneConnection`: while the loops
  run, the lists are those of the connection the frame was on, because whoever
  connects meanwhile puts the machine in `Reset`, where neither list grows.
  `ExecutedWasBound` and `PassIsUndisturbed`: the slots a pass has yet to read hold
  what is bound or was, whatever `Bind` and `Unbind` do to the array, and if nothing was
  unbound exactly what they held when it began; and the delegates executed are
  those of the matching entries among the slots read. The lemmas on `Only` here
  (`OnlyStep`, `OnlySkips`, `OnlyPrefix`) get by without induction over data: a least
  counterexample is chosen from the naturals.
- **Port** (`SerialProofs`). Invariant: types, the accounting of handles, and
  that the object's own handle is not among the lost ones, without which `Close`
  and `Destroy` would not keep it. `SendsAreComplete` and `WindowsWritesWrite`
  need no invariant: a call's report depends on that call alone. The second is about
  Windows only; on a Mac it is false.
- **Subsystem** (`SerialProofs`). `ListenersKeepUp`. Invariant: an event still to come
  says of its device what the list says now (`Told`), which is what a listener that
  joins between two events relies on; and without a timer there are no events and no
  listener (`Idle`), since `Initialize` replaces the list without telling anybody. That the
  two loops find the difference of the lists whatever is in them twice
  (`LoopsFindDifference`) is shown of `Only`, again with a least counterexample; an
  enumeration is finite because the set of devices is.
- **Wire** (`RdWireProofs`). Invariant: data, queue and pending queue are
  consecutive numbers that fit the counters (`Numbered`); nothing under way was not
  sent (`UnderWay`); the processor is paused unless the wire is receiving
  (`Paused`), which is why nothing is sent between a connection's beginning and its
  resumption if the thread is prompt; then packages under way are the last that
  were sent, acknowledgements under way are of all those before them that are not
  acknowledged, one by one, and a lost one comes back only when all that is under way is
  lost (`InOrder`), and what is acknowledged was read (`ReadInOrder`). The last two are needed because what the
  reader may drop or repeat depends on what is under way. `AcknowledgementsInOrder` is
  `InOrder` at the next acknowledgement, `WireIsStream` the refinement, step by step: only `ReadPackage`, `Put` and `Restart` are not
  stutters.
- **RiderLink** (`RiderLinkProofs`). Invariant: connections follow one another and
  only the last is not over; the tasks that make a model or announce its end are
  queued in the order of connections and none is behind the model there is
  (`Sorted`, `Known`); a model being made is not alive (`Making`); the end of one
  that is alive will be announced by a lifetime's action or is by a task
  (`Announced`); queued actions of the control are ahead of what ends it
  (`Scheduled`). `Announced` and `Sorted` together give the heart of the matter: when the task that makes the
  next model is the first, the last model has been announced to be gone.
  A second layer (`ModelInv`, `QueueInv`) is about messages. A subscription is the
  last model's and its removal is on the way (`Subscribed`), unless it leaked; a
  model that is made listens while its connection lasts (`Listening`).
  `default_scheduler_messages` holds messages of tasks that pop them, in
  order (`Pops`, an increasing map from messages to tasks), and while none was
  lost those of all such tasks, none of which dangles; what is being handed over was
  the first of them (`Popped`), to one who was found while it listened (`Handing`); tasks that
  invoke are for the model there is, with no making of another before them and only messages of
  later connections to be popped behind them (`Invoked`); messages in the queue
  are in order and behind the task that makes their model (`Ordered`), and those that
  can still be handled are beyond the one handled last (`After`); the model of a
  connection that lasts is there or will be made (`Waiting`), a message of it finds
  a listener (`Served`), and while none was lost each has been handled or is in
  the queue (`Complete`). `After` needs no assumption on `lost`, which is why the order survives
  the destruction of messages, and `Complete` does. `TypeCorrect`, `MessagesFindTheirModel` and
  `MessagesAreHandledInOrder`, which is an action property, follow. While a model is
  made, `Progress` says which actions its lifetime has already: without it, a
  subscription that is about to leak could not be told from one that is not
  (`Leaks`).

All of these invariants were checked by TLC on the runs' bounds before they were
proved.

Only model-checked: every liveness property (`FramesKeepFlowing`, `UnplugIsNoticed`,
`ViewCatchesUp`, `SentIsRead`, `ModelFollowsConnection`, `MessagesAreHandled`), because
liveness under fairness is beyond the prover; the refinement `ImplementsChannel` and
`ChunkingIrrelevant`, which rest on the recursive function `Decode` and say what it
computes of any byte string. That is an induction over data, which the library's
theorems cannot give here; the way round it that `Only` took is planned.

## 7. What is not modelled

- Payload bytes. A `RegisterInput` or `InputValue` is a record. A payload shorter
  than its fields (`WaldoCommandDecoder.cpp:17-19, 38-39` index without a check) ends
  in what the build does with such an index, of which no line promises anything.
- The 256 bytes of `Send`'s write buffer: the host sends only commands without
  payload.
- A write that blocks: on Windows, without time-outs, `WriteFile` returns when
  all is written; the model's step takes no time. Nor does `RdWire` model a send
  that blocks: `resume` sends again before anybody reads, and two ends that both
  have more to repeat than the system buffers might wait for each other.
- A close that fails and yet releases the handle: `SerialPort` takes a failed
  close to leave the handle open, as the code does when it keeps it to be closed
  again. `close(2)` does not promise that on a Mac; there the number the object
  keeps may be another file's by then.
- Of RiderLink's races, what the C++ standard leaves undefined beyond the steps
  modelled: two threads inside one hash table at a time (`subscriptions` at
  `MessageBroker.cpp:68`, `broker` at 93-94), and freed memory: a freed queue shows its last
  contents, nothing, or the queue put in its place (`Shown`), an entity of a
  destroyed model seems to be bound or not (`Destroyed`) and a message handed to it is handled
  by nobody, and the process does not end. A shutdown in the middle of `FRiderGameControl`'s constructor, which then throws from its own
  `bracket` or finds `ActionsCache` gone, is
  modelled as one before it or after it, and the termination of the view's lifetimes is one
  step; nothing is promised of a control once the shutdown has begun.
- The garbage collector: objects the component drops are destroyed at once
  (`SerialPort!Destroy`) or stay closed (`WaldoComponent`).
- `USerialPort::Read` into an array, which nothing calls, and baud rates.
- Of RD: heartbeat and pings (they only set a flag and time stamps), how
  sockets are opened and accepted, messages that span packages, serializers, the
  `ExtWire` of extensions, custom schedulers, `RdProperty`, `RdList`, `RdMap`, `RdSet`,
  `RdCall`, and the viewable collections. The repository uses them through
  generated models whose counterpart is not in it; what they promise is not written
  down here.
- Of the Unreal modules: the play modes `FRiderGameControl` packs into a number
  and takes out again (from five clients on, `PackToMode` spills into the bit of the
  spawn location), the contents of logs, Blueprint references, Live Coding.
- Third-party libraries (about 50,000 of the repository's 64,000 lines of source are
  theirs or generated), module glue, logging, assets, for the reasons in
  `PROJECT.json`. The share of all lines that the models cover is therefore small, and cannot
  be made large.
