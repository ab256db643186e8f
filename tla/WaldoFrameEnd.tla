---------------------------- MODULE WaldoFrameEnd ----------------------------
(***************************************************************************)
(* HandleFrameEnd of UWaldoComponent, one delegate at a time.              *)
(*                                                                         *)
(* WaldoComponent executes the delegates of a frame in one step.  Here a   *)
(* Blueprint runs at the broadcast of OnFrameStart, in every delegate, and *)
(* at the broadcast of OnFrameEnd, and each time it may connect,           *)
(* disconnect, bind and unbind before the loops go on.                     *)
(*                                                                         *)
(* The innermost loop is a range-for over the memory of InputBindings: it  *)
(* takes the addresses of the first and the last element once, and goes on *)
(* reading there when the array has shrunk, or has moved elsewhere.  What  *)
(* is no longer the array's is taken to hold what it held last, or to end  *)
(* the process that reads it.                                              *)
(***************************************************************************)
EXTENDS WaldoComponent

CONSTANTS
    SentOn,         \* what the device sends that is on connection 1, 2, ...
    MaxInputs,      \* bound: registrations, and values of a frame
    MaxBindings,    \* bound: entries in InputBindings
    MaxConnections, \* bound: successful calls of Connect
    MaxCalls        \* bound: calls of bind and unbind

ASSUME FrameEndAssumption ==
    /\ {MaxInputs, MaxBindings, MaxConnections, MaxCalls} \subseteq Nat
    /\ SentOn \in [1..MaxConnections -> SUBSET Command]

VARIABLES
    at,             \* "outside", or where HandleFrameEnd is: "broadcast",
                    \* "between" two passes of the inner loop, in a "pass";
                    \* or the process is "dead"
    passes,         \* the input and value of this pass and those to come
    memory,         \* what the pass reads
    next, last,     \* the slots it has yet to read
    moved,          \* the array is elsewhere
    connections, calls,
    \* history
    frameOf,        \* the connection that sent the EndFrame
    bound,          \* InputBindings when the pass began
    entered,        \* what has been bound since
    unbound,        \* an entry has been removed since
    done            \* the delegates executed in this pass

loopVars == <<passes, memory, next, last, moved>>
passHistory == <<bound, entered, unbound, done>>
vars == <<componentVars, at, loopVars, connections, calls, frameOf, passHistory>>

Init ==
    /\ InitWith(<< >>)
    /\ at = "outside"
    /\ passes = << >> /\ memory = << >> /\ next = 1 /\ last = 0 /\ moved = FALSE
    /\ connections = 0 /\ calls = 0 /\ frameOf = 0
    /\ bound = << >> /\ entered = {} /\ unbound = FALSE /\ done = << >>

-----------------------------------------------------------------------------
\* What a Blueprint does, outside a frame or in a delegate.
NewConnection ==
    /\ at # "dead" /\ connections < MaxConnections
    /\ Connect
    /\ connections' = connections + 1
    /\ UNCHANGED <<at, loopVars, calls, frameOf, passHistory>>

EndConnection ==
    /\ at # "dead"
    /\ Disconnect
    /\ UNCHANGED <<at, loopVars, connections, calls, frameOf, passHistory>>

\* Add writes behind the last entry, or moves the array to make room.
Added(entry) ==
    LET n == Len(InputBindings) + 1
    IN  IF n \in DOMAIN memory THEN [memory EXCEPT ![n] = entry] ELSE Append(memory, entry)

Bind ==
    /\ at # "dead" /\ calls < MaxCalls /\ Len(InputBindings) < MaxBindings
    /\ BindDelegateForInput
    /\ calls' = calls + 1
    /\ LET entry == InputBindings'[Len(InputBindings')] IN
          IF at = "pass"
             THEN /\ entered' = entered \cup {entry}
                  /\ moved' \in {moved, TRUE}
                  /\ memory' = IF moved' THEN memory ELSE Added(entry)
             ELSE UNCHANGED <<entered, moved, memory>>
    /\ UNCHANGED <<at, passes, next, last, connections, frameOf, bound, unbound, done>>

\* RemoveAt, from the last to the first of those to go: each time the tail
\* moves down one, and the slot behind it keeps what it held.
Compacted(kept) ==
    LET survivors == {i \in DOMAIN InputBindings : \E k \in DOMAIN kept : kept[k] = InputBindings[i]}
        end == IF kept = << >> THEN 0 ELSE CHOOSE i \in survivors : \A j \in survivors : j <= i
    IN  [i \in DOMAIN memory |-> CASE i <= Len(kept) -> kept[i]
                                   [] i > end -> memory[i]
                                   [] OTHER -> kept[Len(kept)]]

Unbind ==
    /\ at # "dead" /\ calls < MaxCalls
    /\ UnbindDelegateForInput
    /\ InputBindings' # InputBindings
    /\ calls' = calls + 1
    /\ IF at = "pass"
          THEN /\ unbound' = TRUE
               /\ moved' \in {moved, TRUE}
               /\ memory' = IF moved THEN memory ELSE Compacted(InputBindings')
          ELSE UNCHANGED <<unbound, moved, memory>>
    /\ UNCHANGED <<at, passes, next, last, connections, frameOf, bound, entered, done>>

-----------------------------------------------------------------------------
\* The commands that do not end a frame.
Hear ==
    /\ at = "outside" /\ connected
    /\ \E c \in SentOn[connections], ok \in BOOLEAN : Receive(c, ok)
    /\ event' # "OnFrameEnd"
    /\ Len(RegisteredInputs') <= MaxInputs /\ Len(FrameInputValues') <= MaxInputs
    /\ UNCHANGED <<at, loopVars, connections, calls, frameOf, passHistory>>

\* EndFrame is acknowledged; HandleFrameEnd is called and broadcasts
\* OnFrameStart.
BeginFrameEnd ==
    /\ at = "outside" /\ connected /\ callbacks
    /\ \E c \in SentOn[connections], ok \in BOOLEAN : Host!Receive(c, ok)
    /\ event' = "OnFrameEnd"
    /\ at' = "broadcast"
    /\ frameOf' = connections
    /\ executed' = {}
    /\ UNCHANGED <<begun, connected, callbacks, inputVars, InputBindings, loopVars,
                   connections, calls, passHistory>>

\* For each input the values that are its own, in order.
Pairs ==
    LET n == Len(FrameInputValues)
        all == [k \in 1..(Len(RegisteredInputs) * n) |->
                   [input |-> RegisteredInputs[((k - 1) \div n) + 1],
                    value |-> FrameInputValues[((k - 1) % n) + 1]]]
    IN  SelectSeq(all, LAMBDA p : p.input.id = p.value.id)

\* No Blueprint is running: HandleFrameEnd is at work itself.
Silently ==
    /\ event' = Host!None /\ executed' = {}
    /\ UNCHANGED <<State, tick, late, reply, begun, connected, callbacks, InputBindings,
                   connections, calls, frameOf>>

\* The broadcast is over and the outer loops begin.
EnterLoops ==
    /\ at = "broadcast"
    /\ at' = "between"
    /\ passes' = Pairs
    /\ Silently
    /\ UNCHANGED <<inputVars, memory, next, last, moved, passHistory>>

\* The range-for asks where the array begins and ends.
BeginPass ==
    /\ at = "between" /\ passes # << >>
    /\ at' = "pass"
    /\ memory' = InputBindings
    /\ next' = 1 /\ last' = Len(InputBindings) /\ moved' = FALSE
    /\ bound' = InputBindings /\ entered' = {} /\ unbound' = FALSE /\ done' = << >>
    /\ Silently
    /\ UNCHANGED <<inputVars, passes>>

Pass == Head(passes)

\* The slip of not comparing the labels.
MatchingAny == next..last

\* The slots that this pass has yet to execute, as they are now.
Matching == {i \in next..last : memory[i].label = Pass.input.label}

\* The slip of leaving the loop when the label has been found.
AfterFound(i) == last + 1

After(i) == i + 1

\* A delegate is executed, and a Blueprint runs.
Execute ==
    /\ at = "pass"
    /\ \E i \in Matching :
          /\ \A j \in Matching : i <= j
          /\ next' = After(i)
          /\ done' = Append(done, memory[i].delegate)
          /\ executed' = {[binding |-> memory[i], input |-> Pass.input, value |-> Pass.value]}
    /\ event' = "OnFrameEnd"
    /\ UNCHANGED <<State, tick, late, reply, begun, connected, callbacks, inputVars,
                   InputBindings, at, passes, memory, last, moved, connections, calls, frameOf,
                   bound, entered, unbound>>

EndPass ==
    /\ at = "pass" /\ Matching = {}
    /\ at' = "between"
    /\ passes' = Tail(passes)
    /\ memory' = << >> /\ next' = 1 /\ last' = 0 /\ moved' = FALSE
    /\ bound' = << >> /\ entered' = {} /\ unbound' = FALSE /\ done' = << >>
    /\ Silently
    /\ UNCHANGED inputVars

\* A slot is read that is not the array's any more.
Die ==
    /\ at = "pass" /\ next <= last
    /\ moved \/ last > Len(InputBindings)
    /\ at' = "dead"
    /\ Silently
    /\ UNCHANGED <<inputVars, loopVars, passHistory>>

\* The values are forgotten, and OnFrameEnd is broadcast, connected or not.
EndFrameEnd ==
    /\ at = "between" /\ passes = << >>
    /\ at' = "outside"
    /\ FrameInputValues' = << >>
    /\ event' = "OnFrameEnd" /\ executed' = {}
    /\ UNCHANGED <<State, tick, late, reply, begun, connected, callbacks, RegisteredInputs,
                   InputBindings, loopVars, connections, calls, frameOf, passHistory>>

\* The rest of the component, when HandleFrameEnd is not at work.
Engine ==
    /\ at = "outside"
    /\ \/ BeginPlay \/ TickComponent \/ BeginTurn \/ TickFailed
       \/ \E ok \in BOOLEAN : ReceiveNothing(ok)
    /\ UNCHANGED <<at, loopVars, connections, calls, frameOf, passHistory>>

Next ==
    \/ NewConnection \/ EndConnection \/ Bind \/ Unbind
    \/ Engine \/ Hear
    \/ BeginFrameEnd \/ EnterLoops \/ BeginPass \/ Execute \/ EndPass \/ Die \/ EndFrameEnd

Spec == Init /\ [][Next]_vars

-----------------------------------------------------------------------------
\* The delegates bound to the label of the pass when it began.
Due == LET own == Only(bound, [label : {Pass.input.label}, delegate : Delegate])
       IN  [i \in DOMAIN own |-> own[i].delegate]

(***************************************************************************)
(* Each pass executes the delegates bound when it began, once each and in  *)
(* order, whatever they do themselves: disconnect, connect again, or bind, *)
(* when the array moves away under the loop.  Only a delegate that unbinds *)
(* spoils that, and only for the pass it is executed in.                   *)
(***************************************************************************)
PassExecutesWhatWasBound ==
    at = "pass" /\ ~unbound =>
        /\ Len(done) <= Len(Due) /\ done = SubSeq(Due, 1, Len(done))
        /\ Matching = {} => done = Due

(***************************************************************************)
(* Even when entries are removed under the loop, and what is left is moved *)
(* down or read where it was: nothing is executed that was not bound, when *)
(* the pass began or since, to the label the value belongs to.             *)
(***************************************************************************)
OnlyBoundIsExecuted ==
    at = "pass" => \A x \in executed :
        /\ x.binding \in entered \cup {bound[i] : i \in DOMAIN bound}
        /\ x.binding.label = x.input.label

(***************************************************************************)
(* A frame's values come from one connection, and its inputs, too: also    *)
(* when a delegate disconnects and connects to another device, and the     *)
(* loops go on over what the first has left.                               *)
(***************************************************************************)
FrameIsOfOneConnection ==
    at \in {"broadcast", "between", "pass"} =>
        /\ \A i \in DOMAIN RegisteredInputs :
              \E c \in SentOn[frameOf] : c.type = "RegisterInput" /\ c.label = RegisteredInputs[i].label
        /\ \A i \in DOMAIN FrameInputValues :
              \E c \in SentOn[frameOf] : c.type = "InputValue" /\ c.value = FrameInputValues[i].value

=============================================================================
