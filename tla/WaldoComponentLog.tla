------------------------- MODULE WaldoComponentLog -------------------------
(***************************************************************************)
(* UWaldoComponent with a device that may send any command at any time and *)
(* a history of what was heard: the log of the commands received on the    *)
(* present connection, in order.                                           *)
(***************************************************************************)
EXTENDS WaldoComponent

CONSTANTS
    MaxBindings,    \* bound: entries in InputBindings
    MaxHeard,       \* bound: commands heard, on all connections
    MaxConnections  \* bound: successful calls of Connect

ASSUME LogAssumption == {MaxBindings, MaxHeard, MaxConnections} \subseteq Nat

VARIABLES
    log,            \* history: commands received on this connection
    heard, connections  \* counters for the bounds

logVars == <<log, heard, connections>>
vars == <<componentVars, logVars>>

Init ==
    /\ InitWith(<< >>)
    /\ log = << >>
    /\ heard = 0 /\ connections = 0

NewConnection ==
    /\ connections < MaxConnections
    /\ Connect
    /\ connections' = connections + 1
    /\ log' = << >>
    /\ UNCHANGED heard

Bind ==
    /\ Len(InputBindings) < MaxBindings
    /\ BindDelegateForInput
    /\ UNCHANGED logVars

Hear ==
    /\ heard < MaxHeard
    /\ heard' = heard + 1
    /\ \E c \in Command, ok \in BOOLEAN : /\ Receive(c, ok)
                                         /\ log' = Append(log, c)
    /\ UNCHANGED connections

HearNothing == (\E ok \in BOOLEAN : ReceiveNothing(ok)) /\ UNCHANGED logVars

Blueprint ==
    \/ NewConnection
    \/ Disconnect /\ UNCHANGED logVars
    \/ Bind
    \/ UnbindDelegateForInput /\ UNCHANGED logVars

Engine ==
    \/ BeginPlay /\ UNCHANGED logVars
    \/ TickComponent /\ UNCHANGED logVars
    \/ BeginTurn /\ UNCHANGED logVars
    \/ TickFailed /\ UNCHANGED logVars
    \/ HearNothing

Next == Blueprint \/ Engine \/ Hear

Spec == Init /\ [][Next]_vars

-----------------------------------------------------------------------------
TypeOK ==
    /\ ComponentTypeOK
    /\ log \in Seq(Command)
    /\ heard \in Nat /\ connections \in Nat

(***************************************************************************)
(* What a log h says, read from the end of the protocol's rules instead of *)
(* step by step.  Only commands after the last Reset count; a frame is     *)
(* open at position p if a StartFrame came before p with no end between.   *)
(***************************************************************************)
LastReset(h) == LET resets == {0} \cup {p \in DOMAIN h : h[p].type = "Reset"}
                IN  CHOOSE p \in resets : \A q \in resets : q <= p

OpenAt(h, p) == \E f \in (LastReset(h) + 1)..(p - 1) :
                   /\ h[f].type = "StartFrame"
                   /\ \A q \in f..(p - 1) : h[q].type # "EndFrame"

Registrations(h) == {p \in (LastReset(h) + 1)..Len(h) :
                        h[p].type = "RegisterInput" /\ ~OpenAt(h, p)}

\* The values received since the StartFrame that opened the frame at `end`.
Values(h, end) == {p \in (LastReset(h) + 1)..(end - 1) :
                      /\ h[p].type = "InputValue" /\ OpenAt(h, p)
                      /\ \A q \in p..(end - 1) : h[q].type # "EndFrame"}

InputsOf(h) == [p \in Registrations(h) |-> [id |-> h[p].id, label |-> h[p].label]]
ValuesOf(h, end) == [p \in Values(h, end) |-> [id |-> h[p].id, value |-> h[p].value]]

\* list holds what `items` has, each at a position of its own, in that order.
Rank(p, P) == Cardinality({q \in P : q <= p})

ListOf(list, items) ==
    /\ Len(list) = Cardinality(DOMAIN items)
    /\ \A p \in DOMAIN items : list[Rank(p, DOMAIN items)] = items[p]

(***************************************************************************)
(* On a live connection, state and lists are a function of what was heard  *)
(* on it since its last Reset, whatever an earlier connection left behind, *)
(* whatever was ignored, and whatever Blueprints did in the callbacks.     *)
(***************************************************************************)
LogDeterminesState ==
    connected /\ tick # "failed" =>
        /\ State = IF LastReset(log) = 0 THEN "Reset"
                   ELSE IF OpenAt(log, Len(log) + 1) THEN "Frame" ELSE "Ready"
        /\ LastReset(log) > 0 =>
             /\ ListOf(RegisteredInputs, InputsOf(log))
             /\ ListOf(FrameInputValues, ValuesOf(log, Len(log) + 1))

(***************************************************************************)
(* A frame that ends executes a delegate with a value as often as there    *)
(* are a registration of this session, a value of this frame and a binding *)
(* that belong together: nothing of another frame or session, nothing lost.*)
(***************************************************************************)
Executions(d, u) == {x \in executed : x.delegate = d /\ x.value = u}

Expected(d, u) ==
    {t \in [input : Registrations(log), at : Values(log, Len(log)),
            binding : DOMAIN InputBindings] :
        /\ log[t.input].id = log[t.at].id /\ log[t.at].value = u
        /\ InputBindings[t.binding] = [label |-> log[t.input].label, delegate |-> d]}

AllExecuted ==
    \A d \in Delegate, u \in {c.value : c \in OfType("InputValue")} :
        Cardinality(Executions(d, u)) = Cardinality(Expected(d, u))

DeliveriesMatchLog ==
    [][tick = "receive" /\ event' = "OnFrameEnd" => AllExecuted']_vars

=============================================================================
