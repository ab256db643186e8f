--------------------------- MODULE SerialSubsystem ---------------------------
(***************************************************************************)
(* USerialSubsystem: the list of the serial devices on the machine.  A     *)
(* timer polls the operating system, the difference to the last list is    *)
(* broadcast, one event per device.                                        *)
(*                                                                         *)
(* A listener is a Blueprint that asks for the list once, at any time, and *)
(* from then on keeps a set of its own by the events: `view`.  Devices     *)
(* come and go at any time, also while events are being broadcast.         *)
(*                                                                         *)
(* What SerialPort has, too, is named for the subsystem here, so that one  *)
(* module can extend both.                                                 *)
(***************************************************************************)
EXTENDS Naturals, Sequences, FiniteSets, Filter

CONSTANTS
    Device,         \* what FSerialPortDevice's operator== tells apart
    MaxDuplicates,  \* bound: entries of one enumeration equal to another entry
    MaxChanges,     \* bound: devices plugged in or out
    MaxFailures     \* bound: enumerations the operating system refuses

ASSUME SubsystemAssumption ==
    /\ IsFiniteSet(Device)
    /\ {MaxDuplicates, MaxChanges, MaxFailures} \subseteq Nat

VARIABLES
    attached,           \* the devices that are there
    SerialPortDevices,  \* the list of the last poll that differed
    timer,              \* the timer is set
    pending,            \* events HandleTimer has still to broadcast
    listening, view,    \* a listener, and the devices it believes in
    changes, failures   \* counters for the bounds

subsystemVars == <<SerialPortDevices, timer, pending>>
listenerVars == <<listening, view>>
allVars == <<attached, subsystemVars, listenerVars, changes, failures>>

Elements(list) == {list[i] : i \in DOMAIN list}

\* In whatever order, and with entries that cannot be told apart.
Listings(S) ==
    UNION {{l \in [1..n -> S] : Elements(l) = S} :
              n \in Cardinality(S)..(Cardinality(S) + MaxDuplicates)}

\* The outcomes of EnumerateSerialPortDevices of the platform; a refusal
\* looks like an empty list.
Enumerated(list) ==
    \/ list \in Listings(attached) /\ UNCHANGED failures
    \/ /\ failures < MaxFailures
       /\ failures' = failures + 1
       /\ list = << >>

AnyListing == {<< >>} \cup Listings(attached)

SubsystemInit ==
    /\ attached \in SUBSET Device
    /\ SerialPortDevices = << >>
    /\ timer = FALSE
    /\ pending = << >>
    /\ listening = FALSE /\ view = {}
    /\ changes = 0 /\ failures = 0

-----------------------------------------------------------------------------
Initialize ==
    /\ ~timer
    /\ \E list \in AnyListing : Enumerated(list) /\ SerialPortDevices' = list
    /\ timer' = TRUE
    /\ UNCHANGED <<attached, pending, listenerVars, changes>>

\* What is broadcast for the devices of an array.
Events(kind, array) == [i \in DOMAIN array |-> [event |-> kind, device |-> array[i]]]

\* The slip of keeping the old list when something was only removed.
HandleTimerKeepsRemoved ==
    /\ timer /\ pending = << >>
    /\ \E new \in AnyListing :
          LET old == SerialPortDevices
              added == Only(new, Device \ Elements(old))
              removed == Only(old, Device \ Elements(new))
          IN /\ Enumerated(new)
             /\ SerialPortDevices' = IF added = << >> THEN old ELSE new
             /\ pending' = Events("Added", added) \o Events("Removed", removed)
    /\ UNCHANGED <<attached, timer, listenerVars, changes>>

\* The new list is in place before the first event, and stays the old one
\* where only the order or the number of equal entries differ.
HandleTimer ==
    /\ timer /\ pending = << >>
    /\ \E new \in AnyListing :
          LET old == SerialPortDevices
              added == Only(new, Device \ Elements(old))
              removed == Only(old, Device \ Elements(new))
          IN /\ Enumerated(new)
             /\ SerialPortDevices' = IF added = << >> /\ removed = << >> THEN old ELSE new
             /\ pending' = Events("Added", added) \o Events("Removed", removed)
    /\ UNCHANGED <<attached, timer, listenerVars, changes>>

\* What an event makes of a listener's set.
Apply(set, e) == IF e.event = "Added" THEN set \cup {e.device} ELSE set \ {e.device}

Broadcast ==
    /\ pending # << >>
    /\ view' = IF listening THEN Apply(view, Head(pending)) ELSE view
    /\ pending' = Tail(pending)
    /\ UNCHANGED <<attached, SerialPortDevices, timer, listening, changes, failures>>

Deinitialize ==
    /\ timer /\ pending = << >>
    /\ timer' = FALSE
    /\ listening' = FALSE
    /\ view' = {}
    /\ UNCHANGED <<attached, SerialPortDevices, pending, changes, failures>>

\* EnumerateSerialPortDevices, by a listener that has just bound the events;
\* perhaps from within a broadcast.
Listen ==
    /\ timer /\ ~listening
    /\ listening' = TRUE
    /\ view' = Elements(SerialPortDevices)
    /\ UNCHANGED <<attached, subsystemVars, changes, failures>>

-----------------------------------------------------------------------------
Change ==
    /\ changes < MaxChanges
    /\ changes' = changes + 1
    /\ \E d \in Device : attached' = IF d \in attached THEN attached \ {d} ELSE attached \cup {d}
    /\ UNCHANGED <<subsystemVars, listenerVars, failures>>

SubsystemNext == Initialize \/ HandleTimer \/ Broadcast \/ Deinitialize \/ Listen \/ Change

SubsystemSpec == SubsystemInit /\ [][SubsystemNext]_allVars

\* The engine's timer goes on firing and a loop over listeners ends.
SubsystemFairSpec == SubsystemSpec /\ WF_allVars(HandleTimer) /\ WF_allVars(Broadcast)

-----------------------------------------------------------------------------
SubsystemTypeOK ==
    /\ attached \subseteq Device
    /\ SerialPortDevices \in Seq(Device)
    /\ {timer, listening} \subseteq BOOLEAN
    /\ pending \in Seq([event : {"Added", "Removed"}, device : Device])
    /\ view \subseteq Device

Announced(kind, d) == \E i \in DOMAIN pending : pending[i] = [event |-> kind, device |-> d]

(***************************************************************************)
(* A listener's set and the subsystem's list never come apart: with the    *)
(* events still to come the one becomes the other, also for a listener     *)
(* that joined between two events of one poll and found the list changed   *)
(* already, and whatever entries the list has twice.                       *)
(***************************************************************************)
ViewFollowsList ==
    listening => Elements(SerialPortDevices) =
        {d \in Device : \/ d \in view /\ ~Announced("Removed", d)
                        \/ Announced("Added", d)}

(***************************************************************************)
(* A device that stays gets into the view for good, and one that is gone   *)
(* gets out of it, also if an enumeration failed on the way and everything *)
(* was announced as removed.                                               *)
(***************************************************************************)
ViewCatchesUp ==
    <>[]listening => \A d \in Device : /\ <>[](d \in attached) => <>[](d \in view)
                                       /\ <>[](d \notin attached) => <>[](d \notin view)

=============================================================================
