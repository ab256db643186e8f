----------------------------- MODULE SerialProofs -----------------------------
(***************************************************************************)
(* For every set of handles, every size and both platforms: the object's   *)
(* handle and the operating system's agree, and a Send that succeeded has  *)
(* handed over every byte.  For every set of devices: a listener's set and *)
(* the subsystem's list do not come apart.                                 *)
(***************************************************************************)
EXTENDS SerialPort, SerialSubsystem, SequenceTheorems, FiniteSetTheorems, WellFoundedInduction,
        TLAPS

\* A handle that a dying object could not close is never an object's again.
Inv == TypeOK /\ HandlesAccountedFor /\ Port \notin refused

-----------------------------------------------------------------------------
\* What closing does, for a handle just opened as well as for the object's:
\* it is gone from both sides or kept on both.
LEMMA ClosingKeepsAccounts ==
    ASSUME NEW h \in Handle, NEW ok \in BOOLEAN, h \notin refused,
           open \in {refused, {h} \cup refused}, refused \subseteq Handle,
           None \notin refused,
           UNCHANGED refused, ImplClose(h, ok)
    PROVE  /\ Port' \in Handle \cup {None}
           /\ open' \subseteq Handle
           /\ HandlesAccountedFor'
           /\ (Port \notin refused)'
<1>1. CASE ok /\ Port' = None /\ open' = open \ {h}
  BY <1>1, PortAssumption DEF HandlesAccountedFor, IsOpen
<1>2. CASE ~ok /\ Port' = h /\ open' = open \cup {h}
  BY <1>2, PortAssumption DEF HandlesAccountedFor, IsOpen
<1> QED BY <1>1, <1>2 DEF ImplClose

\* A read takes no more than there is, so the count of bytes stays one.
LEMMA ReadFitsQueue ==
    ASSUME input \in Nat, NEW n \in Nat, NEW r \in ImplRead(n)
    PROVE  r.ok \in BOOLEAN /\ r.used \in Nat /\ r.used <= input
<1> DEFINE k == IF Available < n THEN Available ELSE n
<1>1. k \in Nat /\ k <= input
  BY DEF Available
<1> HIDE DEF k
<1>2. r \in {[ok |-> FALSE, used |-> 0], [ok |-> TRUE, used |-> k]}
  BY DEF ImplRead, MacRead, WindowsRead, Fitting, Done, Failed, k
<1>3. (r.ok = FALSE \/ r.ok = TRUE) /\ r.used \in {0, k}
  BY <1>2
<1>4. r.ok \in BOOLEAN
  BY <1>3, Zenon
<1> QED BY <1>1, <1>3, <1>4

\* What a write reports and moves, whatever the operating system answered.
LEMMA AttemptFacts ==
    ASSUME NEW n \in 1..MaxSize, NEW r \in Attempts(n)
    PROVE  /\ r.ok \in BOOLEAN /\ r.used \in Int /\ r.moved \in Nat
           /\ r.ok /\ r.used = n => r.moved = n
           /\ Platform = "Windows" /\ r.ok => r.moved > 0
<1>0. MaxSize \in Nat /\ n \in Nat /\ n > 0
  BY PortAssumption
<1>1. CASE IsOpen
  <2>1. PICK w \in OSWrite(n) : r = [ok |-> ImplWrite(w, n).ok,
                                     used |-> ImplWrite(w, n).used,
                                     moved |-> Taken(w)]
    BY <1>1 DEF Attempts
  <2>2. w \in Int /\ w >= -1 /\ (Platform # "Mac" => w \in {-1, n})
    BY <1>0, PortAssumption DEF OSWrite
  <2>3. CASE Platform = "Mac"
    BY <2>1, <2>2, <2>3, <1>0 DEF ImplWrite, MacWrite, WindowsWrite, Failed, Done, Taken
  <2>4. CASE Platform # "Mac" /\ w = -1
    BY <2>1, <2>2, <2>4, <1>0 DEF ImplWrite, MacWrite, WindowsWrite, Failed, Done, Taken
  <2>5. CASE Platform # "Mac" /\ w = n
    BY <2>1, <2>2, <2>5, <1>0 DEF ImplWrite, MacWrite, WindowsWrite, Failed, Done, Taken
  <2> QED BY <2>2, <2>3, <2>4, <2>5
<1>2. CASE ~IsOpen
  <2>1. r = [ok |-> FALSE, used |-> 0, moved |-> 0]
    BY <1>2 DEF Attempts
  <2>2. r.ok = FALSE /\ r.used = 0 /\ r.moved = 0
    BY <2>1
  <2>3. r.ok \in BOOLEAN /\ ~r.ok
    BY <2>2, Zenon
  <2>4. r.used \in Int /\ r.moved \in Nat
    BY <2>2
  <2> QED BY <2>3, <2>4
<1> QED BY <1>1, <1>2

-----------------------------------------------------------------------------
LEMMA InitEstablishesInv == Init => Inv
<1>1. Init => call \in Calls
  BY DEF Init, NoCall, Calls, Operations
<1> QED
  BY <1>1, PortAssumption DEF Init, Inv, TypeOK, HandlesAccountedFor, IsOpen

\* Every call has an outcome of the right type.
LEMMA ReturnedType ==
    ASSUME NEW op \in Operations,
           NEW ok \in BOOLEAN, NEW size \in Nat, NEW used \in Int, NEW moved \in Nat
    PROVE  Returned(op, ok, size, used, moved) \in Calls
BY DEF Returned, Calls, Operations

\* The calls without a buffer, and those refused for a closed port.
LEMMA PlainCallType ==
    ASSUME NEW op \in Operations, NEW ok \in BOOLEAN, NEW size \in {0, 1}
    PROVE  Returned(op, ok, size, 0, 0) \in Calls
BY DEF Returned, Calls

LEMMA NextKeepsInv == Inv /\ [Next]_vars => Inv'
<1> SUFFICES ASSUME Inv, [Next]_vars PROVE Inv'
  OBVIOUS
<1> USE DEF Inv
<1>0. None \notin refused /\ 0 \in Nat /\ 0 \in Int
  BY PortAssumption DEF TypeOK
<1>B. Platform' \in {"Mac", "Windows"}
  BY DEF TypeOK, Next, vars
<1> USE <1>B
<1>A. Operations = {"none", "Open", "Close", "ReadByte", "Write", "Send"}
  BY DEF Operations
<1>1. CASE Open
  <2>1. Port = None /\ open = refused
    BY <1>1 DEF Open, IsOpen, HandlesAccountedFor
  <2>2. UNCHANGED <<refused, present>> /\ input' \in Nat
    <3>1. UNCHANGED <<refused, present>> /\ input' \in {0, input}
      BY <1>1 DEF Open, ImplOpen, MacOpen, WindowsOpen
    <3> QED BY <3>1, <1>0 DEF TypeOK
  <2>3. call' \in Calls
    <3>1. \E ok \in BOOLEAN : call' = Returned("Open", ok, 0, 0, 0)
      BY <1>1 DEF Open
    <3> QED BY <3>1, <1>A, PlainCallType
  <2>4. CASE UNCHANGED <<Port, open>>
    BY <2>1, <2>2, <2>3, <2>4 DEF TypeOK, HandlesAccountedFor, IsOpen
  <2>5. ASSUME NEW h \in Handle \ open, Opened(h)
        PROVE  Inv'
    BY <2>1, <2>2, <2>3, <2>5, PortAssumption DEF Opened, TypeOK, HandlesAccountedFor, IsOpen
  <2>6. ASSUME NEW h \in Handle \ open, GivenUp(h)
        PROVE  Inv'
    <3>1. PICK closed \in BOOLEAN : ImplClose(h, closed)
      BY <2>6 DEF GivenUp
    <3> QED BY <2>1, <2>2, <2>3, <3>1, <1>0, ClosingKeepsAccounts DEF TypeOK
  <2>7. ASSUME NEW h \in Handle \ open, NEW ok \in BOOLEAN, ImplOpen(h, ok)
        PROVE  Inv'
    BY <2>5, <2>6, <2>7 DEF ImplOpen, MacOpen, WindowsOpen
  <2> QED BY <1>1, <2>4, <2>7 DEF Open
<1>2. CASE OpenTwice
  <2>1. call' \in Calls
    BY <1>2, <1>A, PlainCallType DEF OpenTwice
  <2> QED BY <1>2, <2>1 DEF OpenTwice, TypeOK, HandlesAccountedFor, IsOpen
<1>3. CASE Close
  <2>1. CASE ~IsOpen
    <3>1. call' \in Calls
      BY <1>3, <2>1, <1>A, PlainCallType DEF Close
    <3> QED BY <1>3, <2>1, <3>1 DEF Close, TypeOK, HandlesAccountedFor, IsOpen
  <2>2. CASE IsOpen
    <3>1. Port \in Handle /\ open = {Port} \cup refused
      BY <2>2 DEF IsOpen, TypeOK, HandlesAccountedFor
    <3>2. PICK ok \in BOOLEAN : /\ ImplClose(Port, ok)
                                /\ call' = Returned("Close", ok, 0, 0, 0)
      BY <1>3, <2>2 DEF Close
    <3>3. UNCHANGED <<refused, present, input>>
      BY <1>3 DEF Close
    <3>4. call' \in Calls
      BY <3>2, <1>A, PlainCallType
    <3>5. /\ Port' \in Handle \cup {None} /\ open' \subseteq Handle
          /\ HandlesAccountedFor' /\ (Port \notin refused)'
      BY <3>1, <3>2, <3>3, <1>0, ClosingKeepsAccounts DEF TypeOK
    <3> QED BY <3>3, <3>4, <3>5 DEF TypeOK
  <2> QED BY <2>1, <2>2
<1>4. CASE Destroy
  <2>1. call' \in Calls
    BY <1>4 DEF Destroy, NoCall, Calls, Operations
  <2>2. Port' = None /\ present' = present /\ input' = input
    BY <1>4 DEF Destroy
  <2>3. /\ open' \subseteq Handle /\ refused' \subseteq Handle
        /\ open' = refused'
    BY <1>4, <1>0 DEF Destroy, TypeOK, HandlesAccountedFor, IsOpen
  <2> QED BY <2>1, <2>2, <2>3, PortAssumption DEF TypeOK, HandlesAccountedFor, IsOpen
<1>5. CASE ReadByte
  <2>1. UNCHANGED <<Port, open, refused, present>>
    BY <1>5 DEF ReadByte
  <2>2. CASE ~IsOpen
    <3>1. call' \in Calls /\ input' = input
      BY <1>5, <2>2, <1>A, PlainCallType DEF ReadByte
    <3> QED BY <2>1, <3>1 DEF TypeOK, HandlesAccountedFor, IsOpen
  <2>3. CASE IsOpen
    <3>1. PICK r \in ImplRead(1) :
             /\ input' = input - r.used
             /\ call' = Returned("ReadByte", r.ok /\ r.used = 1, 1, r.used, r.used)
      BY <1>5, <2>3 DEF ReadByte
    <3>2. r.used \in Nat /\ r.used <= input /\ input \in Nat
      BY ReadFitsQueue DEF TypeOK
    <3>3. input' \in Nat
      BY <3>1, <3>2
    <3>4. call' \in Calls
      <4>1. (r.ok /\ r.used = 1) \in BOOLEAN /\ r.used \in Int /\ 1 \in Nat
        BY <3>2
      <4> QED BY <3>1, <3>2, <4>1, <1>A, ReturnedType
    <3> QED BY <2>1, <3>3, <3>4 DEF TypeOK, HandlesAccountedFor, IsOpen
  <2> QED BY <2>2, <2>3
<1>6. CASE Write
  <2>0. PICK n \in 1..MaxSize : \E r \in Attempts(n) :
           call' = Returned("Write", r.ok, n, r.used, r.moved)
    BY <1>6 DEF Write
  <2>1. PICK r \in Attempts(n) : call' = Returned("Write", r.ok, n, r.used, r.moved)
    BY <2>0
  <2>2. n \in Nat /\ r.ok \in BOOLEAN /\ r.used \in Int /\ r.moved \in Nat
    BY AttemptFacts, PortAssumption DEF TypeOK
  <2>3. call' \in Calls
    BY <2>1, <2>2, <1>A, ReturnedType
  <2> QED BY <1>6, <2>3 DEF Write, TypeOK, HandlesAccountedFor, IsOpen
<1>7. CASE Send
  <2>0. PICK n \in 1..MaxSize : \E r \in Attempts(n) :
           call' = Returned("Send", AllBytesWritten(r, n), n, r.used, r.moved)
    BY <1>7 DEF Send
  <2>1. PICK r \in Attempts(n) : call' = Returned("Send", AllBytesWritten(r, n), n, r.used, r.moved)
    BY <2>0
  <2>2. /\ n \in Nat /\ AllBytesWritten(r, n) \in BOOLEAN
        /\ r.used \in Int /\ r.moved \in Nat
    BY AttemptFacts, PortAssumption DEF TypeOK, AllBytesWritten
  <2>3. call' \in Calls
    BY <2>1, <2>2, <1>A, ReturnedType
  <2> QED BY <1>7, <2>3 DEF Send, TypeOK, HandlesAccountedFor, IsOpen
<1>8. CASE Arrive
  BY <1>8 DEF Arrive, TypeOK, HandlesAccountedFor, IsOpen
<1>9. CASE Unplug
  BY <1>9 DEF Unplug, TypeOK, HandlesAccountedFor, IsOpen
<1>10. CASE Plug
  BY <1>10 DEF Plug, TypeOK, HandlesAccountedFor, IsOpen
<1>11. CASE UNCHANGED vars
  BY <1>11 DEF vars, TypeOK, HandlesAccountedFor, IsOpen
<1> QED
  BY <1>1, <1>2, <1>3, <1>4, <1>5, <1>6, <1>7, <1>8, <1>9, <1>10, <1>11 DEF Next

LEMMA InvIsInvariant == Spec => []Inv
BY InitEstablishesInv, NextKeepsInv, PTL DEF Spec

\* Type correctness of the three layers; in particular a read never takes a
\* byte that is not there.
THEOREM TypeCorrect == Spec => []TypeOK
<1>1. Inv => TypeOK
  BY DEF Inv
<1> QED BY <1>1, InvIsInvariant, PTL

\* For any number of handles: no failing Open, Close or destructor loses one,
\* save where the operating system refuses to close it for a dying object.
THEOREM HandlesAreAccountedFor == Spec => []HandlesAccountedFor
<1>1. Inv => HandlesAccountedFor
  BY DEF Inv
<1> QED BY <1>1, InvIsInvariant, PTL

-----------------------------------------------------------------------------
(***************************************************************************)
(* What a call reports is a matter of that call alone, so these two need   *)
(* no invariant: every step either leaves the report or makes a true one.  *)
(***************************************************************************)
\* The operations that neither write nor send.
LEMMA OtherCalls ==
    ASSUME Open \/ OpenTwice \/ Close \/ Destroy \/ ReadByte
    PROVE  call'.op \notin {"Write", "Send"}
<1>1. CASE Open BY <1>1 DEF Open, Returned
<1>2. CASE OpenTwice BY <1>2 DEF OpenTwice, Returned
<1>3. CASE Close BY <1>3 DEF Close, Returned
<1>4. CASE Destroy BY <1>4 DEF Destroy, NoCall
<1>5. CASE ReadByte BY <1>5 DEF ReadByte, Returned
<1> QED BY <1>1, <1>2, <1>3, <1>4, <1>5

\* On both platforms, for any size: a successful Send moved every byte, also
\* where Write itself reports success for a failed system call.
THEOREM SendsAreComplete == Spec => []SendMeansAllWritten
<1>1. Init => SendMeansAllWritten
  BY DEF Init, NoCall, SendMeansAllWritten
<1>2. SendMeansAllWritten /\ [Next]_vars => SendMeansAllWritten'
  <2> SUFFICES ASSUME SendMeansAllWritten, [Next]_vars PROVE SendMeansAllWritten'
    OBVIOUS
  <2>1. CASE Open \/ OpenTwice \/ Close \/ Destroy \/ ReadByte
    BY <2>1, OtherCalls DEF SendMeansAllWritten
  <2>2. CASE Write
    BY <2>2 DEF Write, Returned, SendMeansAllWritten
  <2>3. CASE Send
    <3>0. PICK n \in 1..MaxSize : \E r \in Attempts(n) :
             call' = Returned("Send", AllBytesWritten(r, n), n, r.used, r.moved)
      BY <2>3 DEF Send
    <3>1. PICK r \in Attempts(n) : call' = Returned("Send", AllBytesWritten(r, n), n, r.used, r.moved)
      BY <3>0
    <3>2. AllBytesWritten(r, n) => r.moved = n
      BY AttemptFacts DEF AllBytesWritten
    <3> QED BY <3>1, <3>2 DEF Returned, SendMeansAllWritten
  <2>4. CASE UNCHANGED call
    BY <2>4 DEF SendMeansAllWritten
  <2> QED BY <2>1, <2>2, <2>3, <2>4 DEF Next, Arrive, Unplug, Plug, vars
<1> QED BY <1>1, <1>2, PTL DEF Spec

\* On Windows, for any size, Write keeps the promise of its comment.
THEOREM WindowsWritesWrite == Spec => []WindowsWriteMeansAnyWritten
<1> USE DEF WindowsWriteMeansAnyWritten, WriteMeansAnyWritten
<1>1. Init => WindowsWriteMeansAnyWritten
  BY DEF Init, NoCall
<1>2. WindowsWriteMeansAnyWritten /\ [Next]_vars => WindowsWriteMeansAnyWritten'
  <2> SUFFICES ASSUME WindowsWriteMeansAnyWritten, [Next]_vars, Platform = "Windows"
               PROVE  WriteMeansAnyWritten'
    BY DEF Next, vars
  <2>1. CASE Open \/ OpenTwice \/ Close \/ Destroy \/ ReadByte
    BY <2>1, OtherCalls
  <2>2. CASE Write
    <3>0. PICK n \in 1..MaxSize : \E r \in Attempts(n) :
             call' = Returned("Write", r.ok, n, r.used, r.moved)
      BY <2>2 DEF Write
    <3>1. PICK r \in Attempts(n) : call' = Returned("Write", r.ok, n, r.used, r.moved)
      BY <3>0
    <3>2. r.ok => r.moved > 0
      BY AttemptFacts
    <3> QED BY <3>1, <3>2 DEF Returned
  <2>3. CASE Send
    BY <2>3 DEF Send, Returned
  <2>4. CASE UNCHANGED call
    BY <2>4
  <2> QED BY <2>1, <2>2, <2>3, <2>4 DEF Next, Arrive, Unplug, Plug, vars
<1> QED BY <1>1, <1>2, PTL DEF Spec

-----------------------------------------------------------------------------
(***************************************************************************)
(* The subsystem.  The events still to come say what is in the list and    *)
(* what is not; without a timer there are none, and nobody listens.        *)
(***************************************************************************)
Told ==
    \A i \in 1..Len(pending) :
        pending[i].event = "Added" <=> pending[i].device \in Elements(SerialPortDevices)

Idle == ~timer => pending = << >> /\ ~listening

SubsystemInv == SubsystemTypeOK /\ Told /\ Idle /\ ViewFollowsList

\* Announced, of any events.
Coming(events, kind, d) ==
    \E i \in DOMAIN events : events[i] = [event |-> kind, device |-> d]

Event == [event : {"Added", "Removed"}, device : Device]

LEMMA FollowsBefore ==
    ViewFollowsList <=> (listening => Elements(SerialPortDevices) =
        {d \in Device : \/ d \in view /\ ~Coming(pending, "Removed", d)
                        \/ Coming(pending, "Added", d)})
BY DEF ViewFollowsList, Announced, Coming

LEMMA FollowsAfter ==
    ViewFollowsList' <=> (listening' => Elements(SerialPortDevices)' =
        {d \in Device : \/ d \in view' /\ ~Coming(pending', "Removed", d)
                        \/ Coming(pending', "Added", d)})
BY DEF ViewFollowsList, Announced, Coming

-----------------------------------------------------------------------------
\* What Only computes, as in WaldoFrameEndProofs, which this module cannot
\* extend: a function that keeps the elements of S exists and is unique, so
\* CHOOSE finds it.
Less == {p \in Nat \X Nat : p[1] < p[2]}

LEMMA LeastNatural ==
    ASSUME NEW T \in SUBSET Nat, T # {}
    PROVE  \E m \in T : \A k \in T : m <= k
<1>1. IsWellFoundedOn(Less, Nat)
  BY NatLessThanWellFounded DEF OpToRel, Less
<1>2. PICK x \in T : \A y \in T : ~ (<<y, x>> \in Less)
  BY <1>1, WFMin
<1>3. ASSUME NEW y \in T PROVE x <= y
  <2>1. <<y, x>> \in Nat \X Nat /\ <<y, x>>[1] = y /\ <<y, x>>[2] = x
    OBVIOUS
  <2>2. ~ (y < x)
    BY <1>2, <2>1 DEF Less
  <2> QED BY <2>2
<1> QED BY <1>3

\* g is what s keeps of its first n elements, and of fewer.
Keeps(g, s, S, n) ==
    g = [i \in 0..n |-> IF i = 0 THEN << >>
                        ELSE IF s[i] \in S THEN Append(g[i - 1], s[i]) ELSE g[i - 1]]

LEMMA KeepsExists ==
    ASSUME NEW T, NEW s \in Seq(T), NEW S, NEW n \in 0..Len(s)
    PROVE  \E g \in [0..n -> Seq(T \cap S)] : Keeps(g, s, S, n)
<1> DEFINE bad == {m \in Nat : m <= Len(s) /\
                      ~ \E g \in [0..m -> Seq(T \cap S)] : Keeps(g, s, S, m)}
<1>1. SUFFICES ASSUME bad # {} PROVE FALSE
  OBVIOUS
<1>2. PICK m \in bad : \A k \in bad : m <= k
  BY <1>1, LeastNatural
<1>3. m \in Nat /\ m <= Len(s)
  BY <1>2
<1>4. CASE m = 0
  <2> DEFINE g == [i \in 0..m |-> << >>]
  <2>1. g \in [0..m -> Seq(T \cap S)]
    OBVIOUS
  <2>2. Keeps(g, s, S, m)
    BY <1>4 DEF Keeps
  <2> QED BY <1>2, <2>1, <2>2
<1>5. CASE m # 0
  <2>1. m - 1 \in Nat /\ m - 1 <= Len(s) /\ m - 1 \notin bad
    <3>1. Len(s) \in Nat /\ m - 1 \in Nat /\ m - 1 <= Len(s) /\ ~(m <= m - 1)
      BY <1>3, <1>5
    <3> HIDE DEF bad
    <3> QED BY <1>2, <3>1
  <2>2. PICK f \in [0..(m - 1) -> Seq(T \cap S)] : Keeps(f, s, S, m - 1)
    BY <2>1
  <2> DEFINE x == IF s[m] \in S THEN Append(f[m - 1], s[m]) ELSE f[m - 1]
             g == [i \in 0..m |-> IF i = m THEN x ELSE f[i]]
  <2>3. m \in 1..Len(s) /\ s[m] \in T /\ f[m - 1] \in Seq(T \cap S)
    BY <1>3, <1>5
  <2>4. x \in Seq(T \cap S)
    BY <2>3
  <2>5. g \in [0..m -> Seq(T \cap S)]
    BY <2>3, <2>4
  <2>6. ASSUME NEW i \in 0..m
        PROVE  g[i] = IF i = 0 THEN << >>
                      ELSE IF s[i] \in S THEN Append(g[i - 1], s[i]) ELSE g[i - 1]
    <3>1. CASE i = m
      BY <1>3, <1>5, <3>1
    <3>2. CASE i # m
      <4>1. i \in 0..(m - 1) /\ (i # 0 => i - 1 \in 0..(m - 1) /\ i - 1 # m /\ i - 1 \in 0..m)
        BY <3>2, <1>3
      <4>2. f[i] = IF i = 0 THEN << >>
                   ELSE IF s[i] \in S THEN Append(f[i - 1], s[i]) ELSE f[i - 1]
        BY <2>2, <4>1 DEF Keeps
      <4>3. g[i] = f[i] /\ (i # 0 => g[i - 1] = f[i - 1])
        BY <4>1, <3>2
      <4> QED BY <4>2, <4>3
    <3> QED BY <3>1, <3>2
  <2>7. Keeps(g, s, S, m)
    BY <2>6 DEF Keeps
  <2> QED BY <1>2, <2>5, <2>7
<1> QED BY <1>4, <1>5

LEMMA KeepsUnique ==
    ASSUME NEW s, NEW S, NEW n \in Nat, NEW f, NEW g, Keeps(f, s, S, n), Keeps(g, s, S, n)
    PROVE  f = g
<1> DEFINE bad == {m \in 0..n : f[m] # g[m]}
<1>1. bad = {}
  <2>1. SUFFICES ASSUME bad # {} PROVE FALSE
    OBVIOUS
  <2>2. PICK m \in bad : \A k \in bad : m <= k
    <3>1. bad \in SUBSET Nat
      OBVIOUS
    <3> QED BY <2>1, <3>1, LeastNatural
  <2>3. m \in 0..n /\ f[m] # g[m]
    BY <2>2
  <2>4. m # 0 => f[m - 1] = g[m - 1]
    <3>1. m # 0 => m - 1 \in 0..n /\ ~(m <= m - 1)
      BY <2>3
    <3> QED BY <2>2, <3>1
  <2>5. /\ f[m] = IF m = 0 THEN << >> ELSE IF s[m] \in S THEN Append(f[m - 1], s[m]) ELSE f[m - 1]
        /\ g[m] = IF m = 0 THEN << >> ELSE IF s[m] \in S THEN Append(g[m - 1], s[m]) ELSE g[m - 1]
    BY <2>3, Zenon DEF Keeps
  <2> QED BY <2>3, <2>4, <2>5
<1>2. DOMAIN f = 0..n /\ DOMAIN g = 0..n
  BY DEF Keeps
<1> QED BY <1>1, <1>2 DEF Keeps

LEMMA OnlyUpToKeeps ==
    ASSUME NEW T, NEW s \in Seq(T), NEW S
    PROVE  /\ Keeps(OnlyUpTo(s, S), s, S, Len(s))
           /\ OnlyUpTo(s, S) \in [0..Len(s) -> Seq(T \cap S)]
<1>1. Len(s) \in 0..Len(s) /\ Len(s) \in Nat
  OBVIOUS
<1>2. PICK g \in [0..Len(s) -> Seq(T \cap S)] : Keeps(g, s, S, Len(s))
  BY <1>1, KeepsExists
<1>3. Keeps(OnlyUpTo(s, S), s, S, Len(s))
  BY <1>2, Zenon DEF OnlyUpTo, Keeps
<1>4. OnlyUpTo(s, S) = g
  BY <1>1, <1>2, <1>3, KeepsUnique
<1> QED BY <1>2, <1>3, <1>4

LEMMA OnlyStep ==
    ASSUME NEW T, NEW s \in Seq(T), NEW S, NEW i \in 0..Len(s)
    PROVE  OnlyUpTo(s, S)[i] = IF i = 0 THEN << >>
                               ELSE IF s[i] \in S THEN Append(OnlyUpTo(s, S)[i - 1], s[i])
                               ELSE OnlyUpTo(s, S)[i - 1]
<1> DEFINE f == OnlyUpTo(s, S)
<1>1. Keeps(f, s, S, Len(s))
  BY OnlyUpToKeeps
<1> HIDE DEF f
<1>2. f[i] = IF i = 0 THEN << >>
             ELSE IF s[i] \in S THEN Append(f[i - 1], s[i]) ELSE f[i - 1]
  BY <1>1, Zenon DEF Keeps
<1> QED BY <1>2 DEF f

-----------------------------------------------------------------------------
\* Whatever the operating system answers is a list of devices.
LEMMA EnumeratedIsList ==
    ASSUME attached \subseteq Device, NEW list \in AnyListing
    PROVE  list \in Seq(Device)
<1>1. IsFiniteSet(attached) /\ Cardinality(attached) \in Nat
  BY SubsystemAssumption, FS_Subset, FS_CardinalityType
<1>2. CASE list \in Listings(attached)
  <2>1. PICK n \in Cardinality(attached)..(Cardinality(attached) + MaxDuplicates) :
           list \in {l \in [1..n -> attached] : Elements(l) = attached}
    BY <1>2 DEF Listings
  <2>2. n \in Nat
    BY <1>1, SubsystemAssumption
  <2>3. list \in [1..n -> attached]
    BY <2>1
  <2>4. list \in [1..n -> Device]
    BY <2>3
  <2> HIDE DEF Listings
  <2> QED BY <2>2, <2>4
<1>3. << >> \in Seq(Device)
  OBVIOUS
<1>4. list = << >> \/ list \in Listings(attached)
  BY DEF AnyListing
<1> QED BY <1>2, <1>3, <1>4

\* The loops find what is in one list and not in the other, and all of it.
LEMMA LoopsFindDifference ==
    ASSUME NEW list \in Seq(Device), NEW S
    PROVE  Only(list, S) \in Seq(Device) /\ Elements(Only(list, S)) = Elements(list) \cap S
<1> DEFINE f == OnlyUpTo(list, S)
           n == Len(list)
           seen(m) == {list[i] : i \in 1..m} \cap S
           bad == {m \in 0..n : Elements(f[m]) # seen(m)}
<1>1. n \in Nat /\ DOMAIN list = 1..n /\ f \in [0..n -> Seq(Device \cap S)]
  <2>1. f \in [0..n -> Seq(Device \cap S)]
    BY OnlyUpToKeeps
  <2> HIDE DEF f
  <2> QED BY <2>1
<1>2. bad = {}
  <2>1. SUFFICES ASSUME bad # {} PROVE FALSE
    OBVIOUS
  <2>2. PICK m \in bad : \A k \in bad : m <= k
    <3>1. bad \in SUBSET Nat
      BY <1>1
    <3> QED BY <2>1, <3>1, LeastNatural
  <2>3. m \in 0..n /\ Elements(f[m]) # seen(m)
    BY <2>2
  <2>4. f[m] = IF m = 0 THEN << >>
               ELSE IF list[m] \in S THEN Append(f[m - 1], list[m]) ELSE f[m - 1]
    BY <2>3, OnlyStep
  <2>5. m # 0
    <3>1. Elements(<< >>) = {} /\ seen(0) = {}
      BY DEF Elements
    <3> QED BY <2>3, <2>4, <3>1
  <2>6. m - 1 \in 0..n /\ m \in 1..n /\ 1..m = 1..(m - 1) \cup {m}
    BY <1>1, <2>3, <2>5
  <2>7. Elements(f[m - 1]) = seen(m - 1)
    <3>1. ~(m <= m - 1)
      BY <2>6
    <3> QED BY <2>2, <2>6, <3>1
  <2>8. seen(m) = IF list[m] \in S THEN seen(m - 1) \cup {list[m]} ELSE seen(m - 1)
    BY <2>6
  <2>9. ASSUME NEW q \in Seq(Device), NEW x \in Device
        PROVE  Elements(Append(q, x)) = Elements(q) \cup {x}
    <3>1. /\ Len(q) \in Nat /\ DOMAIN q = 1..Len(q)
          /\ DOMAIN Append(q, x) = 1..(Len(q) + 1)
          /\ Append(q, x)[Len(q) + 1] = x
          /\ \A i \in 1..Len(q) : Append(q, x)[i] = q[i]
      OBVIOUS
    <3> HIDE DEF f
    <3> QED BY <3>1 DEF Elements
  <2>10. f[m - 1] \in Seq(Device) /\ list[m] \in Device
    <3>1. f[m - 1] \in Seq(Device \cap S)
      BY <1>1, <2>6
    <3>2. list[m] \in Device
      BY <1>1, <2>6
    <3> QED BY <3>1, <3>2
  <2> HIDE DEF f, seen
  <2>11. Elements(f[m]) = IF list[m] \in S THEN Elements(f[m - 1]) \cup {list[m]}
                         ELSE Elements(f[m - 1])
    BY <2>4, <2>5, <2>9, <2>10
  <2> QED BY <2>3, <2>7, <2>8, <2>11
<1>3. Elements(f[n]) = seen(n) /\ f[n] \in Seq(Device)
  <2>1. n \in 0..n /\ n \notin bad
    BY <1>1, <1>2
  <2>2. f[n] \in Seq(Device \cap S)
    BY <1>1, <2>1
  <2> HIDE DEF f, seen
  <2> QED BY <2>1, <2>2
<1>4. seen(n) = Elements(list) \cap S
  BY <1>1 DEF Elements
<1> QED BY <1>3, <1>4 DEF Only

\* An event for every device found, added ones first.
LEMMA EventsOfDifference ==
    ASSUME NEW added \in Seq(Device), NEW removed \in Seq(Device),
           pending' = Events("Added", added) \o Events("Removed", removed)
    PROVE  /\ pending' \in Seq(Event)
           /\ \A d \in Device : /\ Coming(pending', "Added", d) <=> d \in Elements(added)
                                /\ Coming(pending', "Removed", d) <=> d \in Elements(removed)
           /\ \A i \in 1..Len(pending') :
                 \/ pending'[i].event = "Added" /\ pending'[i].device \in Elements(added)
                 \/ pending'[i].event = "Removed" /\ pending'[i].device \in Elements(removed)
<1> DEFINE a == Events("Added", added)
           r == Events("Removed", removed)
           n == Len(added)
           m == Len(removed)
<1>1. /\ a \in Seq(Event) /\ r \in Seq(Event) /\ Len(a) = n /\ Len(r) = m
      /\ n \in Nat /\ m \in Nat /\ DOMAIN added = 1..n /\ DOMAIN removed = 1..m
      /\ \A i \in 1..n : a[i] = [event |-> "Added", device |-> added[i]]
      /\ \A i \in 1..m : r[i] = [event |-> "Removed", device |-> removed[i]]
  <2>1. n \in Nat /\ m \in Nat /\ DOMAIN added = 1..n /\ DOMAIN removed = 1..m
    OBVIOUS
  <2>2. /\ \A i \in 1..n : [event |-> "Added", device |-> added[i]] \in Event
        /\ \A i \in 1..m : [event |-> "Removed", device |-> removed[i]] \in Event
    BY <2>1 DEF Event
  <2>3. /\ a = [i \in 1..n |-> [event |-> "Added", device |-> added[i]]]
        /\ r = [i \in 1..m |-> [event |-> "Removed", device |-> removed[i]]]
    BY <2>1 DEF Events
  <2> HIDE DEF a, r, n, m
  <2>4. a \in Seq(Event) /\ Len(a) = n
    BY <2>1, <2>2, <2>3
  <2>5. r \in Seq(Event) /\ Len(r) = m
    BY <2>1, <2>2, <2>3
  <2> QED BY <2>1, <2>3, <2>4, <2>5
<1>2. pending' = a \o r
  OBVIOUS
<1> HIDE DEF a, r, n, m
<1>3. /\ pending' \in Seq(Event) /\ Len(pending') = n + m /\ DOMAIN pending' = 1..(n + m)
      /\ \A i \in 1..(n + m) : pending'[i] = IF i <= n THEN a[i] ELSE r[i - n]
  <2>1. a \o r \in Seq(Event) /\ Len(a \o r) = n + m
    BY <1>1
  <2>2. DOMAIN (a \o r) = 1..(n + m)
    BY <1>1, <2>1
  <2>3. ASSUME NEW i \in 1..(n + m)
        PROVE  (a \o r)[i] = IF i <= n THEN a[i] ELSE r[i - n]
    <3>1. i \in 1..(Len(a) + Len(r))
      BY <1>1
    <3>3. a \in Seq(Event) /\ r \in Seq(Event)
      BY <1>1
    <3>2. (a \o r)[i] = IF i <= Len(a) THEN a[i] ELSE r[i - Len(a)]
      BY <3>1, <3>3, ConcatProperties
    <3> QED BY <1>1, <3>2
  <2> QED BY <1>2, <2>1, <2>2, <2>3
<1>4. \A i \in 1..n : i \in 1..(n + m) /\ pending'[i] = [event |-> "Added", device |-> added[i]]
  BY <1>1, <1>3
<1>5. \A i \in 1..m : n + i \in 1..(n + m)
                     /\ pending'[n + i] = [event |-> "Removed", device |-> removed[i]]
  BY <1>1, <1>3
<1>6. \A i \in 1..(n + m) : \/ i \in 1..n /\ pending'[i] = [event |-> "Added", device |-> added[i]]
                            \/ /\ i - n \in 1..m
                               /\ pending'[i] = [event |-> "Removed", device |-> removed[i - n]]
  <2>1. TAKE i \in 1..(n + m)
  <2>2. CASE i <= n
    BY <1>1, <1>3, <2>2
  <2>3. CASE ~(i <= n)
    <3>1. i - n \in 1..m /\ pending'[i] = r[i - n]
      BY <1>1, <1>3, <2>3
    <3> QED BY <1>1, <3>1
  <2> QED BY <2>2, <2>3
<1>7. ASSUME NEW d \in Device
      PROVE  /\ Coming(pending', "Added", d) <=> d \in Elements(added)
             /\ Coming(pending', "Removed", d) <=> d \in Elements(removed)
  <2>1. \A kind : Coming(pending', kind, d) <=>
                   \E i \in 1..(n + m) : pending'[i] = [event |-> kind, device |-> d]
    BY <1>3 DEF Coming
  <2>2. /\ d \in Elements(added) <=> \E i \in 1..n : added[i] = d
        /\ d \in Elements(removed) <=> \E i \in 1..m : removed[i] = d
    BY <1>1 DEF Elements
  <2>3. /\ \A x : [event |-> "Added", device |-> x] # [event |-> "Removed", device |-> d]
        /\ \A x : [event |-> "Removed", device |-> x] # [event |-> "Added", device |-> d]
        /\ \A x, kind : [event |-> kind, device |-> x] = [event |-> kind, device |-> d] => x = d
    <3>1. ASSUME NEW x, NEW k, NEW l, [event |-> k, device |-> x] = [event |-> l, device |-> d]
          PROVE  k = l /\ x = d
      <4> DEFINE p == [event |-> k, device |-> x]
                 q == [event |-> l, device |-> d]
      <4>1. p.event = k /\ q.event = l /\ p.device = x /\ q.device = d
        OBVIOUS
      <4> QED BY <3>1, <4>1
    <3> QED BY <3>1
  <2>4. Coming(pending', "Added", d) => d \in Elements(added)
    <3>1. SUFFICES ASSUME NEW i \in 1..(n + m), pending'[i] = [event |-> "Added", device |-> d]
                   PROVE  \E j \in 1..n : added[j] = d
      BY <2>1, <2>2
    <3>2. i \in 1..n /\ pending'[i] = [event |-> "Added", device |-> added[i]]
      BY <1>6, <2>3, <3>1
    <3> QED BY <2>3, <3>1, <3>2
  <2>5. d \in Elements(added) => Coming(pending', "Added", d)
    BY <1>4, <2>1, <2>2
  <2>6. Coming(pending', "Removed", d) => d \in Elements(removed)
    <3>1. SUFFICES ASSUME NEW i \in 1..(n + m), pending'[i] = [event |-> "Removed", device |-> d]
                   PROVE  \E j \in 1..m : removed[j] = d
      BY <2>1, <2>2
    <3>2. i - n \in 1..m /\ pending'[i] = [event |-> "Removed", device |-> removed[i - n]]
      BY <1>6, <2>3, <3>1
    <3> QED BY <2>3, <3>1, <3>2
  <2>7. d \in Elements(removed) => Coming(pending', "Removed", d)
    BY <1>5, <2>1, <2>2
  <2> QED BY <2>4, <2>5, <2>6, <2>7
<1>8. \A i \in 1..Len(pending') :
         \/ pending'[i].event = "Added" /\ pending'[i].device \in Elements(added)
         \/ pending'[i].event = "Removed" /\ pending'[i].device \in Elements(removed)
  <2>1. \A i \in 1..n : added[i] \in Elements(added)
    BY <1>1 DEF Elements
  <2>2. \A i \in 1..m : removed[i] \in Elements(removed)
    BY <1>1 DEF Elements
  <2>3. TAKE i \in 1..Len(pending')
  <2>4. i \in 1..(n + m)
    BY <1>3, <2>3
  <2>5. CASE i \in 1..n /\ pending'[i] = [event |-> "Added", device |-> added[i]]
    <3>1. pending'[i].event = "Added" /\ pending'[i].device = added[i]
      BY <2>5
    <3> QED BY <2>1, <2>5, <3>1
  <2>6. CASE i - n \in 1..m /\ pending'[i] = [event |-> "Removed", device |-> removed[i - n]]
    <3>1. pending'[i].event = "Removed" /\ pending'[i].device = removed[i - n]
      BY <2>6
    <3> QED BY <2>2, <2>6, <3>1
  <2> QED BY <1>6, <2>4, <2>5, <2>6
<1> QED BY <1>3, <1>7, <1>8

\* A poll: the view was the old list, and the events are the difference.
LEMMA PollKeepsInv == SubsystemInv /\ HandleTimer => SubsystemInv'
<1> SUFFICES ASSUME SubsystemInv, HandleTimer PROVE SubsystemInv'
  OBVIOUS
<1> DEFINE old == SerialPortDevices
<1>1. PICK new \in AnyListing :
         LET added == Only(new, Device \ Elements(old))
             removed == Only(old, Device \ Elements(new))
         IN  /\ SerialPortDevices' = IF added = << >> /\ removed = << >> THEN old ELSE new
             /\ pending' = Events("Added", added) \o Events("Removed", removed)
  BY DEF HandleTimer
<1> DEFINE added == Only(new, Device \ Elements(old))
           removed == Only(old, Device \ Elements(new))
<1>2. /\ SerialPortDevices' = IF added = << >> /\ removed = << >> THEN old ELSE new
      /\ pending' = Events("Added", added) \o Events("Removed", removed)
  BY <1>1
<1>3. /\ timer /\ pending = << >> /\ UNCHANGED <<attached, timer, listening, view>>
  BY DEF HandleTimer, listenerVars
<1>4. attached \subseteq Device /\ old \in Seq(Device) /\ new \in Seq(Device)
  BY EnumeratedIsList DEF SubsystemInv, SubsystemTypeOK
<1>5. /\ added \in Seq(Device) /\ Elements(added) = Elements(new) \cap (Device \ Elements(old))
      /\ removed \in Seq(Device) /\ Elements(removed) = Elements(old) \cap (Device \ Elements(new))
  BY <1>4, LoopsFindDifference
<1> HIDE DEF added, removed
<1>6. \A list \in Seq(Device) : Elements(list) \subseteq Device /\ (list = << >> => Elements(list) = {})
  BY DEF Elements
<1>7. Elements(SerialPortDevices') = Elements(new) /\ SerialPortDevices' \in Seq(Device)
  <2>1. CASE added = << >> /\ removed = << >>
    <3>1. Elements(added) = {} /\ Elements(removed) = {}
      BY <1>5, <1>6, <2>1
    <3>2. Elements(new) = Elements(old)
      BY <1>4, <1>5, <1>6, <3>1
    <3> QED BY <1>2, <1>4, <2>1, <3>2
  <2>2. CASE ~(added = << >> /\ removed = << >>)
    BY <1>2, <1>4, <2>2
  <2> QED BY <2>1, <2>2
<1>8. /\ pending' \in Seq(Event)
      /\ \A d \in Device : /\ Coming(pending', "Added", d) <=> d \in Elements(added)
                           /\ Coming(pending', "Removed", d) <=> d \in Elements(removed)
      /\ \A i \in 1..Len(pending') :
            \/ pending'[i].event = "Added" /\ pending'[i].device \in Elements(added)
            \/ pending'[i].event = "Removed" /\ pending'[i].device \in Elements(removed)
  BY <1>2, <1>5, EventsOfDifference
<1>9. listening => view = Elements(old)
  <2>1. \A kind, d : ~Coming(pending, kind, d)
    BY <1>3 DEF Coming
  <2>2. view \subseteq Device
    BY DEF SubsystemInv, SubsystemTypeOK
  <2> QED BY <2>1, <2>2, FollowsBefore DEF SubsystemInv
<1> HIDE DEF old
<1>10. SubsystemTypeOK'
  BY <1>3, <1>7, <1>8 DEF SubsystemInv, SubsystemTypeOK, Event
<1>11. Told' /\ Idle'
  BY <1>3, <1>5, <1>7, <1>8 DEF Told, Idle, Elements
<1>12. ViewFollowsList'
  <2> SUFFICES ASSUME listening
               PROVE  Elements(SerialPortDevices)' =
                         {d \in Device : \/ d \in view /\ ~Coming(pending', "Removed", d)
                                         \/ Coming(pending', "Added", d)}
    BY <1>3, FollowsAfter
  <2>1. Elements(SerialPortDevices)' = Elements(new) /\ Elements(new) \subseteq Device
    BY <1>4, <1>6, <1>7 DEF Elements
  <2>2. view = Elements(old)
    BY <1>9
  <2>3. ASSUME NEW d \in Device
        PROVE  d \in Elements(new) <=> \/ d \in view /\ ~Coming(pending', "Removed", d)
                                       \/ Coming(pending', "Added", d)
    <3>3. /\ d \in Elements(added) <=> d \in Elements(new) /\ d \notin Elements(old)
          /\ d \in Elements(removed) <=> d \in Elements(old) /\ d \notin Elements(new)
      BY <1>5
    <3>4. /\ Coming(pending', "Added", d) <=> d \in Elements(added)
          /\ Coming(pending', "Removed", d) <=> d \in Elements(removed)
      BY <1>8
    <3>1. Coming(pending', "Added", d) <=> d \in Elements(new) /\ d \notin Elements(old)
      BY <3>3, <3>4
    <3>2. Coming(pending', "Removed", d) <=> d \in Elements(old) /\ d \notin Elements(new)
      BY <3>3, <3>4
    <3> QED BY <2>2, <3>1, <3>2
  <2> QED BY <2>1, <2>3
<1> QED BY <1>10, <1>11, <1>12 DEF SubsystemInv

\* An event: its device moves into the view, or out of it.
LEMMA BroadcastKeepsInv == SubsystemInv /\ Broadcast => SubsystemInv'
<1> SUFFICES ASSUME SubsystemInv, Broadcast PROVE SubsystemInv'
  OBVIOUS
<1> DEFINE e == Head(pending)
<1>1. /\ pending # << >> /\ pending' = Tail(pending)
      /\ view' = IF listening THEN Apply(view, e) ELSE view
      /\ UNCHANGED <<attached, SerialPortDevices, timer, listening>>
  BY DEF Broadcast
<1>2. pending \in Seq(Event) /\ view \subseteq Device
  BY DEF SubsystemInv, SubsystemTypeOK, Event
<1>3. /\ 1 \in 1..Len(pending) /\ e = pending[1] /\ e \in Event
      /\ pending' \in Seq(Event) /\ Len(pending') = Len(pending) - 1 /\ Len(pending) \in Nat
      /\ DOMAIN pending = 1..Len(pending) /\ DOMAIN pending' = 1..Len(pending')
      /\ \A k \in 1..Len(pending') : k + 1 \in 1..Len(pending) /\ pending'[k] = pending[k + 1]
  BY <1>1, <1>2
<1>4. e.event \in {"Added", "Removed"} /\ e.device \in Device
  BY <1>3 DEF Event
<1> HIDE DEF e
<1>5. view' \subseteq Device
  BY <1>1, <1>2, <1>4 DEF Apply
<1>6. Told' /\ Idle'
  <2>1. Told'
    BY <1>1, <1>3 DEF SubsystemInv, Told, Elements
  <2> QED BY <1>1, <2>1 DEF SubsystemInv, Idle
<1>7. \A kind \in {"Added", "Removed"}, d \in Device :
         /\ Coming(pending', kind, d) => Coming(pending, kind, d)
         /\ Coming(pending, kind, d) => Coming(pending', kind, d) \/ (e.event = kind /\ e.device = d)
  <2> SUFFICES ASSUME NEW kind \in {"Added", "Removed"}, NEW d \in Device
               PROVE  /\ Coming(pending', kind, d) => Coming(pending, kind, d)
                      /\ Coming(pending, kind, d) => Coming(pending', kind, d) \/ (e.event = kind /\ e.device = d)
    OBVIOUS
  <2>1. Coming(pending', kind, d) => Coming(pending, kind, d)
    BY <1>3 DEF Coming
  <2>2. ASSUME NEW i \in 1..Len(pending), pending[i] = [event |-> kind, device |-> d]
        PROVE  Coming(pending', kind, d) \/ (e.event = kind /\ e.device = d)
    <3>1. CASE i = 1
      BY <1>3, <2>2, <3>1
    <3>2. CASE i # 1
      <4>1. i - 1 \in 1..Len(pending') /\ (i - 1) + 1 = i
        BY <1>3, <3>2
      <4>2. pending'[i - 1] = pending[i]
        BY <1>3, <4>1
      <4> QED BY <1>3, <2>2, <4>1, <4>2 DEF Coming
    <3> QED BY <3>1, <3>2
  <2> QED BY <1>3, <2>1, <2>2 DEF Coming
<1>8. \A d \in Device : /\ Coming(pending, "Added", d) => d \in Elements(SerialPortDevices)
                        /\ Coming(pending, "Removed", d) => d \notin Elements(SerialPortDevices)
  BY <1>3 DEF SubsystemInv, Told, Coming
<1>9. Coming(pending, e.event, e.device)
  <2>1. e = [event |-> e.event, device |-> e.device]
    BY <1>3 DEF Event
  <2> QED BY <1>3, <2>1 DEF Coming
<1>10. ViewFollowsList'
  <2> SUFFICES ASSUME listening
               PROVE  Elements(SerialPortDevices) =
                         {d \in Device : \/ d \in view' /\ ~Coming(pending', "Removed", d)
                                         \/ Coming(pending', "Added", d)}
    BY <1>1, FollowsAfter DEF Elements
  <2>1. Elements(SerialPortDevices) =
          {d \in Device : (d \in view /\ ~Coming(pending, "Removed", d)) \/ Coming(pending, "Added", d)}
    BY FollowsBefore DEF SubsystemInv
  <2>2. ASSUME NEW d \in Device
        PROVE  d \in Elements(SerialPortDevices) <=>
                   (d \in view' /\ ~Coming(pending', "Removed", d)) \/ Coming(pending', "Added", d)
    <3>1. d \in Elements(SerialPortDevices) <=>
              (d \in view /\ ~Coming(pending, "Removed", d)) \/ Coming(pending, "Added", d)
      BY <2>1
    <3>2. CASE d # e.device
      <4>1. d \in view' <=> d \in view
        BY <1>1, <3>2 DEF Apply
      <4> QED BY <1>7, <3>1, <3>2, <4>1
    <3>3. CASE d = e.device /\ e.event = "Added"
      <4>0. Coming(pending, "Added", d)
        BY <1>9, <3>3
      <4>3. view' = view \cup {e.device}
        BY <1>1, <3>3 DEF Apply
      <4>1. d \in Elements(SerialPortDevices)
        BY <1>8, <4>0
      <4>2. ~Coming(pending, "Removed", d)
        BY <1>8, <4>1
      <4>4. ~Coming(pending', "Removed", d)
        BY <1>7, <4>2
      <4>5. d \in view'
        BY <3>3, <4>3
      <4> QED BY <4>1, <4>4, <4>5
    <3>4. CASE d = e.device /\ e.event = "Removed"
      <4>0. Coming(pending, "Removed", d)
        BY <1>9, <3>4
      <4>3. view' = view \ {e.device}
        BY <1>1, <3>4 DEF Apply
      <4>1. d \notin Elements(SerialPortDevices)
        BY <1>8, <4>0
      <4>2. ~Coming(pending, "Added", d)
        BY <1>8, <4>1
      <4>4. ~Coming(pending', "Added", d)
        BY <1>7, <4>2
      <4>5. d \notin view'
        BY <3>4, <4>3
      <4> QED BY <4>1, <4>4, <4>5
    <3> QED BY <1>4, <3>2, <3>3, <3>4
  <2>3. Elements(SerialPortDevices) \subseteq Device
    BY <2>1
  <2> QED BY <2>2, <2>3
<1> QED BY <1>1, <1>3, <1>5, <1>6, <1>10 DEF SubsystemInv, SubsystemTypeOK, Event

\* Who joins between two events finds the list as it will be announced.
LEMMA ListenKeepsInv == SubsystemInv /\ Listen => SubsystemInv'
<1> SUFFICES ASSUME SubsystemInv, Listen PROVE SubsystemInv'
  OBVIOUS
<1>1. /\ timer /\ listening' = TRUE /\ view' = Elements(SerialPortDevices)
      /\ UNCHANGED <<attached, SerialPortDevices, timer, pending>>
  BY DEF Listen, subsystemVars
<1>2. /\ SerialPortDevices \in Seq(Device) /\ pending \in Seq(Event)
  BY DEF SubsystemInv, SubsystemTypeOK, Event
<1>3. Elements(SerialPortDevices) \subseteq Device /\ DOMAIN pending = 1..Len(pending)
  BY <1>2 DEF Elements
<1>4. \A d \in Device : /\ Coming(pending, "Added", d) => d \in Elements(SerialPortDevices)
                        /\ Coming(pending, "Removed", d) => d \notin Elements(SerialPortDevices)
  BY <1>3 DEF SubsystemInv, Told, Coming
<1>5. ViewFollowsList'
  <2>1. Elements(SerialPortDevices)' = Elements(SerialPortDevices)
    BY <1>1 DEF Elements
  <2>2. \A d \in Device : /\ Coming(pending', "Added", d) <=> Coming(pending, "Added", d)
                          /\ Coming(pending', "Removed", d) <=> Coming(pending, "Removed", d)
    BY <1>1 DEF Coming
  <2>3. view' = Elements(SerialPortDevices)
    BY <1>1
  <2>4. Elements(SerialPortDevices) =
           {d \in Device : (d \in view' /\ ~Coming(pending', "Removed", d)) \/ Coming(pending', "Added", d)}
    <3>1. ASSUME NEW d \in Device
          PROVE  d \in Elements(SerialPortDevices) <=>
                     (d \in view' /\ ~Coming(pending', "Removed", d)) \/ Coming(pending', "Added", d)
      <4>1. /\ Coming(pending', "Added", d) => d \in Elements(SerialPortDevices)
            /\ Coming(pending', "Removed", d) => d \notin Elements(SerialPortDevices)
        BY <1>4, <2>2
      <4>2. d \in view' <=> d \in Elements(SerialPortDevices)
        BY <2>3
      <4> QED BY <4>1, <4>2
    <3> QED BY <1>3, <3>1
  <2> QED BY <2>1, <2>4, FollowsAfter
<1>6. SubsystemTypeOK'
  BY <1>1, <1>3 DEF SubsystemInv, SubsystemTypeOK
<1>7. Told' /\ Idle'
  BY <1>1 DEF SubsystemInv, Told, Idle, Elements
<1> QED BY <1>5, <1>6, <1>7 DEF SubsystemInv

LEMMA SubsystemNextKeepsInv == SubsystemInv /\ [SubsystemNext]_allVars => SubsystemInv'
<1> SUFFICES ASSUME SubsystemInv, [SubsystemNext]_allVars PROVE SubsystemInv'
  OBVIOUS
<1>1. CASE Initialize
  <2>1. PICK list \in AnyListing : SerialPortDevices' = list
    BY <1>1 DEF Initialize
  <2>2. pending = << >> /\ ~listening /\ timer' = TRUE /\ UNCHANGED <<attached, pending, listening, view>>
    BY <1>1 DEF Initialize, SubsystemInv, Idle, listenerVars
  <2>3. list \in Seq(Device)
    BY EnumeratedIsList DEF SubsystemInv, SubsystemTypeOK
  <2> QED BY <2>1, <2>2, <2>3 DEF SubsystemInv, SubsystemTypeOK, Told, Idle, ViewFollowsList
<1>2. CASE Deinitialize
  BY <1>2 DEF Deinitialize, SubsystemInv, SubsystemTypeOK, Told, Idle, ViewFollowsList
<1>3. CASE Change
  <2>1. attached' \subseteq Device
    BY <1>3 DEF Change, SubsystemInv, SubsystemTypeOK
  <2>2. UNCHANGED <<SerialPortDevices, timer, pending, listening, view>>
    BY <1>3 DEF Change, subsystemVars, listenerVars
  <2> QED BY <2>1, <2>2 DEF SubsystemInv, SubsystemTypeOK, Told, Idle, ViewFollowsList, Elements, Announced
<1>4. CASE UNCHANGED allVars
  BY <1>4 DEF allVars, subsystemVars, listenerVars, SubsystemInv, SubsystemTypeOK, Told, Idle,
              ViewFollowsList, Elements, Announced
<1> QED
  BY <1>1, <1>2, <1>3, <1>4, PollKeepsInv, BroadcastKeepsInv, ListenKeepsInv DEF SubsystemNext

\* For any devices and any answers of the operating system, with entries
\* twice or none at all: with the events still to come, a listener's set
\* becomes the list, whenever it joined.
THEOREM ListenersKeepUp == SubsystemSpec => []ViewFollowsList
<1>1. SubsystemInit => SubsystemInv
  <2> SUFFICES ASSUME SubsystemInit PROVE SubsystemInv
    OBVIOUS
  <2>1. Len(pending) = 0 /\ 1..Len(pending) = {}
    BY DEF SubsystemInit
  <2>2. Told
    BY <2>1 DEF Told
  <2>4. Idle /\ ViewFollowsList
    BY DEF SubsystemInit, Idle, ViewFollowsList
  <2>3. SubsystemTypeOK
    <3>1. << >> \in Seq(Device) /\ << >> \in Seq(Event)
      OBVIOUS
    <3> QED BY <3>1 DEF SubsystemInit, SubsystemTypeOK, Event
  <2> QED BY <2>2, <2>3, <2>4 DEF SubsystemInv
<1>2. SubsystemInv => ViewFollowsList
  BY DEF SubsystemInv
<1> QED BY <1>1, <1>2, SubsystemNextKeepsInv, PTL DEF SubsystemSpec

=============================================================================
