------------------------- MODULE WaldoFrameEndProofs -------------------------
(***************************************************************************)
(* For every device, every number of bindings, and whatever the delegates  *)
(* of a frame do while its loops run: a frame's inputs and values are of   *)
(* one connection, a pass executes what was bound when it began, and       *)
(* nothing is executed that was not bound to the label of the value.       *)
(***************************************************************************)
EXTENDS WaldoFrameEnd, SequenceTheorems, WellFoundedInduction, TLAPS

Less == {p \in Nat \X Nat : p[1] < p[2]}

LEMMA LeastNatural ==
    ASSUME NEW T \in SUBSET Nat, T # {}
    PROVE  \E m \in T : \A k \in T : m <= k
<1>1. IsWellFoundedOn(Less, Nat)
  BY NatLessThanWellFounded DEF OpToRel, Less
<1>2. PICK x \in T : \A y \in T : ~ (<<y, x>> \in Less)
  BY <1>1, WFMin
<1>3. ASSUME NEW y \in T PROVE x <= y
  <2>1. <<y, x>> \in Nat \X Nat /\ <<y, x>>[1] = y /\ <<y, x>>[2] = x
    OBVIOUS
  <2>2. ~ (y < x)
    BY <1>2, <2>1 DEF Less
  <2> QED BY <2>2
<1> QED BY <1>3

\* g is what s keeps of its first n elements, and of fewer.
Keeps(g, s, S, n) ==
    g = [i \in 0..n |-> IF i = 0 THEN << >>
                        ELSE IF s[i] \in S THEN Append(g[i - 1], s[i]) ELSE g[i - 1]]

LEMMA KeepsExists ==
    ASSUME NEW T, NEW s \in Seq(T), NEW S, NEW n \in 0..Len(s)
    PROVE  \E g \in [0..n -> Seq(T \cap S)] : Keeps(g, s, S, n)
<1> DEFINE bad == {m \in Nat : m <= Len(s) /\
                      ~ \E g \in [0..m -> Seq(T \cap S)] : Keeps(g, s, S, m)}
<1>1. SUFFICES ASSUME bad # {} PROVE FALSE
  OBVIOUS
<1>2. PICK m \in bad : \A k \in bad : m <= k
  BY <1>1, LeastNatural
<1>3. m \in Nat /\ m <= Len(s)
  BY <1>2
<1>4. CASE m = 0
  <2> DEFINE g == [i \in 0..m |-> << >>]
  <2>1. g \in [0..m -> Seq(T \cap S)]
    OBVIOUS
  <2>2. Keeps(g, s, S, m)
    BY <1>4 DEF Keeps
  <2> QED BY <1>2, <2>1, <2>2
<1>5. CASE m # 0
  <2>1. m - 1 \in Nat /\ m - 1 <= Len(s) /\ m - 1 \notin bad
    <3>1. Len(s) \in Nat /\ m - 1 \in Nat /\ m - 1 <= Len(s) /\ ~(m <= m - 1)
      BY <1>3, <1>5
    <3> HIDE DEF bad
    <3> QED BY <1>2, <3>1
  <2>2. PICK f \in [0..(m - 1) -> Seq(T \cap S)] : Keeps(f, s, S, m - 1)
    BY <2>1
  <2> DEFINE x == IF s[m] \in S THEN Append(f[m - 1], s[m]) ELSE f[m - 1]
             g == [i \in 0..m |-> IF i = m THEN x ELSE f[i]]
  <2>3. m \in 1..Len(s) /\ s[m] \in T /\ f[m - 1] \in Seq(T \cap S)
    BY <1>3, <1>5
  <2>4. x \in Seq(T \cap S)
    BY <2>3
  <2>5. g \in [0..m -> Seq(T \cap S)]
    BY <2>3, <2>4
  <2>6. ASSUME NEW i \in 0..m
        PROVE  g[i] = IF i = 0 THEN << >>
                      ELSE IF s[i] \in S THEN Append(g[i - 1], s[i]) ELSE g[i - 1]
    <3>1. CASE i = m
      BY <1>3, <1>5, <3>1
    <3>2. CASE i # m
      <4>1. i \in 0..(m - 1) /\ (i # 0 => i - 1 \in 0..(m - 1) /\ i - 1 # m /\ i - 1 \in 0..m)
        BY <3>2, <1>3
      <4>2. f[i] = IF i = 0 THEN << >>
                   ELSE IF s[i] \in S THEN Append(f[i - 1], s[i]) ELSE f[i - 1]
        BY <2>2, <4>1 DEF Keeps
      <4>3. g[i] = f[i] /\ (i # 0 => g[i - 1] = f[i - 1])
        BY <4>1, <3>2
      <4> QED BY <4>2, <4>3
    <3> QED BY <3>1, <3>2
  <2>7. Keeps(g, s, S, m)
    BY <2>6 DEF Keeps
  <2> QED BY <1>2, <2>5, <2>7
<1> QED BY <1>4, <1>5

LEMMA KeepsUnique ==
    ASSUME NEW s, NEW S, NEW n \in Nat, NEW f, NEW g, Keeps(f, s, S, n), Keeps(g, s, S, n)
    PROVE  f = g
<1> DEFINE bad == {m \in 0..n : f[m] # g[m]}
<1>1. bad = {}
  <2>1. SUFFICES ASSUME bad # {} PROVE FALSE
    OBVIOUS
  <2>2. PICK m \in bad : \A k \in bad : m <= k
    <3>1. bad \in SUBSET Nat
      OBVIOUS
    <3> QED BY <2>1, <3>1, LeastNatural
  <2>3. m \in 0..n /\ f[m] # g[m]
    BY <2>2
  <2>4. m # 0 => f[m - 1] = g[m - 1]
    <3>1. m # 0 => m - 1 \in 0..n /\ ~(m <= m - 1)
      BY <2>3
    <3> QED BY <2>2, <3>1
  <2>5. /\ f[m] = IF m = 0 THEN << >> ELSE IF s[m] \in S THEN Append(f[m - 1], s[m]) ELSE f[m - 1]
        /\ g[m] = IF m = 0 THEN << >> ELSE IF s[m] \in S THEN Append(g[m - 1], s[m]) ELSE g[m - 1]
    BY <2>3, Zenon DEF Keeps
  <2> QED BY <2>3, <2>4, <2>5
<1>2. DOMAIN f = 0..n /\ DOMAIN g = 0..n
  BY DEF Keeps
<1> QED BY <1>1, <1>2 DEF Keeps

LEMMA OnlyUpToKeeps ==
    ASSUME NEW T, NEW s \in Seq(T), NEW S
    PROVE  /\ Keeps(OnlyUpTo(s, S), s, S, Len(s))
           /\ OnlyUpTo(s, S) \in [0..Len(s) -> Seq(T \cap S)]
<1>1. Len(s) \in 0..Len(s) /\ Len(s) \in Nat
  OBVIOUS
<1>2. PICK g \in [0..Len(s) -> Seq(T \cap S)] : Keeps(g, s, S, Len(s))
  BY <1>1, KeepsExists
<1>3. Keeps(OnlyUpTo(s, S), s, S, Len(s))
  BY <1>2, Zenon DEF OnlyUpTo, Keeps
<1>4. OnlyUpTo(s, S) = g
  BY <1>1, <1>2, <1>3, KeepsUnique
<1> QED BY <1>2, <1>3, <1>4

LEMMA OnlyIsSeq ==
    ASSUME NEW T, NEW s \in Seq(T), NEW S
    PROVE  Only(s, S) \in Seq(T \cap S)
<1>1. Len(s) \in 0..Len(s)
  OBVIOUS
<1> QED BY <1>1, OnlyUpToKeeps DEF Only

LEMMA OnlyStep ==
    ASSUME NEW T, NEW s \in Seq(T), NEW S, NEW i \in 0..Len(s)
    PROVE  OnlyUpTo(s, S)[i] = IF i = 0 THEN << >>
                               ELSE IF s[i] \in S THEN Append(OnlyUpTo(s, S)[i - 1], s[i])
                               ELSE OnlyUpTo(s, S)[i - 1]
<1> DEFINE f == OnlyUpTo(s, S)
<1>1. Keeps(f, s, S, Len(s))
  BY OnlyUpToKeeps
<1> HIDE DEF f
<1>2. f[i] = IF i = 0 THEN << >>
             ELSE IF s[i] \in S THEN Append(f[i - 1], s[i]) ELSE f[i - 1]
  BY <1>1, Zenon DEF Keeps
<1> QED BY <1>2 DEF f

\* What is kept of the first elements stays kept, and grows by the elements
\* of S alone.
LEMMA OnlySkips ==
    ASSUME NEW T, NEW s \in Seq(T), NEW S, NEW a \in 0..Len(s), NEW b \in a..Len(s),
           \A i \in (a + 1)..b : s[i] \notin S
    PROVE  OnlyUpTo(s, S)[b] = OnlyUpTo(s, S)[a]
<1> DEFINE f == OnlyUpTo(s, S)
           bad == {m \in a..b : f[m] # f[a]}
<1>1. SUFFICES ASSUME bad # {} PROVE FALSE
  OBVIOUS
<1>2. PICK m \in bad : \A k \in bad : m <= k
  <2>1. bad \in SUBSET Nat
    OBVIOUS
  <2> QED BY <1>1, <2>1, LeastNatural
<1>3. m \in a..b /\ f[m] # f[a] /\ m # a
  BY <1>2
<1>4. m - 1 \in a..b /\ m \in (a + 1)..b /\ m \in 0..Len(s) /\ m # 0
  BY <1>3
<1>5. m - 1 \notin bad
  <2>1. ~(m <= m - 1)
    BY <1>3
  <2> HIDE DEF bad
  <2> QED BY <1>2, <2>1
<1>6. f[m - 1] = f[a]
  BY <1>4, <1>5
<1>7. f[m] = IF s[m] \in S THEN Append(f[m - 1], s[m]) ELSE f[m - 1]
  BY <1>4, OnlyStep
<1> QED BY <1>3, <1>4, <1>6, <1>7

BeginsWith(q, p) == Len(p) <= Len(q) /\ \A j \in 1..Len(p) : p[j] = q[j]

LEMMA OnlyPrefix ==
    ASSUME NEW T, NEW s \in Seq(T), NEW S, NEW a \in 0..Len(s), NEW b \in a..Len(s)
    PROVE  BeginsWith(OnlyUpTo(s, S)[b], OnlyUpTo(s, S)[a])
<1> DEFINE f == OnlyUpTo(s, S)
           grown(m) == Len(f[a]) <= Len(f[m]) /\ \A j \in 1..Len(f[a]) : f[a][j] = f[m][j]
           bad == {m \in a..b : ~grown(m)}
<1>1. f \in [0..Len(s) -> Seq(T \cap S)]
  BY OnlyUpToKeeps
<1>2. bad = {}
  <2>1. SUFFICES ASSUME bad # {} PROVE FALSE
    OBVIOUS
  <2>2. PICK m \in bad : \A k \in bad : m <= k
    <3>1. bad \in SUBSET Nat
      OBVIOUS
    <3> QED BY <2>1, <3>1, LeastNatural
  <2>3. m \in a..b /\ ~grown(m)
    BY <2>2
  <2>4. m # a
    <3>1. grown(a)
      BY <1>1
    <3> QED BY <2>3, <3>1
  <2>5. m - 1 \in a..b /\ m \in 0..Len(s) /\ m # 0 /\ m - 1 \in 0..Len(s)
    BY <2>3, <2>4
  <2>6. grown(m - 1)
    <3>1. ~(m <= m - 1)
      BY <2>3
    <3>2. m - 1 \notin bad
      <4> HIDE DEF bad
      <4> QED BY <2>2, <3>1
    <3> QED BY <2>5, <3>2
  <2>7. f[m] = IF s[m] \in S THEN Append(f[m - 1], s[m]) ELSE f[m - 1]
    BY <2>5, OnlyStep
  <2>8. f[m - 1] \in Seq(T \cap S) /\ f[a] \in Seq(T \cap S)
    BY <1>1, <2>5
  <2>9. CASE s[m] \in S
    <3>1. /\ Len(f[m]) = Len(f[m - 1]) + 1
          /\ \A j \in 1..Len(f[m - 1]) : f[m][j] = f[m - 1][j]
      BY <2>7, <2>8, <2>9
    <3> HIDE DEF f
    <3> QED BY <2>3, <2>6, <2>8, <3>1
  <2>10. CASE s[m] \notin S
    BY <2>3, <2>6, <2>7, <2>10
  <2> QED BY <2>9, <2>10
<1>3. grown(b)
  <2>1. b \in a..b
    OBVIOUS
  <2> QED BY <1>2, <2>1
<1> QED BY <1>3 DEF BeginsWith

-----------------------------------------------------------------------------
InputsOn(k) == {[id |-> c.id, label |-> c.label] : c \in {x \in SentOn[k] : x.type = "RegisterInput"}}
ValuesOn(k) == {[id |-> c.id, value |-> c.value] : c \in {x \in SentOn[k] : x.type = "InputValue"}}

ListsOf(k) == RegisteredInputs \in Seq(InputsOn(k)) /\ FrameInputValues \in Seq(ValuesOn(k))

InLoops == at \in {"broadcast", "between", "pass"}

\* Whoever connects while the loops run puts the machine back in Reset, so
\* that nothing is added to the lists of the connection before; and what a
\* machine in Reset holds is forgotten before it is used.
OfOneConnection ==
    /\ connections \in 0..MaxConnections /\ callbacks = connected
    /\ connected \in BOOLEAN
    /\ connected => connections > 0
    /\ InLoops => ListsOf(frameOf)
    /\ InLoops /\ connected /\ State \in {"Ready", "Frame"} => frameOf = connections
    /\ at = "outside" /\ connected /\ State \in {"Ready", "Frame"} => ListsOf(connections)

\* What a Receive makes of the lists of a connection.
LEMMA ReceiveKeepsLists ==
    ASSUME NEW k, NEW c \in SentOn[k], NEW ok \in BOOLEAN, Receive(c, ok), callbacks,
           State \in {"Ready", "Frame"} => ListsOf(k),
           State' \in {"Ready", "Frame"}
    PROVE  /\ RegisteredInputs' \in Seq(InputsOn(k))
           /\ FrameInputValues' \in Seq(ValuesOn(k))
<1>1. Host!Process(c, ok) /\ Dispatch(event', c)
  BY DEF Receive, Host!Receive
<1>2. << >> \in Seq(InputsOn(k)) /\ << >> \in Seq(ValuesOn(k))
  BY EmptySeq
<1>3. CASE event' = "OnReset"
  BY <1>1, <1>2, <1>3 DEF Dispatch, HandleReset, Host!None
<1>4. event' # "OnReset" =>
         RegisteredInputs \in Seq(InputsOn(k)) /\ FrameInputValues \in Seq(ValuesOn(k))
  BY <1>1 DEF Host!Process, Host!Acknowledge, Host!Broadcast, Host!Fail, Host!Handled, ListsOf
<1>5. CASE event' = "OnRegisterInput"
  <2>1. c.type = "RegisterInput"
    BY <1>1, <1>5 DEF Host!Process, Host!Acknowledge, Host!Broadcast, Host!Fail, Host!None
  <2>2. [id |-> c.id, label |-> c.label] \in InputsOn(k)
    BY <2>1 DEF InputsOn
  <2>3. /\ RegisteredInputs' = Append(RegisteredInputs, [id |-> c.id, label |-> c.label])
        /\ FrameInputValues' = FrameInputValues
    BY <1>1, <1>5 DEF Dispatch, HandleRegisterInput, Host!None
  <2> QED BY <1>4, <1>5, <2>2, <2>3
<1>6. CASE event' = "OnInputValue"
  <2>1. c.type = "InputValue"
    BY <1>1, <1>6 DEF Host!Process, Host!Acknowledge, Host!Broadcast, Host!Fail, Host!None
  <2>2. [id |-> c.id, value |-> c.value] \in ValuesOn(k)
    BY <2>1 DEF ValuesOn
  <2>3. /\ FrameInputValues' = Append(FrameInputValues, [id |-> c.id, value |-> c.value])
        /\ RegisteredInputs' = RegisteredInputs
    BY <1>1, <1>6 DEF Dispatch, HandleInputValue, Host!None
  <2> QED BY <1>4, <1>6, <2>2, <2>3
<1>7. CASE event' = "OnFrameStart"
  BY <1>1, <1>2, <1>4, <1>7 DEF Dispatch, HandleFrameStart, Host!None
<1>8. CASE event' = "OnFrameEnd"
  BY <1>1, <1>2, <1>4, <1>8 DEF Dispatch, HandleFrameEnd, Host!None
<1>9. CASE event' \in {"OnMessage", Host!None}
  BY <1>1, <1>4, <1>9 DEF Dispatch, Host!None, inputVars
<1> QED
  BY <1>1, <1>3, <1>5, <1>6, <1>7, <1>8, <1>9 DEF Dispatch, Host!None

LEMMA InitOfOneConnection == Init => OfOneConnection
<1> SUFFICES ASSUME Init PROVE OfOneConnection
  OBVIOUS
<1>1. connected = FALSE /\ callbacks = FALSE /\ connections = 0 /\ at = "outside"
  BY DEF Init, InitWith
<1>2. 0 \in 0..MaxConnections
  BY FrameEndAssumption
<1> QED BY <1>1, <1>2 DEF OfOneConnection, InLoops

LEMMA NextOfOneConnection == OfOneConnection /\ [Next]_vars => OfOneConnection'
<1> SUFFICES ASSUME OfOneConnection, [Next]_vars PROVE OfOneConnection'
  OBVIOUS
<1> USE DEF OfOneConnection, InLoops
<1>1. CASE NewConnection
  BY <1>1, FrameEndAssumption DEF NewConnection, Connect, Host!Reset, inputVars, ListsOf
<1>2. CASE EndConnection
  BY <1>2 DEF EndConnection, Disconnect, Detach, inputVars, ListsOf
<1>3. CASE Bind \/ Unbind
  <2>1. UNCHANGED <<hostVars, connected, callbacks, inputVars, at, connections, frameOf>>
    BY <1>3, Zenon DEF Bind, Unbind, BindDelegateForInput, UnbindDelegateForInput
  <2> QED BY <2>1 DEF hostVars, inputVars, ListsOf
<1>4. CASE Engine
  <2>1. UNCHANGED <<at, connections, frameOf, inputVars>> /\ at = "outside"
    BY <1>4 DEF Engine, BeginPlay, TickComponent, BeginTurn, TickFailed, Detach, ReceiveNothing
  <2>2. UNCHANGED <<State, connected, callbacks>> \/ (~connected' /\ ~callbacks')
    BY <1>4 DEF Engine, BeginPlay, TickComponent, BeginTurn, TickFailed, Detach, ReceiveNothing,
       Host!BeginTick, Host!BeginTurn, Host!ReceiveNothing, hostVars
  <2>3. callbacks' = connected' /\ connected' \in BOOLEAN
    BY <1>4 DEF Engine, BeginPlay, TickComponent, BeginTurn, TickFailed, Detach, ReceiveNothing
  <2> QED BY <2>1, <2>2, <2>3 DEF inputVars, ListsOf
<1>5. CASE Hear
  <2>1. PICK c \in SentOn[connections], ok \in BOOLEAN : Receive(c, ok)
    BY <1>5 DEF Hear
  <2>2. /\ at = "outside" /\ connected /\ callbacks
        /\ UNCHANGED <<at, connections, frameOf, connected, callbacks>>
    BY <1>5, <2>1 DEF Hear, Receive
  <2>3. State' \in {"Ready", "Frame"} => ListsOf(connections)'
    BY <2>1, <2>2, ReceiveKeepsLists DEF ListsOf
  <2> QED BY <2>2, <2>3
<1>6. CASE BeginFrameEnd
  <2>1. PICK c \in SentOn[connections], ok \in BOOLEAN : Host!Receive(c, ok)
    BY <1>6 DEF BeginFrameEnd
  <2>2. /\ at = "outside" /\ connected /\ at' = "broadcast" /\ frameOf' = connections
        /\ UNCHANGED <<connections, connected, callbacks, inputVars>>
        /\ event' = "OnFrameEnd"
    BY <1>6 DEF BeginFrameEnd
  <2>3. State = "Frame"
    BY <2>1, <2>2 DEF Host!Receive, Host!Process, Host!Acknowledge, Host!Broadcast, Host!Fail,
       Host!Handled, Host!None
  <2> QED BY <2>2, <2>3 DEF inputVars, ListsOf
<1>7. CASE EnterLoops
  BY <1>7 DEF EnterLoops, Silently, inputVars, ListsOf
<1>8. CASE BeginPass
  BY <1>8 DEF BeginPass, Silently, inputVars, ListsOf
<1>9. CASE Execute
  BY <1>9 DEF Execute, inputVars, ListsOf
<1>10. CASE EndPass
  BY <1>10 DEF EndPass, Silently, inputVars, ListsOf
<1>11. CASE Die
  BY <1>11 DEF Die, Silently, inputVars, ListsOf
<1>12. CASE EndFrameEnd
  <2>1. << >> \in Seq(ValuesOn(connections))
    BY EmptySeq
  <2> QED BY <1>12, <2>1 DEF EndFrameEnd, ListsOf
<1>13. CASE UNCHANGED vars
  BY <1>13 DEF vars, componentVars, hostVars, inputVars, ListsOf
<1> QED
  BY <1>1, <1>2, <1>3, <1>4, <1>5, <1>6, <1>7, <1>8, <1>9, <1>10, <1>11, <1>12, <1>13
  DEF Next

LEMMA OneConnectionIsInvariant == Spec => []OfOneConnection
BY InitOfOneConnection, NextOfOneConnection, PTL DEF Spec

\* A delegate may disconnect and connect to another device while the loops
\* run: they go on over the inputs and values of the first one alone.
THEOREM FramesAreOfOneConnection == Spec => []FrameIsOfOneConnection
<1>1. OfOneConnection => FrameIsOfOneConnection
  <2> SUFFICES ASSUME OfOneConnection, InLoops PROVE FrameIsOfOneConnection
    BY DEF FrameIsOfOneConnection, InLoops
  <2>1. RegisteredInputs \in Seq(InputsOn(frameOf)) /\ FrameInputValues \in Seq(ValuesOn(frameOf))
    BY DEF OfOneConnection, ListsOf
  <2>2. ASSUME NEW i \in DOMAIN RegisteredInputs
        PROVE  \E c \in SentOn[frameOf] : c.type = "RegisterInput" /\ c.label = RegisteredInputs[i].label
    <3>1. RegisteredInputs[i] \in InputsOn(frameOf)
      BY <2>1
    <3> QED BY <3>1 DEF InputsOn
  <2>3. ASSUME NEW i \in DOMAIN FrameInputValues
        PROVE  \E c \in SentOn[frameOf] : c.type = "InputValue" /\ c.value = FrameInputValues[i].value
    <3>1. FrameInputValues[i] \in ValuesOn(frameOf)
      BY <2>1
    <3> QED BY <3>1 DEF ValuesOn
  <2> QED BY <2>2, <2>3 DEF FrameIsOfOneConnection
<1> QED BY <1>1, OneConnectionIsInvariant, PTL

-----------------------------------------------------------------------------
\* What has been bound, to any label, when the pass began or since.
BoundTo == entered \cup {bound[i] : i \in DOMAIN bound}

Own == [label : {Pass.input.label}, delegate : Delegate]

\* The delegates that are due of the first k entries.
DueOf(k) == LET own == OnlyUpTo(bound, Own)[k] IN [i \in DOMAIN own |-> own[i].delegate]

\* The slots a pass has yet to read hold what is bound or was, and as long
\* as nothing is unbound exactly what was there when the pass began: Bind
\* writes behind them, or elsewhere.  The delegates of those already read
\* have been executed.
PassReadsWhatWasBound ==
    /\ bound \in Seq(Bindings) /\ memory \in Seq(Bindings)
    /\ last = Len(bound) /\ last <= Len(memory) /\ next \in 1..(last + 1)
    /\ \A i \in 1..last : memory[i] \in BoundTo
    /\ InputBindings \in Seq(BoundTo)
    /\ \A x \in executed : x.binding \in BoundTo /\ x.binding.label = x.input.label
    /\ ~unbound => /\ last <= Len(InputBindings)
                   /\ \A i \in 1..last : memory[i] = bound[i]
                   /\ done = DueOf(next - 1)

PassInv ==
    /\ InputBindings \in Seq(Bindings)
    /\ at = "pass" => PassReadsWhatWasBound

LEMMA BindKeepsPass ==
    ASSUME PassInv, at = "pass", Bind
    PROVE  PassReadsWhatWasBound'
<1> USE DEF PassInv
<1>1. PICK l \in Label, d \in Delegate :
         InputBindings' = Append(InputBindings, [label |-> l, delegate |-> d])
  BY DEF Bind, BindDelegateForInput
<1> DEFINE entry == [label |-> l, delegate |-> d]
           n == Len(InputBindings) + 1
<1>2. entry \in Bindings
  BY DEF Bindings
<1>3. PassReadsWhatWasBound /\ InputBindings \in Seq(Bindings)
  OBVIOUS
<1>4. InputBindings'[Len(InputBindings')] = entry /\ n \in Nat /\ n > Len(InputBindings)
  BY <1>1
<1>5. /\ entered' = entered \cup {entry}
      /\ memory' = memory \/ memory' = Added(entry)
      /\ UNCHANGED <<next, last, bound, unbound, done, passes, executed>>
  BY <1>4 DEF Bind, BindDelegateForInput
<1> HIDE DEF entry
<1>6. BoundTo' = BoundTo \cup {entry}
  BY <1>5 DEF BoundTo
<1>7. /\ memory' \in Seq(Bindings) /\ Len(memory') >= Len(memory)
      /\ \A i \in 1..Len(memory) : memory'[i] = memory[i] \/ (i = n /\ memory'[i] = entry)
  <2>1. memory \in Seq(Bindings)
    BY <1>3 DEF PassReadsWhatWasBound
  <2>2. CASE memory' = memory
    BY <2>1, <2>2
  <2>3. CASE n \in DOMAIN memory /\ memory' = [memory EXCEPT ![n] = entry]
    BY <1>2, <2>1, <2>3
  <2>4. CASE memory' = Append(memory, entry)
    BY <1>2, <2>1, <2>4
  <2> QED BY <1>5, <2>2, <2>3, <2>4 DEF Added
<1>8. InputBindings' \in Seq(BoundTo')
  <2>1. InputBindings \in Seq(BoundTo')
    BY <1>3, <1>6 DEF PassReadsWhatWasBound
  <2>2. entry \in BoundTo' /\ InputBindings' = Append(InputBindings, entry)
    BY <1>1, <1>6 DEF entry
  <2> QED BY <2>1, <2>2
<1>9. \A i \in 1..last : memory'[i] \in BoundTo'
  BY <1>3, <1>6, <1>7 DEF PassReadsWhatWasBound
<1>10. ~unbound => /\ last <= Len(InputBindings')
                   /\ \A i \in 1..last : memory'[i] = bound[i]
  <2>1. ASSUME ~unbound PROVE last <= Len(InputBindings) /\ last \in Nat
    BY <1>3, <2>1 DEF PassReadsWhatWasBound
  <2>2. Len(InputBindings') = n
    BY <1>1, <1>3
  <2>3. ASSUME ~unbound, NEW i \in 1..last PROVE memory'[i] = bound[i]
    <3>1. i # n /\ i \in 1..Len(memory) /\ memory[i] = bound[i]
      BY <1>3, <1>4, <2>1, <2>3 DEF PassReadsWhatWasBound
    <3> QED BY <1>7, <3>1
  <2> QED BY <1>4, <2>1, <2>2, <2>3
<1>11. ~unbound => done' = DueOf(next - 1)'
  BY <1>3, <1>5 DEF PassReadsWhatWasBound, DueOf, Own, Pass
<1>12. \A x \in executed' : x.binding \in BoundTo' /\ x.binding.label = x.input.label
  BY <1>3, <1>5, <1>6 DEF PassReadsWhatWasBound
<1>13. last' <= Len(memory') /\ bound' \in Seq(Bindings) /\ last' = Len(bound')
       /\ next' \in 1..(last' + 1)
  BY <1>3, <1>5, <1>7 DEF PassReadsWhatWasBound
<1> QED
  BY <1>5, <1>7, <1>8, <1>9, <1>10, <1>11, <1>12, <1>13 DEF PassReadsWhatWasBound

LEMMA UnbindKeepsType ==
    ASSUME UnbindDelegateForInput, NEW T, InputBindings \in Seq(T)
    PROVE  InputBindings' \in Seq(T)
<1>1. PICK S : InputBindings' = Only(InputBindings, S)
  BY DEF UnbindDelegateForInput
<1>2. Only(InputBindings, S) \in Seq(T \cap S)
  BY OnlyIsSeq
<1>3. Seq(T \cap S) \subseteq Seq(T)
  OBVIOUS
<1> QED BY <1>1, <1>2, <1>3

LEMMA UnbindKeepsPass ==
    ASSUME PassInv, at = "pass", Unbind
    PROVE  PassReadsWhatWasBound'
<1>1. PassReadsWhatWasBound /\ InputBindings \in Seq(Bindings)
  BY DEF PassInv
<1>2. /\ unbound' = TRUE
      /\ memory' = memory \/ memory' = Compacted(InputBindings')
      /\ UNCHANGED <<next, last, bound, entered, done, passes, executed>>
  BY DEF Unbind, UnbindDelegateForInput
<1>3. InputBindings' \in Seq(BoundTo) /\ InputBindings' \in Seq(Bindings)
  BY <1>1, UnbindKeepsType DEF Unbind, PassReadsWhatWasBound
<1>4. BoundTo' = BoundTo
  BY <1>2 DEF BoundTo
<1>5. /\ memory' \in Seq(Bindings) /\ Len(memory') = Len(memory)
      /\ \A i \in 1..last : memory'[i] \in BoundTo
  <2>1. memory \in Seq(Bindings) /\ (\A i \in 1..last : memory[i] \in BoundTo)
        /\ last <= Len(memory) /\ last \in Nat
    BY <1>1 DEF PassReadsWhatWasBound
  <2>2. CASE memory' = memory
    BY <2>1, <2>2
  <2>3. CASE memory' = Compacted(InputBindings')
    <3> DEFINE kept == InputBindings'
    <3>1. /\ DOMAIN memory' = 1..Len(memory) /\ Len(memory) \in Nat
          /\ \A i \in 1..Len(memory) :
                memory'[i] \in {memory[i]} \cup {kept[k] : k \in DOMAIN kept}
      <4> DEFINE survivors == {i \in DOMAIN InputBindings :
                                 \E k \in DOMAIN kept : kept[k] = InputBindings[i]}
                 end == IF kept = << >> THEN 0
                        ELSE CHOOSE i \in survivors : \A j \in survivors : j <= i
      <4>1. memory' = [i \in DOMAIN memory |-> CASE i <= Len(kept) -> kept[i]
                                                 [] i > end -> memory[i]
                                                 [] OTHER -> kept[Len(kept)]]
        BY <2>3 DEF Compacted
      <4>2. kept = << >> => end = 0
        OBVIOUS
      <4>3. kept \in Seq(Bindings)
        BY <1>3
      <4> HIDE DEF end, kept
      <4>4. ASSUME NEW i \in 1..Len(memory)
            PROVE  memory'[i] \in {memory[i]} \cup {kept[k] : k \in DOMAIN kept}
        <5>1. i \in DOMAIN memory /\ i \in Nat /\ i > 0
          BY <2>1
        <5>2. CASE kept = << >>
          <6>1. ~(i <= Len(kept)) /\ i > end
            BY <4>2, <5>1, <5>2
          <6> QED BY <4>1, <5>1, <6>1
        <5>3. CASE kept # << >>
          <6>1. Len(kept) \in DOMAIN kept /\ (i <= Len(kept) => i \in DOMAIN kept)
            BY <4>3, <5>1, <5>3
          <6>2. CASE i <= Len(kept)
            <7>1. memory'[i] \in {kept[i], memory[i]}
              BY <4>1, <5>1, <6>2
            <7> QED BY <6>1, <6>2, <7>1
          <6>3. CASE ~(i <= Len(kept))
            <7>1. memory'[i] \in {memory[i], kept[Len(kept)]}
              BY <4>1, <5>1, <6>3
            <7> QED BY <6>1, <7>1
          <6> QED BY <6>2, <6>3
        <5> QED BY <5>2, <5>3
      <4>5. DOMAIN memory' = DOMAIN memory
        BY <4>1
      <4>6. DOMAIN memory = 1..Len(memory) /\ Len(memory) \in Nat
        BY <2>1
      <4> QED BY <4>4, <4>5, <4>6
    <3>2. \A k \in DOMAIN kept : kept[k] \in BoundTo /\ kept[k] \in Bindings
      BY <1>3
    <3> HIDE DEF kept
    <3>3. \A i \in 1..Len(memory) : memory'[i] \in Bindings /\ (i <= last => memory'[i] \in BoundTo)
      BY <2>1, <3>1, <3>2
    <3>4. memory' = [i \in 1..Len(memory) |-> memory'[i]]
      BY <2>3, <3>1 DEF Compacted
    <3>5. memory' \in Seq(Bindings) /\ Len(memory') = Len(memory)
      BY <3>1, <3>3, <3>4
    <3> QED BY <2>1, <3>1, <3>3, <3>5
  <2> QED BY <1>2, <2>2, <2>3
<1> QED
  BY <1>1, <1>2, <1>3, <1>4, <1>5 DEF PassReadsWhatWasBound

LEMMA BeginPassKeepsPass ==
    ASSUME PassInv, BeginPass
    PROVE  PassReadsWhatWasBound'
<1>1. InputBindings \in Seq(Bindings)
  BY DEF PassInv
<1>2. /\ memory' = InputBindings /\ bound' = InputBindings /\ InputBindings' = InputBindings
      /\ next' = 1 /\ last' = Len(InputBindings) /\ executed' = {} /\ done' = << >>
  BY DEF BeginPass, Silently
<1>3. BoundTo' = entered' \cup {InputBindings[i] : i \in DOMAIN InputBindings}
  BY <1>2 DEF BoundTo
<1>4. \A i \in DOMAIN InputBindings : InputBindings[i] \in BoundTo'
  BY <1>3
<1>5. InputBindings \in Seq(BoundTo')
  BY <1>1, <1>4
<1>6. DueOf(next - 1)' = << >>
  <2>1. DueOf(next - 1)' = [i \in DOMAIN OnlyUpTo(InputBindings, Own')[0] |->
                              OnlyUpTo(InputBindings, Own')[0][i].delegate]
    BY <1>2 DEF DueOf
  <2>2. OnlyUpTo(InputBindings, Own')[0] = << >>
    BY <1>1, OnlyStep
  <2> QED BY <2>1, <2>2
<1>7. /\ Len(InputBindings) \in Nat /\ 1 \in 1..(Len(InputBindings) + 1)
      /\ \A i \in 1..Len(InputBindings) : InputBindings[i] \in BoundTo'
  BY <1>1, <1>4
<1> QED
  BY <1>1, <1>2, <1>5, <1>6, <1>7 DEF PassReadsWhatWasBound

LEMMA ExecuteKeepsPass ==
    ASSUME PassReadsWhatWasBound, Execute
    PROVE  PassReadsWhatWasBound'
<1>1. PICK i \in Matching :
         /\ \A j \in Matching : i <= j
         /\ next' = After(i)
         /\ done' = Append(done, memory[i].delegate)
         /\ executed' = {[binding |-> memory[i], input |-> Pass.input, value |-> Pass.value]}
  BY DEF Execute
<1>2. UNCHANGED <<bound, entered, unbound, memory, last, passes, InputBindings>>
  BY DEF Execute
<1>3. /\ bound \in Seq(Bindings) /\ last = Len(bound) /\ last \in Nat /\ next \in 1..(last + 1)
      /\ \A j \in 1..last : memory[j] \in BoundTo
  BY DEF PassReadsWhatWasBound
<1>4. i \in next..last /\ memory[i].label = Pass.input.label /\ next' = i + 1 /\ i \in 1..last
  BY <1>1, <1>3 DEF Matching, After
<1>5. BoundTo' = BoundTo /\ DueOf(next - 1)' = DueOf(i)
  <2>1. next' - 1 = i
    BY <1>4
  <2> QED BY <1>2, <2>1 DEF BoundTo, DueOf, Own, Pass
<1>6. \A x \in executed' : x.binding \in BoundTo /\ x.binding.label = x.input.label
  BY <1>1, <1>3, <1>4
<1>7. ASSUME ~unbound PROVE done' = DueOf(i)
  <2>1. /\ \A j \in 1..last : memory[j] = bound[j]
        /\ done = DueOf(next - 1)
    BY <1>7 DEF PassReadsWhatWasBound
  <2>2. \A j \in 1..last : bound[j] \in Own <=> bound[j].label = Pass.input.label
    <3>1. \A j \in 1..last : bound[j] \in Bindings
      BY <1>3
    <3>2. \A e \in Bindings : e \in Own <=> e.label = Pass.input.label
      BY DEF Bindings, Own
    <3> QED BY <3>1, <3>2
  <2>3. \A j \in next..(i - 1) : bound[j] \notin Own
    <3>1. ASSUME NEW j \in next..(i - 1), memory[j].label = Pass.input.label PROVE FALSE
      <4>1. j \in Matching /\ ~(i <= j)
        BY <1>3, <1>4, <3>1 DEF Matching
      <4> QED BY <1>1, <4>1
    <3>2. \A j \in next..(i - 1) : j \in 1..last
      BY <1>3, <1>4
    <3> QED BY <2>1, <2>2, <3>1, <3>2
  <2> DEFINE f == OnlyUpTo(bound, Own)
  <2>4. f[i - 1] = f[next - 1]
    <3>1. /\ next - 1 \in 0..Len(bound) /\ i - 1 \in (next - 1)..Len(bound)
          /\ ((next - 1) + 1)..(i - 1) = next..(i - 1)
      BY <1>3, <1>4
    <3>2. bound \in Seq(Bindings) /\ \A j \in ((next - 1) + 1)..(i - 1) : bound[j] \notin Own
      BY <1>3, <2>3, <3>1
    <3> QED BY <3>1, <3>2, OnlySkips
  <2>5. f[i] = Append(f[i - 1], bound[i])
    <3>1. bound[i] \in Own /\ i \in 0..Len(bound) /\ i # 0
      BY <1>3, <1>4, <2>1, <2>2
    <3> QED BY <1>3, <3>1, OnlyStep
  <2>6. f[i - 1] \in Seq(Bindings \cap Own)
    BY <1>3, <1>4, OnlyUpToKeeps
  <2> DEFINE g == f[i - 1]
  <2> HIDE DEF f
  <2>7. done = [k \in DOMAIN g |-> g[k].delegate]
    BY <2>1, <2>4 DEF DueOf, f
  <2>8. DueOf(i) = [k \in DOMAIN Append(g, bound[i]) |-> Append(g, bound[i])[k].delegate]
    BY <2>5 DEF DueOf, f
  <2> HIDE DEF g
  <2>9. g \in Seq(Bindings \cap Own)
    BY <2>6 DEF g
  <2>10. /\ Len(g) \in Nat /\ DOMAIN g = 1..Len(g) /\ DOMAIN Append(g, bound[i]) = 1..(Len(g) + 1)
         /\ \A k \in 1..Len(g) : Append(g, bound[i])[k] = g[k]
         /\ Append(g, bound[i])[Len(g) + 1] = bound[i]
    BY <2>9
  <2>11. Append(done, memory[i].delegate) = DueOf(i)
    <3>1. Append(done, bound[i].delegate)
            = [k \in 1..(Len(g) + 1) |-> IF k = Len(g) + 1 THEN bound[i].delegate ELSE done[k]]
      BY <2>7, <2>10
    <3>2. memory[i] = bound[i]
      BY <1>4, <2>1
    <3> QED BY <2>7, <2>8, <2>10, <3>1, <3>2
  <2> QED BY <1>1, <2>11
<1>8. next' \in 1..(last + 1)
  BY <1>3, <1>4
<1> QED
  BY <1>2, <1>5, <1>6, <1>7, <1>8 DEF PassReadsWhatWasBound

LEMMA InitPassInv == Init => PassInv
<1>1. << >> \in Seq(Bindings)
  BY EmptySeq
<1> QED BY <1>1 DEF Init, InitWith, PassInv

LEMMA NextPassInv == PassInv /\ [Next]_vars => PassInv'
<1> SUFFICES ASSUME PassInv, [Next]_vars PROVE PassInv'
  OBVIOUS
<1>1. ASSUME UNCHANGED <<bound, memory, last, next, entered, unbound, done, passes, InputBindings>>,
             executed' = {} \/ UNCHANGED executed, at = "pass"
      PROVE  PassReadsWhatWasBound'
  <2>1. BoundTo' = BoundTo /\ DueOf(next - 1)' = DueOf(next - 1)
    BY <1>1 DEF BoundTo, DueOf, Own, Pass
  <2>2. PassReadsWhatWasBound
    BY <1>1 DEF PassInv
  <2>3. \A x \in executed' : x.binding \in BoundTo /\ x.binding.label = x.input.label
    BY <1>1, <2>2 DEF PassReadsWhatWasBound
  <2> QED BY <1>1, <2>1, <2>2, <2>3 DEF PassReadsWhatWasBound
<1>2. CASE NewConnection \/ EndConnection
  <2>1. /\ UNCHANGED <<bound, memory, last, next, entered, unbound, done, passes, InputBindings, at>>
        /\ executed' = {}
    BY <1>2 DEF NewConnection, EndConnection, Connect, Disconnect, Detach, loopVars, passHistory
  <2> QED BY <1>1, <2>1 DEF PassInv
<1>3. CASE Bind
  <2>1. at' = at
    BY <1>3 DEF Bind
  <2>2. InputBindings' \in Seq(Bindings)
    BY <1>3 DEF Bind, BindDelegateForInput, PassInv, Bindings
  <2> QED BY <1>3, <2>1, <2>2, BindKeepsPass DEF PassInv
<1>4. CASE Unbind
  <2>1. at' = at
    BY <1>4 DEF Unbind
  <2>2. InputBindings' \in Seq(Bindings)
    BY <1>4, UnbindKeepsType DEF Unbind, PassInv
  <2> QED BY <1>4, <2>1, <2>2, UnbindKeepsPass DEF PassInv
<1>5. CASE Engine \/ Hear
  <2>1. at # "pass" /\ at' = at
    BY <1>5 DEF Engine, Hear
  <2>2. InputBindings' = InputBindings
    BY <1>5 DEF Engine, Hear, BeginPlay, TickComponent, BeginTurn, TickFailed, Detach,
       ReceiveNothing, Receive
  <2> QED BY <2>1, <2>2 DEF PassInv
<1>6. CASE BeginFrameEnd \/ EnterLoops \/ EndPass \/ Die \/ EndFrameEnd
  <2>1. at' # "pass" /\ InputBindings' = InputBindings
    BY <1>6 DEF BeginFrameEnd, EnterLoops, EndPass, Die, EndFrameEnd, Silently
  <2> QED BY <2>1 DEF PassInv
<1>7. CASE BeginPass
  <2>1. InputBindings' = InputBindings
    BY <1>7 DEF BeginPass, Silently
  <2> QED BY <1>7, <2>1, BeginPassKeepsPass DEF PassInv
<1>8. CASE Execute
  <2>1. InputBindings' = InputBindings /\ at = "pass"
    BY <1>8 DEF Execute
  <2> QED BY <1>8, <2>1, ExecuteKeepsPass DEF PassInv
<1>9. CASE UNCHANGED vars
  <2>1. UNCHANGED <<bound, memory, last, next, entered, unbound, done, passes, InputBindings, at,
                    executed>>
    BY <1>9 DEF vars, componentVars, loopVars, passHistory
  <2> QED BY <1>1, <2>1 DEF PassInv
<1> QED
  BY <1>2, <1>3, <1>4, <1>5, <1>6, <1>7, <1>8, <1>9 DEF Next

LEMMA PassInvIsInvariant == Spec => []PassInv
BY InitPassInv, NextPassInv, PTL DEF Spec

\* Also when entries are removed and moved under the loop, and slots of the
\* old array are read: nothing is executed that was not bound to the label.
THEOREM ExecutedWasBound == Spec => []OnlyBoundIsExecuted
<1>1. PassInv => OnlyBoundIsExecuted
  BY DEF PassInv, PassReadsWhatWasBound, OnlyBoundIsExecuted, BoundTo
<1> QED BY <1>1, PassInvIsInvariant, PTL

\* Delegates that connect, disconnect and bind do not disturb the pass they
\* are executed in: it executes what was bound when it began, all and once.
THEOREM PassIsUndisturbed == Spec => []PassExecutesWhatWasBound
<1>1. PassInv => PassExecutesWhatWasBound
  <2> SUFFICES ASSUME PassInv, at = "pass", ~unbound
               PROVE  /\ Len(done) <= Len(Due) /\ done = SubSeq(Due, 1, Len(done))
                      /\ Matching = {} => done = Due
    BY DEF PassExecutesWhatWasBound
  <2> DEFINE f == OnlyUpTo(bound, Own)
             n == Len(bound)
  <2>1. /\ bound \in Seq(Bindings) /\ last = n /\ n \in Nat /\ next \in 1..(n + 1)
        /\ \A i \in 1..n : memory[i] = bound[i]
        /\ done = DueOf(next - 1)
    BY DEF PassInv, PassReadsWhatWasBound
  <2>2. Due = DueOf(n)
    BY DEF Due, DueOf, Only, Own
  <2>3. next - 1 \in 0..n /\ n \in (next - 1)..n
    BY <2>1
  <2>4. /\ f[next - 1] \in Seq(Bindings \cap Own) /\ f[n] \in Seq(Bindings \cap Own)
        /\ Len(f[next - 1]) <= Len(f[n])
        /\ \A j \in 1..Len(f[next - 1]) : f[next - 1][j] = f[n][j]
    <3> DEFINE a == next - 1
    <3>1. a \in 0..Len(bound) /\ n \in a..Len(bound)
      BY <2>1, <2>3
    <3> HIDE DEF a, n, f
    <3>2. BeginsWith(OnlyUpTo(bound, Own)[n], OnlyUpTo(bound, Own)[a])
      BY <2>1, <3>1, OnlyPrefix
    <3>3. f[a] \in Seq(Bindings \cap Own) /\ f[n] \in Seq(Bindings \cap Own)
      <4>1. a \in 0..Len(bound) /\ n \in 0..Len(bound)
        BY <2>1, <3>1
      <4> QED BY <2>1, <4>1, OnlyUpToKeeps DEF f
    <3> QED BY <3>2, <3>3 DEF a, f, BeginsWith
  <2>5. /\ done = [i \in DOMAIN f[next - 1] |-> f[next - 1][i].delegate]
        /\ Due = [i \in DOMAIN f[n] |-> f[n][i].delegate]
    BY <2>1, <2>2 DEF DueOf
  <2>6. Len(done) <= Len(Due) /\ done = SubSeq(Due, 1, Len(done))
    <3> DEFINE a == f[next - 1]
               b == f[n]
    <3>1. /\ DOMAIN a = 1..Len(a) /\ DOMAIN b = 1..Len(b) /\ Len(a) \in Nat /\ Len(b) \in Nat
          /\ Len(a) <= Len(b) /\ \A j \in 1..Len(a) : a[j] = b[j]
      BY <2>4
    <3>2. done = [i \in DOMAIN a |-> a[i].delegate] /\ Due = [i \in DOMAIN b |-> b[i].delegate]
      BY <2>5
    <3> HIDE DEF a, b
    <3>3. Len(done) = Len(a) /\ Len(Due) = Len(b)
      BY <3>1, <3>2
    <3>4. SubSeq(Due, 1, Len(a)) = [i \in 1..Len(a) |-> Due[i]]
      BY <3>1, <3>2, <3>3
    <3> QED BY <3>1, <3>2, <3>3, <3>4
  <2>7. ASSUME Matching = {} PROVE done = Due
    <3>1. ASSUME NEW j \in next..n PROVE bound[j] \notin Own
      <4>1. j \notin Matching /\ j \in next..last /\ memory[j] = bound[j]
        BY <2>1, <2>7
      <4>2. bound[j].label # Pass.input.label
        BY <4>1 DEF Matching
      <4> QED BY <4>2 DEF Own
    <3>2. ((next - 1) + 1)..n = next..n
      BY <2>1
    <3>3. f[n] = f[next - 1]
      BY <2>1, <2>3, <3>1, <3>2, OnlySkips
    <3> QED BY <2>5, <3>3
  <2> QED BY <2>6, <2>7
<1> QED BY <1>1, PassInvIsInvariant, PTL
=============================================================================
