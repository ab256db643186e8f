------------------------ MODULE WaldoComponentProofs ------------------------
(***************************************************************************)
(* For every set of commands, labels and delegates and every bound: the    *)
(* handlers are bound exactly while there is a port, a component that is   *)
(* ready for a frame holds no values of another one, and on a live         *)
(* connection its state and its lists are what the commands heard since    *)
(* the last Reset say.                                                     *)
(***************************************************************************)
EXTENDS WaldoComponentLog, FiniteSetTheorems, FunctionTheorems, SequenceTheorems, WellFoundedInduction, TLAPS

\* Between frames there are no values, whatever the last connection, an
\* abandoned frame or a callback left behind.  Only a Reset leads to Ready
\* from Reset, and only the end of a frame from Frame; both clear the list.
ReadyHasNoValues == connected /\ State = "Ready" => FrameInputValues = << >>

Inv == CallbacksBoundIffConnected /\ ReadyHasNoValues

-----------------------------------------------------------------------------
\* The steps of the machine that tell no handler leave State as it is.
LEMMA SilentSteps ==
    ASSUME \/ Host!BeginTick \/ Host!BeginTurn
           \/ \E ok \in BOOLEAN : Host!ReceiveNothing(ok)
    PROVE  State' = State
BY DEF Host!BeginTick, Host!BeginTurn, Host!ReceiveNothing

\* A command takes the machine to Ready only with an event that clears the
\* values, or leaves it there with one that does not add any.
LEMMA ReadyAfterReceive ==
    ASSUME NEW c, NEW ok, Host!Receive(c, ok), State' = "Ready"
    PROVE  \/ event' \in {"OnReset", "OnFrameEnd"}
           \/ State = "Ready" /\ event' \in {"OnMessage", "OnRegisterInput", "none"}
<1>1. Host!Process(c, ok)
  BY DEF Host!Receive
<1>2. CASE c.type = "Reset" /\ Host!Acknowledge("AcknowledgeReset", ok, "Ready", "OnReset")
  BY <1>2 DEF Host!Acknowledge, Host!Fail, Host!None
<1> QED
  BY <1>1 DEF Host!Process, Host!Acknowledge, Host!Fail, Host!Broadcast, Host!None, Host!Handled

LEMMA InitEstablishesInv == Init => Inv
BY DEF Init, InitWith, Inv, CallbacksBoundIffConnected, ReadyHasNoValues

LEMMA NextKeepsInv == Inv /\ [Next]_vars => Inv'
<1> SUFFICES ASSUME Inv, [Next]_vars PROVE Inv'
  OBVIOUS
<1> USE DEF Inv, CallbacksBoundIffConnected, ReadyHasNoValues
<1>1. CASE NewConnection
  BY <1>1 DEF NewConnection, Connect, Host!Reset
<1>2. CASE Disconnect
  BY <1>2 DEF Disconnect, Detach
<1>3. CASE Bind \/ UnbindDelegateForInput
  <2>1. UNCHANGED <<hostVars, begun, connected, callbacks, inputVars, executed>>
    BY <1>3, Zenon DEF Bind, BindDelegateForInput, UnbindDelegateForInput
  <2> QED BY <2>1 DEF hostVars, inputVars
<1>4. CASE BeginPlay
  BY <1>4 DEF BeginPlay, hostVars, inputVars
<1>5. CASE TickComponent
  BY <1>5, SilentSteps DEF TickComponent, inputVars
<1>6. CASE BeginTurn
  BY <1>6, SilentSteps DEF BeginTurn, inputVars
<1>7. CASE TickFailed
  BY <1>7 DEF TickFailed, Detach, inputVars
<1>8. CASE HearNothing
  BY <1>8, SilentSteps DEF HearNothing, ReceiveNothing, inputVars
<1>9. CASE Hear
  <2>1. PICK c \in Command, ok \in BOOLEAN : Receive(c, ok)
    BY <1>9 DEF Hear
  <2>2. connected /\ callbacks /\ UNCHANGED <<connected, callbacks>>
    BY <2>1 DEF Receive
  <2>3. SUFFICES ASSUME State' = "Ready" PROVE FrameInputValues' = << >>
    BY <2>2
  <2>4. Dispatch(event', c) /\ Host!Receive(c, ok)
    BY <2>1 DEF Receive
  <2>5. CASE event' \in {"OnReset", "OnFrameEnd"}
    BY <2>2, <2>4, <2>5 DEF Dispatch, HandleReset, HandleFrameEnd, Host!None
  <2>6. CASE State = "Ready" /\ event' \in {"OnMessage", "OnRegisterInput", "none"}
    BY <2>2, <2>4, <2>6 DEF Dispatch, HandleRegisterInput, Host!None, inputVars
  <2> QED BY <2>3, <2>4, <2>5, <2>6, ReadyAfterReceive
<1>10. CASE UNCHANGED vars
  BY <1>10 DEF vars, componentVars, hostVars, inputVars
<1> QED
  BY <1>1, <1>2, <1>3, <1>4, <1>5, <1>6, <1>7, <1>8, <1>9, <1>10
  DEF Next, Blueprint, Engine

LEMMA InvIsInvariant == Spec => []Inv
BY InitEstablishesInv, NextKeepsInv, PTL DEF Spec

\* However Blueprints nest Connect and Disconnect in callbacks, and whatever
\* fails: no event reaches a component without a port, or reaches it twice.
THEOREM CallbacksMatchConnection == Spec => []CallbacksBoundIffConnected
<1>1. Inv => CallbacksBoundIffConnected
  BY DEF Inv
<1> QED BY <1>1, InvIsInvariant, PTL

\* A frame starts from an empty list of values on every connection.
THEOREM FramesStartEmpty == Spec => []ReadyHasNoValues
<1>1. Inv => ReadyHasNoValues
  BY DEF Inv
<1> QED BY <1>1, InvIsInvariant, PTL

-----------------------------------------------------------------------------
Less == {p \in Nat \X Nat : p[1] < p[2]}

LEMMA LeastNatural ==
    ASSUME NEW T \in SUBSET Nat, T # {}
    PROVE  \E m \in T : \A k \in T : m <= k
<1>1. IsWellFoundedOn(Less, Nat)
  BY NatLessThanWellFounded DEF OpToRel, Less
<1>2. PICK x \in T : \A y \in T : ~ (<<y, x>> \in Less)
  BY <1>1, WFMin
<1>3. ASSUME NEW y \in T PROVE x <= y
  <2>1. <<y, x>> \in Nat \X Nat /\ <<y, x>>[1] = y /\ <<y, x>>[2] = x
    OBVIOUS
  <2>2. ~ (y < x)
    BY <1>2, <2>1 DEF Less
  <2> QED BY <2>2
<1> QED BY <1>3

\* g is what s keeps of its first n elements, and of fewer.
Keeps(g, s, S, n) ==
    g = [i \in 0..n |-> IF i = 0 THEN << >>
                        ELSE IF s[i] \in S THEN Append(g[i - 1], s[i]) ELSE g[i - 1]]

LEMMA KeepsExists ==
    ASSUME NEW T, NEW s \in Seq(T), NEW S, NEW n \in 0..Len(s)
    PROVE  \E g \in [0..n -> Seq(T \cap S)] : Keeps(g, s, S, n)
<1> DEFINE bad == {m \in Nat : m <= Len(s) /\
                      ~ \E g \in [0..m -> Seq(T \cap S)] : Keeps(g, s, S, m)}
<1>1. SUFFICES ASSUME bad # {} PROVE FALSE
  OBVIOUS
<1>2. PICK m \in bad : \A k \in bad : m <= k
  BY <1>1, LeastNatural
<1>3. m \in Nat /\ m <= Len(s)
  BY <1>2
<1>4. CASE m = 0
  <2> DEFINE g == [i \in 0..m |-> << >>]
  <2>1. g \in [0..m -> Seq(T \cap S)]
    OBVIOUS
  <2>2. Keeps(g, s, S, m)
    BY <1>4 DEF Keeps
  <2> QED BY <1>2, <2>1, <2>2
<1>5. CASE m # 0
  <2>1. m - 1 \in Nat /\ m - 1 <= Len(s) /\ m - 1 \notin bad
    <3>1. Len(s) \in Nat /\ m - 1 \in Nat /\ m - 1 <= Len(s) /\ ~(m <= m - 1)
      BY <1>3, <1>5
    <3> HIDE DEF bad
    <3> QED BY <1>2, <3>1
  <2>2. PICK f \in [0..(m - 1) -> Seq(T \cap S)] : Keeps(f, s, S, m - 1)
    BY <2>1
  <2> DEFINE x == IF s[m] \in S THEN Append(f[m - 1], s[m]) ELSE f[m - 1]
             g == [i \in 0..m |-> IF i = m THEN x ELSE f[i]]
  <2>3. m \in 1..Len(s) /\ s[m] \in T /\ f[m - 1] \in Seq(T \cap S)
    BY <1>3, <1>5
  <2>4. x \in Seq(T \cap S)
    BY <2>3
  <2>5. g \in [0..m -> Seq(T \cap S)]
    BY <2>3, <2>4
  <2>6. ASSUME NEW i \in 0..m
        PROVE  g[i] = IF i = 0 THEN << >>
                      ELSE IF s[i] \in S THEN Append(g[i - 1], s[i]) ELSE g[i - 1]
    <3>1. CASE i = m
      BY <1>3, <1>5, <3>1
    <3>2. CASE i # m
      <4>1. i \in 0..(m - 1) /\ (i # 0 => i - 1 \in 0..(m - 1) /\ i - 1 # m /\ i - 1 \in 0..m)
        BY <3>2, <1>3
      <4>2. f[i] = IF i = 0 THEN << >>
                   ELSE IF s[i] \in S THEN Append(f[i - 1], s[i]) ELSE f[i - 1]
        BY <2>2, <4>1 DEF Keeps
      <4>3. g[i] = f[i] /\ (i # 0 => g[i - 1] = f[i - 1])
        BY <4>1, <3>2
      <4> QED BY <4>2, <4>3
    <3> QED BY <3>1, <3>2
  <2>7. Keeps(g, s, S, m)
    BY <2>6 DEF Keeps
  <2> QED BY <1>2, <2>5, <2>7
<1> QED BY <1>4, <1>5

LEMMA KeepsUnique ==
    ASSUME NEW s, NEW S, NEW n \in Nat, NEW f, NEW g, Keeps(f, s, S, n), Keeps(g, s, S, n)
    PROVE  f = g
<1> DEFINE bad == {m \in 0..n : f[m] # g[m]}
<1>1. bad = {}
  <2>1. SUFFICES ASSUME bad # {} PROVE FALSE
    OBVIOUS
  <2>2. PICK m \in bad : \A k \in bad : m <= k
    <3>1. bad \in SUBSET Nat
      OBVIOUS
    <3> QED BY <2>1, <3>1, LeastNatural
  <2>3. m \in 0..n /\ f[m] # g[m]
    BY <2>2
  <2>4. m # 0 => f[m - 1] = g[m - 1]
    <3>1. m # 0 => m - 1 \in 0..n /\ ~(m <= m - 1)
      BY <2>3
    <3> QED BY <2>2, <3>1
  <2>5. /\ f[m] = IF m = 0 THEN << >> ELSE IF s[m] \in S THEN Append(f[m - 1], s[m]) ELSE f[m - 1]
        /\ g[m] = IF m = 0 THEN << >> ELSE IF s[m] \in S THEN Append(g[m - 1], s[m]) ELSE g[m - 1]
    BY <2>3, Zenon DEF Keeps
  <2> QED BY <2>3, <2>4, <2>5
<1>2. DOMAIN f = 0..n /\ DOMAIN g = 0..n
  BY DEF Keeps
<1> QED BY <1>1, <1>2 DEF Keeps

LEMMA OnlyUpToKeeps ==
    ASSUME NEW T, NEW s \in Seq(T), NEW S
    PROVE  /\ Keeps(OnlyUpTo(s, S), s, S, Len(s))
           /\ OnlyUpTo(s, S) \in [0..Len(s) -> Seq(T \cap S)]
<1>1. Len(s) \in 0..Len(s) /\ Len(s) \in Nat
  OBVIOUS
<1>2. PICK g \in [0..Len(s) -> Seq(T \cap S)] : Keeps(g, s, S, Len(s))
  BY <1>1, KeepsExists
<1>3. Keeps(OnlyUpTo(s, S), s, S, Len(s))
  BY <1>2, Zenon DEF OnlyUpTo, Keeps
<1>4. OnlyUpTo(s, S) = g
  BY <1>1, <1>2, <1>3, KeepsUnique
<1> QED BY <1>2, <1>3, <1>4

LEMMA OnlyIsSeq ==
    ASSUME NEW T, NEW s \in Seq(T), NEW S
    PROVE  Only(s, S) \in Seq(T \cap S)
<1>1. Len(s) \in 0..Len(s)
  OBVIOUS
<1> QED BY <1>1, OnlyUpToKeeps DEF Only

-----------------------------------------------------------------------------
IsLast(h, r) ==
    /\ r \in 0..Len(h)
    /\ r > 0 => h[r].type = "Reset"
    /\ \A q \in (r + 1)..Len(h) : h[q].type # "Reset"

LEMMA LastResetIs ==
    ASSUME NEW h \in Seq(Command), NEW r, IsLast(h, r)
    PROVE  LastReset(h) = r
<1> DEFINE resets == {0} \cup {p \in DOMAIN h : h[p].type = "Reset"}
<1>1. r \in resets /\ \A q \in resets : q <= r
  BY DEF IsLast
<1>2. ASSUME NEW p \in resets, \A q \in resets : q <= p PROVE p = r
  <2>1. p <= r /\ r <= p
    BY <1>1, <1>2
  <2>2. p \in Nat /\ r \in Nat
    BY <1>1
  <2> QED BY <2>1, <2>2
<1> HIDE DEF resets
<1>3. (CHOOSE p \in resets : \A q \in resets : q <= p) = r
  BY <1>1, <1>2
<1> QED BY <1>3 DEF LastReset, resets

LEMMA LastOfAppend ==
    ASSUME NEW h \in Seq(Command), NEW c \in Command, NEW r, IsLast(h, r)
    PROVE  LET g == Append(h, c)
           IN  /\ g \in Seq(Command) /\ Len(g) = Len(h) + 1
               /\ g[Len(h) + 1] = c /\ \A p \in 1..Len(h) : g[p] = h[p]
               /\ IsLast(g, IF c.type = "Reset" THEN Len(h) + 1 ELSE r)
BY DEF IsLast

LEMMA AfterAppend ==
    ASSUME NEW h \in Seq(Command), NEW c \in Command, NEW r, IsLast(h, r), c.type # "Reset"
    PROVE  LET n == Len(h)
               g == Append(h, c)
           IN  /\ LastReset(h) = r /\ LastReset(g) = r /\ r \in 0..n /\ n \in Nat /\ Len(g) = n + 1
               /\ g[n + 1] = c /\ \A p \in 1..n : g[p] = h[p]
<1>1. LET g == Append(h, c)
      IN  /\ g \in Seq(Command) /\ Len(g) = Len(h) + 1
          /\ g[Len(h) + 1] = c /\ \A p \in 1..Len(h) : g[p] = h[p]
          /\ IsLast(g, r)
  BY LastOfAppend
<1>2. LastReset(h) = r
  BY LastResetIs
<1>3. LastReset(Append(h, c)) = r
  <2> DEFINE g == Append(h, c)
  <2>1. g \in Seq(Command) /\ IsLast(g, r)
    BY <1>1
  <2> HIDE DEF g
  <2>2. LastReset(g) = r
    BY <2>1, LastResetIs
  <2> QED BY <2>2 DEF g
<1>4. r \in 0..Len(h) /\ Len(h) \in Nat
  BY DEF IsLast
<1> QED BY <1>1, <1>2, <1>3, <1>4

LEMMA OpenAfter ==
    ASSUME NEW h \in Seq(Command), NEW c \in Command, NEW r, IsLast(h, r), c.type # "Reset"
    PROVE  LET n == Len(h)
               g == Append(h, c)
           IN  /\ \A p \in 1..(n + 1) : OpenAt(g, p) <=> OpenAt(h, p)
               /\ OpenAt(g, n + 2) <=> \/ c.type = "StartFrame"
                                       \/ OpenAt(h, n + 1) /\ c.type # "EndFrame"
<1> DEFINE n == Len(h)
           g == Append(h, c)
<1>1. /\ LastReset(h) = r /\ LastReset(g) = r /\ r \in 0..n /\ n \in Nat
      /\ g[n + 1] = c /\ \A p \in 1..n : g[p] = h[p]
  BY AfterAppend
<1> HIDE DEF n, g
<1>2. ASSUME NEW p \in 1..(n + 1) PROVE OpenAt(g, p) <=> OpenAt(h, p)
  BY <1>1 DEF OpenAt
<1>3. OpenAt(g, n + 2) => c.type = "StartFrame" \/ (OpenAt(h, n + 1) /\ c.type # "EndFrame")
  BY <1>1 DEF OpenAt
<1>4. c.type = "StartFrame" => OpenAt(g, n + 2)
  BY <1>1 DEF OpenAt
<1>5. OpenAt(h, n + 1) /\ c.type # "EndFrame" => OpenAt(g, n + 2)
  BY <1>1 DEF OpenAt
<1> QED BY <1>2, <1>3, <1>4, <1>5 DEF n, g

LEMMA PositionsAfter ==
    ASSUME NEW h \in Seq(Command), NEW c \in Command, NEW r, IsLast(h, r), c.type # "Reset"
    PROVE  LET n == Len(h)
               g == Append(h, c)
           IN  /\ Registrations(g) =
                    Registrations(h) \cup {p \in {n + 1} : c.type = "RegisterInput" /\ ~OpenAt(h, p)}
               /\ Values(g, n + 1) = Values(h, n + 1)
               /\ c.type # "EndFrame" => Values(g, n + 2) =
                    Values(h, n + 1) \cup {p \in {n + 1} : c.type = "InputValue" /\ OpenAt(h, p)}
               /\ c.type = "EndFrame" => Values(g, n + 2) = {}
<1> DEFINE n == Len(h)
           g == Append(h, c)
<1>1. /\ LastReset(h) = r /\ LastReset(g) = r /\ r \in 0..n /\ n \in Nat /\ Len(g) = n + 1
      /\ g[n + 1] = c /\ \A p \in 1..n : g[p] = h[p]
  BY AfterAppend
<1>2. \A p \in 1..(n + 1) : OpenAt(g, p) <=> OpenAt(h, p)
  BY OpenAfter
<1>3. Len(h) = n
  OBVIOUS
<1> HIDE DEF n, g
<1>4. Registrations(g) =
        Registrations(h) \cup {p \in {n + 1} : c.type = "RegisterInput" /\ ~OpenAt(h, p)}
  BY <1>1, <1>2, <1>3 DEF Registrations
<1>5. Values(g, n + 1) = Values(h, n + 1)
  BY <1>1, <1>2 DEF Values
<1>6. ASSUME c.type # "EndFrame"
      PROVE  Values(g, n + 2) =
        Values(h, n + 1) \cup {p \in {n + 1} : c.type = "InputValue" /\ OpenAt(h, p)}
  <2>1. ASSUME NEW p \in 1..n
        PROVE  (\A q \in p..(n + 1) : g[q].type # "EndFrame")
                  <=> (\A q \in p..n : h[q].type # "EndFrame")
    BY <1>1, <1>6
  <2>2. ASSUME NEW p \in (r + 1)..n PROVE p \in Values(g, n + 2) <=> p \in Values(h, n + 1)
    <3>1. (n + 2) - 1 = n + 1 /\ (n + 1) - 1 = n /\ p \in (r + 1)..(n + 1) /\ p \in 1..n
      BY <1>1
    <3> QED BY <1>1, <1>2, <2>1, <3>1 DEF Values
  <2>3. n + 1 \in Values(g, n + 2) <=> c.type = "InputValue" /\ OpenAt(h, n + 1)
    <3>1. (n + 2) - 1 = n + 1 /\ n + 1 \in (r + 1)..(n + 1) /\ n + 1 \in 1..(n + 1)
      BY <1>1
    <3>2. \A q \in (n + 1)..(n + 1) : q = n + 1
      BY <1>1
    <3> QED BY <1>1, <1>2, <1>6, <3>1, <3>2 DEF Values
  <2>4. /\ Values(g, n + 2) \subseteq ((r + 1)..n) \cup {n + 1}
        /\ Values(h, n + 1) \subseteq (r + 1)..n
    BY <1>1 DEF Values
  <2> QED BY <2>2, <2>3, <2>4, <1>1
<1>7. c.type = "EndFrame" => Values(g, n + 2) = {}
  BY <1>1 DEF Values
<1> QED BY <1>4, <1>5, <1>6, <1>7 DEF n, g

LEMMA NoValuesWhileClosed ==
    ASSUME NEW h \in Seq(Command), NEW r, IsLast(h, r), ~OpenAt(h, Len(h) + 1)
    PROVE  Values(h, Len(h) + 1) = {}
<1>1. LastReset(h) = r /\ r \in 0..Len(h)
  BY LastResetIs DEF IsLast
<1> QED BY <1>1 DEF Values, OpenAt

-----------------------------------------------------------------------------
\* Sets of positions in a log of n commands.
PositionsIn(n) == SUBSET (1..n)

\* The place of a position among the positions of a finite set.
LEMMA RankFacts ==
    ASSUME NEW n \in Nat, NEW P \in PositionsIn(n)
    PROVE  /\ IsFiniteSet(P) /\ Cardinality(P) \in Nat
           /\ \A p \in P : Rank(p, P) \in 1..Cardinality(P)
<1>1. IsFiniteSet(P)
  <2>1. IsFiniteSet(1..n) /\ P \in SUBSET (1..n)
    BY FS_Interval DEF PositionsIn
  <2> QED BY <2>1, FS_Subset
<1>2. Cardinality(P) \in Nat
  BY <1>1, FS_CardinalityType
<1>3. ASSUME NEW p \in P PROVE Rank(p, P) \in 1..Cardinality(P)
  <2> DEFINE Q == {q \in P : q <= p}
  <2>1. Q \in SUBSET P /\ p \in Q
    <3>1. p \in Int
      BY DEF PositionsIn
    <3> QED BY <3>1
  <2> HIDE DEF Q
  <2>2. IsFiniteSet(Q) /\ Cardinality(Q) <= Cardinality(P)
    BY <1>1, <2>1, FS_Subset
  <2>3. Cardinality(Q) \in Nat /\ Cardinality(Q) # 0
    BY <2>1, <2>2, FS_CardinalityType, FS_EmptySet
  <2>4. Rank(p, P) = Cardinality(Q)
    BY DEF Rank, Q
  <2> QED BY <1>2, <2>2, <2>3, <2>4
<1> QED BY <1>1, <1>2, <1>3

LEMMA RankIncreases ==
    ASSUME NEW n \in Nat, NEW P \in PositionsIn(n), NEW p \in P, NEW q \in P, p < q
    PROVE  Rank(p, P) < Rank(q, P)
<1> DEFINE A == {x \in P : x <= p}
           B == {x \in P : x <= q}
<1>1. IsFiniteSet(P)
  BY RankFacts
<1>2. A \in SUBSET B /\ B \in SUBSET P /\ q \in B /\ q \notin A
  <2>1. p \in Int /\ q \in Int /\ \A x \in P : x \in Int
    BY DEF PositionsIn
  <2>2. \A x \in P : x <= p => x <= q
    BY <2>1
  <2>3. q <= q /\ ~(q <= p)
    BY <2>1
  <2> QED BY <2>2, <2>3
<1>3. Rank(p, P) = Cardinality(A) /\ Rank(q, P) = Cardinality(B)
  BY DEF Rank
<1> HIDE DEF A, B
<1>4. IsFiniteSet(B)
  BY <1>1, <1>2, FS_Subset
<1>5. /\ IsFiniteSet(A) /\ Cardinality(A) <= Cardinality(B)
      /\ Cardinality(B) = Cardinality(A) => B = A
  BY <1>2, <1>4, FS_Subset
<1>6. Cardinality(A) \in Nat /\ Cardinality(B) \in Nat
  BY <1>4, <1>5, FS_CardinalityType
<1> QED BY <1>2, <1>3, <1>5, <1>6

LEMMA RankAfter ==
    ASSUME NEW n \in Nat, NEW P \in PositionsIn(n)
    PROVE  LET N == P \cup {n + 1}
           IN  /\ Cardinality(N) = Cardinality(P) + 1
               /\ Rank(n + 1, N) = Cardinality(P) + 1
               /\ \A p \in P : Rank(p, N) = Rank(p, P)
<1> DEFINE N == P \cup {n + 1}
<1>1. n + 1 \notin P
  BY DEF PositionsIn
<1>2. IsFiniteSet(P)
  BY RankFacts
<1>3. Cardinality(N) = Cardinality(P) + 1
  BY <1>1, <1>2, FS_AddElement
<1>4. {q \in N : q <= n + 1} = N
  <2>1. \A q \in N : q <= n + 1
    BY DEF PositionsIn
  <2> QED BY <2>1
<1>5. \A p \in P : {q \in N : q <= p} = {q \in P : q <= p}
  <2>1. \A p \in P : ~(n + 1 <= p)
    BY DEF PositionsIn
  <2> QED BY <2>1
<1> QED BY <1>3, <1>4, <1>5 DEF Rank

LEMMA ListGrows ==
    ASSUME NEW T, NEW list \in Seq(T), NEW n \in Nat, NEW items, NEW more,
           DOMAIN items \in PositionsIn(n), ListOf(list, items),
           DOMAIN more = DOMAIN items \cup {n + 1},
           \A p \in DOMAIN items : more[p] = items[p],
           more[n + 1] \in T
    PROVE  ListOf(Append(list, more[n + 1]), more)
<1> DEFINE P == DOMAIN items
           x == more[n + 1]
<1>1. Len(list) = Cardinality(P) /\ \A p \in P : list[Rank(p, P)] = items[p]
  BY DEF ListOf
<1>2. /\ Cardinality(DOMAIN more) = Cardinality(P) + 1
      /\ Rank(n + 1, DOMAIN more) = Cardinality(P) + 1
      /\ \A p \in P : Rank(p, DOMAIN more) = Rank(p, P)
  <2>1. P \in PositionsIn(n) /\ DOMAIN more = P \cup {n + 1}
    OBVIOUS
  <2> HIDE DEF P
  <2>2. LET N == P \cup {n + 1}
        IN  /\ Cardinality(N) = Cardinality(P) + 1
            /\ Rank(n + 1, N) = Cardinality(P) + 1
            /\ \A p \in P : Rank(p, N) = Rank(p, P)
    BY <2>1, RankAfter
  <2> QED BY <2>1, <2>2
<1>3. \A p \in P : Rank(p, P) \in 1..Len(list)
  BY <1>1, RankFacts
<1> HIDE DEF P, x
<1>4. /\ Len(Append(list, x)) = Len(list) + 1
      /\ Append(list, x)[Len(list) + 1] = x
      /\ \A k \in 1..Len(list) : Append(list, x)[k] = list[k]
  BY DEF x
<1>5. Append(list, x)[Rank(n + 1, DOMAIN more)] = more[n + 1]
  BY <1>1, <1>2, <1>4 DEF x
<1>6. \A p \in P : Append(list, x)[Rank(p, DOMAIN more)] = more[p]
  BY <1>1, <1>2, <1>3, <1>4 DEF P
<1>7. DOMAIN more = P \cup {n + 1}
  BY DEF P
<1> QED BY <1>1, <1>2, <1>4, <1>5, <1>6, <1>7 DEF ListOf, x

LEMMA EmptyList ==
    ASSUME NEW items, DOMAIN items = {}
    PROVE  ListOf(<< >>, items)
BY FS_EmptySet DEF ListOf

-----------------------------------------------------------------------------
\* What one more command makes of a log in which there was a Reset.
LEMMA InputsAfter ==
    ASSUME NEW h \in Seq(Command), NEW c \in Command, NEW r, IsLast(h, r), c.type # "Reset",
           NEW T, NEW list \in Seq(T), ListOf(list, InputsOf(h))
    PROVE  LET n == Len(h)
               g == Append(h, c)
               new == [id |-> c.id, label |-> c.label]
           IN  IF c.type = "RegisterInput" /\ ~OpenAt(h, n + 1)
               THEN new \in T => ListOf(Append(list, new), InputsOf(g))
               ELSE ListOf(list, InputsOf(g))
<1> DEFINE n == Len(h)
           g == Append(h, c)
           new == [id |-> c.id, label |-> c.label]
<1>1. /\ n \in Nat /\ g[n + 1] = c /\ \A p \in 1..n : g[p] = h[p]
      /\ r \in 0..n /\ LastReset(h) = r
  BY AfterAppend
<1>2. Registrations(g) =
        Registrations(h) \cup {p \in {n + 1} : c.type = "RegisterInput" /\ ~OpenAt(h, p)}
  BY PositionsAfter
<1>3. Registrations(h) \in SUBSET (1..n) /\ Registrations(h) \in PositionsIn(n)
  BY <1>1 DEF Registrations, PositionsIn
<1> HIDE DEF n, g
<1>4. /\ DOMAIN InputsOf(h) = Registrations(h) /\ DOMAIN InputsOf(g) = Registrations(g)
      /\ \A p \in Registrations(h) :
            InputsOf(h)[p] = [id |-> h[p].id, label |-> h[p].label]
      /\ \A p \in Registrations(g) :
            InputsOf(g)[p] = [id |-> g[p].id, label |-> g[p].label]
  BY DEF InputsOf
<1>5. \A p \in Registrations(h) : InputsOf(g)[p] = InputsOf(h)[p]
  BY <1>1, <1>2, <1>3, <1>4
<1>6. CASE c.type = "RegisterInput" /\ ~OpenAt(h, n + 1)
  <2>1. Registrations(g) = Registrations(h) \cup {n + 1}
    BY <1>2, <1>6
  <2>2. InputsOf(g)[n + 1] = new
    BY <1>1, <1>4, <2>1
  <2>3. ASSUME new \in T PROVE ListOf(Append(list, InputsOf(g)[n + 1]), InputsOf(g))
    <3> DEFINE items == InputsOf(h)
               more == InputsOf(g)
    <3>1. /\ DOMAIN items \in PositionsIn(n) /\ ListOf(list, items)
          /\ DOMAIN more = DOMAIN items \cup {n + 1}
          /\ \A p \in DOMAIN items : more[p] = items[p]
          /\ more[n + 1] \in T
      BY <1>3, <1>4, <1>5, <2>1, <2>2, <2>3
    <3> HIDE DEF items, more
    <3>2. ListOf(Append(list, more[n + 1]), more)
      BY <1>1, <3>1, ListGrows
    <3> QED BY <3>2 DEF more
  <2> QED BY <1>6, <2>2, <2>3 DEF n, g
<1>7. CASE ~(c.type = "RegisterInput" /\ ~OpenAt(h, n + 1))
  <2>1. Registrations(g) = Registrations(h)
    BY <1>2, <1>7
  <2>2. ListOf(list, InputsOf(g))
    BY <1>4, <1>5, <2>1 DEF ListOf
  <2> QED BY <1>7, <2>2 DEF n, g
<1> QED BY <1>6, <1>7

LEMMA ValuesAfter ==
    ASSUME NEW h \in Seq(Command), NEW c \in Command, NEW r, IsLast(h, r), c.type # "Reset",
           NEW T, NEW list \in Seq(T), ListOf(list, ValuesOf(h, Len(h) + 1)),
           c.type # "EndFrame"
    PROVE  LET n == Len(h)
               g == Append(h, c)
               new == [id |-> c.id, value |-> c.value]
           IN  IF c.type = "InputValue" /\ OpenAt(h, n + 1)
               THEN new \in T => ListOf(Append(list, new), ValuesOf(g, n + 2))
               ELSE ListOf(list, ValuesOf(g, n + 2))
<1> DEFINE n == Len(h)
           g == Append(h, c)
           new == [id |-> c.id, value |-> c.value]
           V == Values(h, n + 1)
           W == Values(g, n + 2)
<1>1. /\ n \in Nat /\ g[n + 1] = c /\ \A p \in 1..n : g[p] = h[p]
      /\ r \in 0..n /\ LastReset(h) = r
  BY AfterAppend
<1>2. W = V \cup {p \in {n + 1} : c.type = "InputValue" /\ OpenAt(h, p)}
  BY PositionsAfter
<1>3. V \in SUBSET (1..n) /\ V \in PositionsIn(n)
  BY <1>1 DEF Values, PositionsIn
<1>4. /\ DOMAIN ValuesOf(h, n + 1) = V /\ DOMAIN ValuesOf(g, n + 2) = W
      /\ \A p \in V : ValuesOf(h, n + 1)[p] = [id |-> h[p].id, value |-> h[p].value]
      /\ \A p \in W : ValuesOf(g, n + 2)[p] = [id |-> g[p].id, value |-> g[p].value]
  BY DEF ValuesOf
<1>0. ListOf(list, ValuesOf(h, n + 1))
  OBVIOUS
<1> HIDE DEF n, g, V, W
<1>5. \A p \in V : ValuesOf(g, n + 2)[p] = ValuesOf(h, n + 1)[p]
  <2>1. TAKE p \in V
  <2>2. p \in W /\ g[p] = h[p]
    BY <1>1, <1>2, <1>3
  <2> QED BY <1>4, <2>2
<1>6. CASE c.type = "InputValue" /\ OpenAt(h, n + 1)
  <2>1. W = V \cup {n + 1}
    BY <1>2, <1>6
  <2>2. ValuesOf(g, n + 2)[n + 1] = new
    BY <1>1, <1>4, <2>1
  <2>3. ASSUME new \in T
        PROVE  ListOf(Append(list, ValuesOf(g, n + 2)[n + 1]), ValuesOf(g, n + 2))
    <3> DEFINE items == ValuesOf(h, n + 1)
               more == ValuesOf(g, n + 2)
    <3>1. /\ DOMAIN items \in PositionsIn(n) /\ ListOf(list, items)
          /\ DOMAIN more = DOMAIN items \cup {n + 1}
          /\ \A p \in DOMAIN items : more[p] = items[p]
          /\ more[n + 1] \in T
      BY <1>0, <1>3, <1>4, <1>5, <2>1, <2>2, <2>3
    <3> HIDE DEF items, more
    <3>2. ListOf(Append(list, more[n + 1]), more)
      BY <1>1, <3>1, ListGrows
    <3> QED BY <3>2 DEF more
  <2> QED BY <1>6, <2>2, <2>3 DEF n, g
<1>7. CASE ~(c.type = "InputValue" /\ OpenAt(h, n + 1))
  <2>1. W = V
    BY <1>2, <1>7
  <2>2. ListOf(list, ValuesOf(g, n + 2))
    BY <1>0, <1>4, <1>5, <2>1 DEF ListOf
  <2> QED BY <1>7, <2>2 DEF n, g
<1> QED BY <1>6, <1>7

-----------------------------------------------------------------------------
\* Every list holds what it should, also after an Unbind inside a Tick.
LEMMA ReceiveKeepsType ==
    ASSUME TypeOK, NEW c \in Command, NEW ok \in BOOLEAN, Receive(c, ok)
    PROVE  ComponentTypeOK'
<1>1. Host!Process(c, ok) /\ Dispatch(event', c) /\ late' = FALSE
  BY DEF Receive, Host!Receive
<1>2. UNCHANGED <<begun, connected, callbacks, InputBindings>>
  BY DEF Receive
<1>3. State' \in Host!HostStates
  BY <1>1 DEF Host!Process, Host!Acknowledge, Host!Broadcast, Host!Fail, Host!HostStates,
              TypeOK, ComponentTypeOK
<1>4. tick' \in {"loop", "failed"}
  BY <1>1 DEF Host!Process, Host!Acknowledge, Host!Broadcast, Host!Fail
<1>5. event' = "OnRegisterInput" => c.type = "RegisterInput"
  BY <1>1 DEF Host!Process, Host!Acknowledge, Host!Broadcast, Host!Fail, Host!None
<1>6. event' = "OnInputValue" => c.type = "InputValue"
  BY <1>1 DEF Host!Process, Host!Acknowledge, Host!Broadcast, Host!Fail, Host!None
<1>7. RegisteredInputs' \in Seq(Inputs)
  <2>1. CASE event' = "OnRegisterInput" /\ RegisteredInputs' =
               Append(RegisteredInputs, [id |-> c.id, label |-> c.label])
    <3>1. [id |-> c.id, label |-> c.label] \in Inputs
      BY <1>5, <2>1, ComponentAssumption DEF Inputs, OfType
    <3> QED BY <2>1, <3>1 DEF TypeOK, ComponentTypeOK
  <2>2. CASE RegisteredInputs' = << >> \/ RegisteredInputs' = RegisteredInputs
    BY <2>2, EmptySeq DEF TypeOK, ComponentTypeOK
  <2> QED
    BY <1>1, <2>1, <2>2 DEF Dispatch, HandleReset, HandleRegisterInput, HandleFrameStart,
       HandleInputValue, HandleFrameEnd, inputVars
<1>8. FrameInputValues' \in Seq(InputValues)
  <2>1. CASE event' = "OnInputValue" /\ FrameInputValues' =
               Append(FrameInputValues, [id |-> c.id, value |-> c.value])
    <3>1. [id |-> c.id, value |-> c.value] \in InputValues
      BY <1>6, <2>1 DEF InputValues, OfType
    <3> QED BY <2>1, <3>1 DEF TypeOK, ComponentTypeOK
  <2>2. CASE FrameInputValues' = << >> \/ FrameInputValues' = FrameInputValues
    BY <2>2, EmptySeq DEF TypeOK, ComponentTypeOK
  <2> QED
    BY <1>1, <2>1, <2>2 DEF Dispatch, HandleReset, HandleRegisterInput, HandleFrameStart,
       HandleInputValue, HandleFrameEnd, inputVars
<1> QED
  BY <1>1, <1>2, <1>3, <1>4, <1>7, <1>8 DEF TypeOK, ComponentTypeOK

LEMMA BindingsKeepType ==
    ASSUME TypeOK, Bind \/ UnbindDelegateForInput
    PROVE  InputBindings' \in Seq(Bindings)
<1>1. InputBindings \in Seq(Bindings)
  BY DEF TypeOK, ComponentTypeOK
<1>2. CASE Bind
  BY <1>1, <1>2 DEF Bind, BindDelegateForInput, Bindings
<1>3. CASE UnbindDelegateForInput
  <2>1. PICK S : InputBindings' = Only(InputBindings, S)
    BY <1>3 DEF UnbindDelegateForInput
  <2>2. Only(InputBindings, S) \in Seq(Bindings \cap S)
    BY <1>1, OnlyIsSeq
  <2>3. Seq(Bindings \cap S) \subseteq Seq(Bindings)
    OBVIOUS
  <2> QED BY <2>1, <2>2, <2>3
<1> QED BY <1>2, <1>3

LEMMA InitEstablishesType == Init => TypeOK
<1> SUFFICES ASSUME Init PROVE TypeOK
  OBVIOUS
<1>1. << >> \in Seq(Inputs) /\ << >> \in Seq(InputValues) /\ << >> \in Seq(Bindings)
      /\ << >> \in Seq(Command)
  BY EmptySeq
<1> QED BY <1>1 DEF Init, InitWith, TypeOK, ComponentTypeOK, Host!Init, Host!HostStates

LEMMA NextKeepsType == TypeOK /\ [Next]_vars => TypeOK'
<1> SUFFICES ASSUME TypeOK, [Next]_vars PROVE TypeOK'
  OBVIOUS
<1> USE DEF TypeOK, ComponentTypeOK
<1>1. CASE NewConnection
  <2>1. << >> \in Seq(Command)
    BY EmptySeq
  <2>2. /\ State' = "Reset" /\ late' = FALSE /\ tick' = tick /\ connected' = TRUE /\ callbacks' = TRUE
        /\ UNCHANGED <<begun, inputVars, InputBindings>>
        /\ log' = << >> /\ heard' = heard /\ connections' = connections + 1
    BY <1>1 DEF NewConnection, Connect, Host!Reset
  <2>3. ComponentTypeOK'
    BY <2>2 DEF inputVars, Host!HostStates
  <2>4. log' \in Seq(Command) /\ heard' \in Nat /\ connections' \in Nat
    BY <2>1, <2>2
  <2> QED BY <2>3, <2>4
<1>2. CASE Disconnect /\ UNCHANGED logVars
  BY <1>2 DEF Disconnect, Detach, logVars, inputVars
<1>3. CASE Bind \/ (UnbindDelegateForInput /\ UNCHANGED logVars)
  <2>1. /\ UNCHANGED <<hostVars, begun, connected, callbacks, inputVars, executed>>
        /\ UNCHANGED logVars
    BY <1>3, Zenon DEF Bind, BindDelegateForInput, UnbindDelegateForInput
  <2>2. InputBindings' \in Seq(Bindings)
    BY <1>3, BindingsKeepType
  <2> QED BY <2>1, <2>2 DEF hostVars, inputVars, logVars
<1>4. CASE BeginPlay /\ UNCHANGED logVars
  BY <1>4 DEF BeginPlay, hostVars, inputVars, logVars
<1>5. CASE TickComponent /\ UNCHANGED logVars
  BY <1>5 DEF TickComponent, Host!BeginTick, inputVars, logVars
<1>6. CASE BeginTurn /\ UNCHANGED logVars
  BY <1>6 DEF BeginTurn, Host!BeginTurn, inputVars, logVars
<1>7. CASE TickFailed /\ UNCHANGED logVars
  BY <1>7 DEF TickFailed, Detach, inputVars, logVars
<1>8. CASE HearNothing
  BY <1>8 DEF HearNothing, ReceiveNothing, Host!ReceiveNothing, inputVars, logVars
<1>9. CASE Hear
  <2>1. PICK c \in Command, ok \in BOOLEAN : Receive(c, ok) /\ log' = Append(log, c)
    BY <1>9 DEF Hear
  <2>2. ComponentTypeOK'
    BY <2>1, ReceiveKeepsType
  <2>3. log' \in Seq(Command)
    BY <2>1
  <2>4. heard' \in Nat /\ connections' \in Nat
    BY <1>9 DEF Hear
  <2> QED BY <2>2, <2>3, <2>4
<1>10. CASE UNCHANGED vars
  BY <1>10 DEF vars, componentVars, hostVars, inputVars, logVars
<1> QED
  BY <1>1, <1>2, <1>3, <1>4, <1>5, <1>6, <1>7, <1>8, <1>9, <1>10
  DEF Next, Blueprint, Engine

\* Types, also of the lists a Blueprint changes while they are in use.
THEOREM TypeCorrect == Spec => []TypeOK
BY InitEstablishesType, NextKeepsType, PTL DEF Spec

-----------------------------------------------------------------------------
\* What a command other than Reset does to a component that has seen one.
LEMMA Received ==
    ASSUME NEW c \in Command, NEW ok \in BOOLEAN, Receive(c, ok), callbacks,
           c.type # "Reset", tick' # "failed", NEW open \in BOOLEAN,
           State = IF open THEN "Frame" ELSE "Ready"
    PROVE  /\ State' = IF c.type = "StartFrame" \/ (open /\ c.type # "EndFrame")
                       THEN "Frame" ELSE "Ready"
           /\ RegisteredInputs' = IF c.type = "RegisterInput" /\ ~open
                                  THEN Append(RegisteredInputs, [id |-> c.id, label |-> c.label])
                                  ELSE RegisteredInputs
           /\ FrameInputValues' =
                IF c.type = "InputValue" /\ open
                THEN Append(FrameInputValues, [id |-> c.id, value |-> c.value])
                ELSE IF (c.type = "StartFrame" /\ ~open) \/ (c.type = "EndFrame" /\ open)
                THEN << >> ELSE FrameInputValues
<1>1. Host!Process(c, ok) /\ Dispatch(event', c)
  BY DEF Receive, Host!Receive
<1>2. CASE c.type = "Message"
  <2>1. event' = "OnMessage" /\ State' = State
    BY <1>1, <1>2 DEF Host!Process, Host!Broadcast, Host!Acknowledge, Host!Fail, Host!Handled
  <2> QED BY <1>1, <1>2, <2>1 DEF Dispatch, inputVars
<1>3. CASE c.type = "RegisterInput" /\ ~open
  <2>1. event' = "OnRegisterInput" /\ State' = State
    BY <1>1, <1>3 DEF Host!Process, Host!Broadcast, Host!Acknowledge, Host!Fail, Host!Handled
  <2> QED BY <1>1, <1>3, <2>1 DEF Dispatch, HandleRegisterInput, Host!None
<1>4. CASE c.type = "StartFrame" /\ ~open
  <2>1. event' = "OnFrameStart" /\ State' = "Frame"
    BY <1>1, <1>4 DEF Host!Process, Host!Broadcast, Host!Acknowledge, Host!Fail, Host!Handled
  <2> QED BY <1>1, <1>4, <2>1 DEF Dispatch, HandleFrameStart, Host!None
<1>5. CASE c.type = "InputValue" /\ open
  <2>1. event' = "OnInputValue" /\ State' = State
    BY <1>1, <1>5 DEF Host!Process, Host!Broadcast, Host!Acknowledge, Host!Fail, Host!Handled
  <2> QED BY <1>1, <1>5, <2>1 DEF Dispatch, HandleInputValue, Host!None
<1>6. CASE c.type = "EndFrame" /\ open
  <2>1. event' = "OnFrameEnd" /\ State' = "Ready"
    BY <1>1, <1>6 DEF Host!Process, Host!Broadcast, Host!Acknowledge, Host!Fail, Host!Handled
  <2> QED BY <1>1, <1>6, <2>1 DEF Dispatch, HandleFrameEnd, Host!None
<1>7. CASE ~Host!Handled(c)
  <2>1. event' = Host!None /\ State' = State
    BY <1>1, <1>7 DEF Host!Process, Host!Broadcast, Host!Acknowledge, Host!Fail, Host!Handled
  <2>2. UNCHANGED inputVars
    BY <1>1, <2>1 DEF Dispatch, Host!None
  <2> QED BY <1>7, <2>1, <2>2 DEF Host!Handled, inputVars
<1> QED
  BY <1>2, <1>3, <1>4, <1>5, <1>6, <1>7 DEF Host!Handled

LogInv ==
    /\ TypeOK
    /\ CallbacksBoundIffConnected
    /\ IsLast(log, LastReset(log))
    /\ LogDeterminesState

LEMMA HearKeepsLast ==
    ASSUME NEW h \in Seq(Command), IsLast(h, LastReset(h)), NEW c \in Command
    PROVE  LET g == Append(h, c)
           IN  /\ LastReset(g) = IF c.type = "Reset" THEN Len(h) + 1 ELSE LastReset(h)
               /\ IsLast(g, LastReset(g))
<1> DEFINE g == Append(h, c)
           r == IF c.type = "Reset" THEN Len(h) + 1 ELSE LastReset(h)
<1>1. g \in Seq(Command) /\ IsLast(g, r)
  BY LastOfAppend
<1> HIDE DEF g, r
<1>2. LastReset(g) = r
  BY <1>1, LastResetIs
<1> QED BY <1>1, <1>2 DEF g, r

LEMMA HearKeepsLists ==
    ASSUME LogInv, NEW c \in Command, NEW ok \in BOOLEAN, Receive(c, ok),
           log' = Append(log, c), tick' # "failed",
           LastReset(log) > 0, c.type # "Reset"
    PROVE  LogDeterminesState'
<1> DEFINE n == Len(log)
           open == OpenAt(log, n + 1)
           inputNew == [id |-> c.id, label |-> c.label]
           valueNew == [id |-> c.id, value |-> c.value]
<1>1. /\ connected /\ callbacks /\ connected' /\ tick = "receive"
      /\ log \in Seq(Command) /\ IsLast(log, LastReset(log)) /\ LastReset(log) \in Nat
  BY DEF LogInv, TypeOK, CallbacksBoundIffConnected, Receive, Host!Receive, IsLast
<1>2. /\ State = IF open THEN "Frame" ELSE "Ready"
      /\ ListOf(RegisteredInputs, InputsOf(log))
      /\ ListOf(FrameInputValues, ValuesOf(log, n + 1))
  BY <1>1 DEF LogInv, LogDeterminesState
<1>3. LastReset(log') = LastReset(log)
  BY <1>1, HearKeepsLast
<1>4. Len(log') = n + 1 /\ n \in Nat
  BY <1>1
<1>5. open \in BOOLEAN
  BY DEF OpenAt
<1>6. OpenAt(log', n + 2) <=> c.type = "StartFrame" \/ (open /\ c.type # "EndFrame")
  BY <1>1, OpenAfter
<1> HIDE DEF open, n, inputNew, valueNew
<1>7. /\ State' = IF c.type = "StartFrame" \/ (open /\ c.type # "EndFrame")
                  THEN "Frame" ELSE "Ready"
      /\ RegisteredInputs' = IF c.type = "RegisterInput" /\ ~open
                             THEN Append(RegisteredInputs, inputNew) ELSE RegisteredInputs
      /\ FrameInputValues' =
           IF c.type = "InputValue" /\ open THEN Append(FrameInputValues, valueNew)
           ELSE IF (c.type = "StartFrame" /\ ~open) \/ (c.type = "EndFrame" /\ open)
           THEN << >> ELSE FrameInputValues
  BY <1>1, <1>2, <1>5, Received DEF inputNew, valueNew
<1>8. ListOf(RegisteredInputs', InputsOf(log'))
  <2>1. RegisteredInputs \in Seq(Inputs)
    BY DEF LogInv, TypeOK, ComponentTypeOK
  <2>2. c.type = "RegisterInput" => inputNew \in Inputs
    BY ComponentAssumption DEF Inputs, OfType, inputNew
  <2>3. IF c.type = "RegisterInput" /\ ~open
        THEN inputNew \in Inputs => ListOf(Append(RegisteredInputs, inputNew), InputsOf(log'))
        ELSE ListOf(RegisteredInputs, InputsOf(log'))
    BY <1>1, <1>2, <2>1, InputsAfter DEF inputNew, open, n
  <2> QED BY <1>7, <2>2, <2>3
<1>9. ListOf(FrameInputValues', ValuesOf(log', n + 2))
  <2>1. FrameInputValues \in Seq(InputValues)
    BY DEF LogInv, TypeOK, ComponentTypeOK
  <2>2. c.type = "InputValue" => valueNew \in InputValues
    BY DEF InputValues, OfType, valueNew
  <2>3. c.type # "EndFrame" =>
          IF c.type = "InputValue" /\ open
          THEN valueNew \in InputValues =>
                 ListOf(Append(FrameInputValues, valueNew), ValuesOf(log', n + 2))
          ELSE ListOf(FrameInputValues, ValuesOf(log', n + 2))
    BY <1>1, <1>2, <2>1, ValuesAfter DEF valueNew, open, n
  <2>4. ~open => Values(log, n + 1) = {}
    BY <1>1, NoValuesWhileClosed DEF open, n
  <2>5. c.type = "EndFrame" => Values(log', n + 2) = {}
    BY <1>1, PositionsAfter DEF n
  <2>6. c.type = "StartFrame" /\ ~open => Values(log', n + 2) = {}
    <3>1. Values(log', n + 2) = Values(log, n + 1) \cup
             {p \in {n + 1} : c.type = "InputValue" /\ OpenAt(log, p)}
             \/ c.type = "EndFrame"
      BY <1>1, PositionsAfter DEF n
    <3> QED BY <2>4, <3>1
  <2>7. DOMAIN ValuesOf(log', n + 2) = Values(log', n + 2)
        /\ DOMAIN ValuesOf(log, n + 1) = Values(log, n + 1)
    BY DEF ValuesOf
  <2>8. CASE (c.type = "StartFrame" /\ ~open) \/ (c.type = "EndFrame" /\ open)
    BY <1>7, <2>5, <2>6, <2>7, <2>8, EmptyList
  <2>9. CASE c.type = "EndFrame" /\ ~open
    BY <1>2, <1>7, <2>4, <2>5, <2>7, <2>9 DEF ListOf
  <2>10. CASE c.type # "EndFrame" /\ ~(c.type = "StartFrame" /\ ~open)
    BY <1>7, <2>2, <2>3, <2>10
  <2> QED BY <2>8, <2>9, <2>10
<1> QED
  BY <1>1, <1>3, <1>4, <1>6, <1>7, <1>8, <1>9 DEF LogDeterminesState

LEMMA HearKeepsLogInv ==
    ASSUME LogInv, NEW c \in Command, NEW ok \in BOOLEAN, Receive(c, ok),
           log' = Append(log, c)
    PROVE  LogDeterminesState' /\ IsLast(log', LastReset(log'))
<1>1. /\ connected /\ callbacks /\ connected' /\ tick = "receive"
      /\ log \in Seq(Command) /\ IsLast(log, LastReset(log)) /\ LastReset(log) \in Nat
  BY DEF LogInv, TypeOK, CallbacksBoundIffConnected, Receive, Host!Receive, IsLast
<1>2. /\ LastReset(log') = IF c.type = "Reset" THEN Len(log) + 1 ELSE LastReset(log)
      /\ IsLast(log', LastReset(log'))
  BY <1>1, HearKeepsLast
<1>3. Len(log') = Len(log) + 1 /\ Len(log) \in Nat
  BY <1>1
<1>4. Host!Process(c, ok) /\ Dispatch(event', c)
  BY DEF Receive, Host!Receive
<1>5. CASE tick' = "failed"
  BY <1>2, <1>5 DEF LogDeterminesState
<1>6. CASE tick' # "failed" /\ c.type = "Reset"
  <2>1. State' = "Ready" /\ event' = "OnReset"
    BY <1>4, <1>6 DEF Host!Process, Host!Acknowledge, Host!Fail, Host!Handled
  <2>2. RegisteredInputs' = << >> /\ FrameInputValues' = << >>
    BY <1>1, <1>4, <2>1 DEF Dispatch, HandleReset, Host!None
  <2>3. LastReset(log') = Len(log')
    BY <1>2, <1>3, <1>6
  <2>4. ~OpenAt(log', Len(log') + 1)
    BY <1>3, <2>3 DEF OpenAt
  <2>5. Registrations(log') = {} /\ Values(log', Len(log') + 1) = {}
    BY <1>3, <2>3 DEF Registrations, Values
  <2>6. DOMAIN InputsOf(log') = {} /\ DOMAIN ValuesOf(log', Len(log') + 1) = {}
    BY <2>5 DEF InputsOf, ValuesOf
  <2>7. ListOf(RegisteredInputs', InputsOf(log'))
        /\ ListOf(FrameInputValues', ValuesOf(log', Len(log') + 1))
    BY <2>2, <2>6, EmptyList
  <2> QED BY <1>2, <1>3, <2>1, <2>3, <2>4, <2>7 DEF LogDeterminesState
<1>7. CASE tick' # "failed" /\ c.type # "Reset" /\ LastReset(log) = 0
  <2>1. State = "Reset"
    BY <1>1, <1>7 DEF LogInv, LogDeterminesState
  <2>2. State' = "Reset"
    BY <1>4, <1>7, <2>1 DEF Host!Process, Host!Acknowledge, Host!Broadcast, Host!Fail, Host!Handled
  <2> QED BY <1>2, <1>7, <2>2 DEF LogDeterminesState
<1>8. CASE tick' # "failed" /\ c.type # "Reset" /\ LastReset(log) > 0
  BY <1>2, <1>8, HearKeepsLists
<1> QED BY <1>1, <1>5, <1>6, <1>7, <1>8

LEMMA EmptyLog ==
    LastReset(<< >>) = 0 /\ IsLast(<< >>, 0)
<1>1. << >> \in Seq(Command) /\ IsLast(<< >>, 0)
  BY EmptySeq DEF IsLast
<1> QED BY <1>1, LastResetIs

LEMMA InitEstablishesLogInv == Init => LogInv
<1> SUFFICES ASSUME Init PROVE LogInv
  OBVIOUS
<1>1. TypeOK
  BY InitEstablishesType
<1>2. log = << >> /\ ~connected /\ ~callbacks
  BY DEF Init, InitWith
<1> QED BY <1>1, <1>2, EmptyLog DEF LogInv, CallbacksBoundIffConnected, LogDeterminesState

LEMMA NextKeepsLogInv == LogInv /\ Inv /\ [Next]_vars => LogInv'
<1> SUFFICES ASSUME LogInv, Inv, [Next]_vars PROVE LogInv'
  OBVIOUS
<1>1. TypeOK' /\ CallbacksBoundIffConnected'
  BY NextKeepsType, NextKeepsInv DEF LogInv, Inv
<1> SUFFICES LogDeterminesState' /\ IsLast(log', LastReset(log'))
  BY <1>1 DEF LogInv
<1>2. CASE NewConnection
  BY <1>2, EmptyLog DEF NewConnection, Connect, Host!Reset, LogDeterminesState
<1>3. CASE Hear
  <2>1. PICK c \in Command, ok \in BOOLEAN : Receive(c, ok) /\ log' = Append(log, c)
    BY <1>3 DEF Hear
  <2> QED BY <2>1, HearKeepsLogInv
<1>4. CASE /\ UNCHANGED <<State, log, inputVars>>
           /\ connected' /\ tick' # "failed" => connected /\ tick # "failed"
  BY <1>4 DEF LogInv, LogDeterminesState, inputVars
<1>5. CASE Disconnect /\ UNCHANGED logVars
  BY <1>4, <1>5 DEF Disconnect, Detach, logVars
<1>6. CASE Bind \/ (UnbindDelegateForInput /\ UNCHANGED logVars)
  <2>1. /\ UNCHANGED <<hostVars, begun, connected, callbacks, inputVars, executed>>
        /\ UNCHANGED logVars
    BY <1>6, Zenon DEF Bind, BindDelegateForInput, UnbindDelegateForInput
  <2> QED BY <1>4, <2>1 DEF hostVars, logVars
<1>7. CASE BeginPlay /\ UNCHANGED logVars
  BY <1>4, <1>7 DEF BeginPlay, hostVars, logVars
<1>8. CASE TickComponent /\ UNCHANGED logVars
  BY <1>4, <1>8 DEF TickComponent, Host!BeginTick, logVars
<1>9. CASE BeginTurn /\ UNCHANGED logVars
  BY <1>4, <1>9 DEF BeginTurn, Host!BeginTurn, logVars
<1>10. CASE TickFailed /\ UNCHANGED logVars
  BY <1>4, <1>10 DEF TickFailed, Detach, logVars
<1>11. CASE HearNothing
  BY <1>4, <1>11 DEF HearNothing, ReceiveNothing, Host!ReceiveNothing, logVars
<1>12. CASE UNCHANGED vars
  BY <1>4, <1>12 DEF vars, componentVars, hostVars, logVars
<1> QED
  BY <1>2, <1>3, <1>5, <1>6, <1>7, <1>8, <1>9, <1>10, <1>11, <1>12
  DEF Next, Blueprint, Engine

LEMMA LogInvIsInvariant == Spec => []LogInv
BY InitEstablishesLogInv, NextKeepsLogInv, InvIsInvariant, PTL DEF Spec

\* Whatever an earlier connection left behind, whatever was ignored and
\* whatever Blueprints did in between: after the last Reset the machine's
\* state, the inputs and the values of the frame are what was heard.
THEOREM LogIsState == Spec => []LogDeterminesState
<1>1. LogInv => LogDeterminesState
  BY DEF LogInv
<1> QED BY <1>1, LogInvIsInvariant, PTL

-----------------------------------------------------------------------------
\* Every place in a list is the place of a position.
LEMMA RankOnto ==
    ASSUME NEW n \in Nat, NEW P \in PositionsIn(n), NEW k \in 1..Cardinality(P)
    PROVE  \E p \in P : Rank(p, P) = k
<1> DEFINE f == [p \in P |-> Rank(p, P)]
           T == 1..Cardinality(P)
<1>1. /\ IsFiniteSet(P) /\ Cardinality(P) \in Nat
      /\ \A p \in P : Rank(p, P) \in T
  BY RankFacts
<1>2. ASSUME NEW p \in P, NEW q \in P, f[p] = f[q] PROVE p = q
  <2>1. ~(p < q) /\ ~(q < p)
    <3>1. Rank(p, P) = Rank(q, P) /\ Rank(p, P) \in Int
      BY <1>1, <1>2
    <3> QED BY <3>1, RankIncreases
  <2> QED BY <2>1 DEF PositionsIn
<1>3. f \in [P -> T]
  BY <1>1
<1>4. f \in Injection(P, T)
  BY <1>2, <1>3, Fun_IsInj
<1>5. IsFiniteSet(T) /\ Cardinality(T) = Cardinality(P)
  BY <1>1, FS_Interval
<1> HIDE DEF f, T
<1>6. f \in Surjection(P, T)
  BY <1>4, <1>5, FS_Injection
<1>7. \A j \in T : \E p \in P : f[p] = j
  BY <1>6, Fun_SurjectionProperties
<1> QED BY <1>7 DEF f, T

LEMMA RankInjective ==
    ASSUME NEW n \in Nat, NEW P \in PositionsIn(n), NEW p \in P, NEW q \in P,
           Rank(p, P) = Rank(q, P)
    PROVE  p = q
<1>1. Rank(p, P) \in Int
  BY RankFacts
<1>2. ~(p < q) /\ ~(q < p)
  BY <1>1, RankIncreases
<1> QED BY <1>2 DEF PositionsIn

\* A set of triples is finite if their parts come from finite sets.
LEMMA FiniteTriples ==
    ASSUME NEW I, IsFiniteSet(I), NEW A, IsFiniteSet(A), NEW B, IsFiniteSet(B),
           NEW E \in SUBSET [input : I, at : A, binding : B]
    PROVE  IsFiniteSet(E)
<1> DEFINE T == (I \X A) \X B
           f == [t \in E |-> <<<<t.input, t.at>>, t.binding>>]
<1>1. IsFiniteSet(T)
  BY FS_Product
<1>2. f \in [E -> T]
  OBVIOUS
<1>3. ASSUME NEW s \in E, NEW t \in E, f[s] = f[t] PROVE s = t
  <2>1. s.input = t.input /\ s.at = t.at /\ s.binding = t.binding
    BY <1>3
  <2>2. /\ s = [input |-> s.input, at |-> s.at, binding |-> s.binding]
        /\ t = [input |-> t.input, at |-> t.at, binding |-> t.binding]
    OBVIOUS
  <2> QED BY <2>1, <2>2
<1>4. f \in Injection(E, T)
  BY <1>2, <1>3, Fun_IsInj
<1> QED BY <1>1, <1>4, FS_Injection

\* Nothing has been broadcast yet when a command is received, so that the
\* end of a frame is seen in the step that ends it and in no other.
QuietBeforeReceive == tick = "receive" => event = Host!None

LEMMA QuietIsInvariant == Spec => []QuietBeforeReceive
<1>1. Init => QuietBeforeReceive
  BY DEF Init, InitWith, Host!Init, QuietBeforeReceive
<1>2. ASSUME QuietBeforeReceive, [Next]_vars PROVE QuietBeforeReceive'
  <2> USE <1>2 DEF QuietBeforeReceive
  <2>1. CASE NewConnection
    BY <2>1 DEF NewConnection, Connect, InBlueprint, Host!Reset
  <2>2. CASE Disconnect
    BY <2>2 DEF Disconnect, InBlueprint
  <2>3. CASE Bind \/ UnbindDelegateForInput
    <3>1. UNCHANGED hostVars
      BY <2>3, Zenon DEF Bind, BindDelegateForInput, UnbindDelegateForInput
    <3> QED BY <3>1 DEF hostVars
  <2>4. CASE BeginPlay
    BY <2>4 DEF BeginPlay, hostVars
  <2>5. CASE TickComponent
    BY <2>5 DEF TickComponent, Host!BeginTick
  <2>6. CASE BeginTurn
    BY <2>6 DEF BeginTurn, Host!BeginTurn
  <2>7. CASE TickFailed
    BY <2>7 DEF TickFailed
  <2>8. CASE HearNothing
    BY <2>8 DEF HearNothing, ReceiveNothing, Host!ReceiveNothing
  <2>9. CASE Hear
    BY <2>9 DEF Hear, Receive, Host!Receive, Host!Process, Host!Acknowledge,
       Host!Broadcast, Host!Fail
  <2>10. CASE UNCHANGED vars
    BY <2>10 DEF vars, componentVars, hostVars
  <2> QED
    BY <1>2, <2>1, <2>2, <2>3, <2>4, <2>5, <2>6, <2>7, <2>8, <2>9, <2>10
    DEF Next, Blueprint, Engine
<1> QED BY <1>1, <1>2, PTL DEF Spec

\* The triples of a log's registrations R, its values V and some bindings
\* that belong together, and what lists of theirs execute.
Triples(h, R, V, bindings, d, u) ==
    {t \in [input : R, at : V, binding : DOMAIN bindings] :
        /\ h[t.input].id = h[t.at].id /\ h[t.at].value = u
        /\ bindings[t.binding] = [label |-> h[t.input].label, delegate |-> d]}

Executed(inputs, values, bindings, d, u) ==
    {x \in Deliveries(inputs, values, bindings) : x.delegate = d /\ x.value = u}

InputsAt(h, R) == [p \in R |-> [id |-> h[p].id, label |-> h[p].label]]
ValuesAt(h, V) == [p \in V |-> [id |-> h[p].id, value |-> h[p].value]]

\* Lists that hold what a log says, and bindings, execute what the log says:
\* the places of a registration and a value in their lists make a triple of
\* the log and a meeting of the lists out of each other.
LEMMA MeetingsMatch ==
    ASSUME NEW h, NEW n \in Nat,
           NEW R \in PositionsIn(n), NEW V \in PositionsIn(n),
           NEW inputs, NEW values, NEW bindings \in Seq(Bindings), NEW d, NEW u,
           ListOf(inputs, InputsAt(h, R)), ListOf(values, ValuesAt(h, V)),
           DOMAIN inputs = 1..Len(inputs), DOMAIN values = 1..Len(values)
    PROVE  Cardinality(Executed(inputs, values, bindings, d, u))
             = Cardinality(Triples(h, R, V, bindings, d, u))
<1> DEFINE X == {x \in Deliveries(inputs, values, bindings) :
                    x.delegate = d /\ x.value = u}
           E == {t \in [input : R, at : V, binding : DOMAIN bindings] :
                    /\ h[t.input].id = h[t.at].id /\ h[t.at].value = u
                    /\ bindings[t.binding] =
                         [label |-> h[t.input].label, delegate |-> d]}
           M(t) == [input |-> Rank(t.input, R), at |-> Rank(t.at, V), binding |-> t.binding]
           F == [t \in E |-> [delegate |-> d, value |-> u, meeting |-> M(t)]]
<1>1. /\ DOMAIN inputs = 1..Cardinality(R)
      /\ \A p \in R : /\ Rank(p, R) \in DOMAIN inputs
                      /\ inputs[Rank(p, R)] = [id |-> h[p].id, label |-> h[p].label]
  <2>1. /\ Len(inputs) = Cardinality(R)
        /\ \A p \in R : inputs[Rank(p, R)] = [id |-> h[p].id, label |-> h[p].label]
    BY DEF ListOf, InputsAt, ValuesAt
  <2> QED BY <2>1, RankFacts
<1>2. /\ DOMAIN values = 1..Cardinality(V)
      /\ \A p \in V : /\ Rank(p, V) \in DOMAIN values
                      /\ values[Rank(p, V)] = [id |-> h[p].id, value |-> h[p].value]
  <2>1. /\ Len(values) = Cardinality(V)
        /\ \A p \in V : values[Rank(p, V)] = [id |-> h[p].id, value |-> h[p].value]
    BY DEF ListOf, InputsAt, ValuesAt
  <2> QED BY <2>1, RankFacts
<1>3. \A b \in DOMAIN bindings :
         bindings[b] = [label |-> bindings[b].label, delegate |-> bindings[b].delegate]
  <2>1. \A b \in DOMAIN bindings : bindings[b] \in Bindings
    OBVIOUS
  <2>2. \A x \in Bindings : x = [label |-> x.label, delegate |-> x.delegate]
    BY DEF Bindings
  <2> QED BY <2>1, <2>2
<1>4. ASSUME NEW t \in E PROVE F[t] \in X
  <2>0. /\ t.input \in R /\ t.at \in V /\ t.binding \in DOMAIN bindings
        /\ h[t.input].id = h[t.at].id /\ h[t.at].value = u
        /\ bindings[t.binding].label = h[t.input].label
        /\ bindings[t.binding].delegate = d
    OBVIOUS
  <2> HIDE DEF E
  <2>4. /\ inputs[Rank(t.input, R)].id = h[t.input].id
        /\ inputs[Rank(t.input, R)].label = h[t.input].label
        /\ values[Rank(t.at, V)].id = h[t.at].id
        /\ values[Rank(t.at, V)].value = h[t.at].value
        /\ Rank(t.input, R) \in DOMAIN inputs /\ Rank(t.at, V) \in DOMAIN values
    <3>1. inputs[Rank(t.input, R)] = [id |-> h[t.input].id, label |-> h[t.input].label]
          /\ Rank(t.input, R) \in DOMAIN inputs
      BY <1>1, <2>0
    <3>2. values[Rank(t.at, V)] = [id |-> h[t.at].id, value |-> h[t.at].value]
          /\ Rank(t.at, V) \in DOMAIN values
      BY <1>2, <2>0
    <3> QED BY <3>1, <3>2
  <2>1. M(t) \in Meetings(inputs, values, bindings)
    BY <2>0, <2>4 DEF Meetings
  <2>2. bindings[M(t).binding].delegate = d /\ values[M(t).at].value = u
    BY <2>0, <2>4
  <2>3. F[t] \in Deliveries(inputs, values, bindings)
    BY <2>1, <2>2 DEF Deliveries
  <2> QED BY <2>3
<1>5. ASSUME NEW s \in E, NEW t \in E, F[s] = F[t] PROVE s = t
  <2>1. M(s) = M(t)
    <3>1. F[s].meeting = F[t].meeting
      BY <1>5
    <3> QED BY <3>1
  <2>2. Rank(s.input, R) = Rank(t.input, R) /\ Rank(s.at, V) = Rank(t.at, V)
        /\ s.binding = t.binding
    BY <2>1
  <2>3. s.input = t.input /\ s.at = t.at
    BY <2>2, RankInjective
  <2>4. /\ s = [input |-> s.input, at |-> s.at, binding |-> s.binding]
        /\ t = [input |-> t.input, at |-> t.at, binding |-> t.binding]
    OBVIOUS
  <2> QED BY <2>2, <2>3, <2>4
<1>6. ASSUME NEW x \in X PROVE \E t \in E : F[t] = x
  <2>1. PICK m \in Meetings(inputs, values, bindings) :
           x = [delegate |-> bindings[m.binding].delegate, value |-> values[m.at].value,
                meeting |-> m]
    BY DEF Deliveries
  <2>2. /\ m = [input |-> m.input, at |-> m.at, binding |-> m.binding]
        /\ m.input \in DOMAIN inputs /\ m.at \in DOMAIN values /\ m.binding \in DOMAIN bindings
        /\ inputs[m.input].id = values[m.at].id
        /\ bindings[m.binding].label = inputs[m.input].label
    BY DEF Meetings
  <2>3. PICK p \in R : Rank(p, R) = m.input
    BY <1>1, <2>2, RankOnto
  <2>4. PICK q \in V : Rank(q, V) = m.at
    BY <1>2, <2>2, RankOnto
  <2>5. /\ inputs[m.input] = [id |-> h[p].id, label |-> h[p].label]
        /\ values[m.at] = [id |-> h[q].id, value |-> h[q].value]
    BY <1>1, <1>2, <2>3, <2>4
  <2>6. x.delegate = d /\ x.value = u /\ x.meeting = m
    BY <2>1
  <2>7. bindings[m.binding].delegate = d /\ h[q].value = u /\ x = [delegate |-> d, value |-> u, meeting |-> m]
    BY <2>1, <2>5, <2>6
  <2> DEFINE t == [input |-> p, at |-> q, binding |-> m.binding]
  <2>8. t \in E
    BY <1>3, <2>2, <2>5, <2>7
  <2>9. M(t) = m
    BY <2>2, <2>3, <2>4
  <2>10. F[t] = x
    BY <2>7, <2>8, <2>9
  <2> QED BY <2>8, <2>10
<1>7. IsFiniteSet(E)
  <2>1. IsFiniteSet(R) /\ IsFiniteSet(V)
    BY RankFacts
  <2>2. IsFiniteSet(DOMAIN bindings)
    <3>1. DOMAIN bindings = 1..Len(bindings) /\ Len(bindings) \in Int /\ 1 \in Int
      OBVIOUS
    <3> QED BY <3>1, FS_Interval
  <2>3. E \in SUBSET [input : R, at : V, binding : DOMAIN bindings]
    OBVIOUS
  <2> HIDE DEF E
  <2> QED BY <2>1, <2>2, <2>3, FiniteTriples
<1> HIDE DEF E, X
<1>8. F \in [E -> X]
  BY <1>4
<1> HIDE DEF F
<1>9. F \in Bijection(E, X)
  BY <1>5, <1>6, <1>8, Fun_IsBij
<1>10. ExistsBijection(E, X)
  BY <1>9 DEF ExistsBijection
<1>11. Cardinality(X) = Cardinality(E)
  BY <1>7, <1>10, FS_Bijection
<1> QED BY <1>11 DEF E, X, Executed, Triples

\* What the end of a frame executes.
LEMMA FrameEndMatches ==
    ASSUME LogInv, QuietBeforeReceive, [Next]_vars, tick = "receive", event' = "OnFrameEnd"
    PROVE  AllExecuted'
<1> DEFINE n == Len(log)
           R == Registrations(log)
           V == Values(log, n + 1)
<1>1. event = Host!None
  BY DEF QuietBeforeReceive
<1>2. Hear
  <2>1. ~NewConnection /\ ~Disconnect /\ ~TickComponent /\ ~BeginTurn /\ ~TickFailed
    BY DEF NewConnection, Connect, Disconnect, InBlueprint, TickComponent, Host!BeginTick,
           BeginTurn, Host!BeginTurn, TickFailed
  <2>2. ~HearNothing
    BY DEF HearNothing, ReceiveNothing, Host!ReceiveNothing, Host!None
  <2>3. ~BeginPlay /\ ~UNCHANGED vars
    BY <1>1 DEF BeginPlay, vars, componentVars, hostVars, Host!None
  <2>4. ~Bind /\ ~UnbindDelegateForInput
    BY DEF Bind, BindDelegateForInput, UnbindDelegateForInput, InBlueprint
  <2> QED BY <2>1, <2>2, <2>3, <2>4 DEF Next, Blueprint, Engine
<1>3. PICK c \in Command, ok \in BOOLEAN : Receive(c, ok) /\ log' = Append(log, c)
  BY <1>2 DEF Hear
<1>4. /\ Host!Process(c, ok) /\ Dispatch("OnFrameEnd", c)
      /\ connected /\ callbacks /\ InputBindings' = InputBindings
  BY <1>3 DEF Receive, Host!Receive, LogInv, CallbacksBoundIffConnected
<1>5. State = "Frame" /\ c.type = "EndFrame"
  BY <1>4 DEF Host!Process, Host!Acknowledge, Host!Broadcast, Host!Fail, Host!Handled, Host!None
<1>6. executed' = Deliveries(RegisteredInputs, FrameInputValues, InputBindings)
  BY <1>4 DEF Dispatch, HandleFrameEnd, Host!None
<1>7. /\ log \in Seq(Command) /\ IsLast(log, LastReset(log)) /\ n \in Nat
      /\ RegisteredInputs \in Seq(Inputs) /\ FrameInputValues \in Seq(InputValues)
      /\ InputBindings \in Seq(Bindings)
  BY DEF LogInv, TypeOK, ComponentTypeOK
<1>8. /\ ListOf(RegisteredInputs, InputsOf(log))
      /\ ListOf(FrameInputValues, ValuesOf(log, n + 1))
  <2>1. LastReset(log) > 0
    <3>1. LastReset(log) # 0 /\ LastReset(log) \in Nat
      BY <1>4, <1>5, <1>7 DEF LogInv, LogDeterminesState, IsLast
    <3> QED BY <3>1
  <2> QED BY <1>4, <2>1 DEF LogInv, LogDeterminesState
<1>9. /\ Registrations(log') = R /\ Values(log', Len(log')) = V
      /\ \A p \in 1..n : log'[p] = log[p]
  <2>1. /\ Registrations(log') = R \cup {p \in {n + 1} :
               c.type = "RegisterInput" /\ ~OpenAt(log, p)}
        /\ Values(log', n + 1) = V
    BY <1>3, <1>5, <1>7, PositionsAfter
  <2>2. Len(log') = n + 1 /\ \A p \in 1..n : log'[p] = log[p]
    BY <1>3, <1>7
  <2> QED BY <1>5, <2>1, <2>2
<1>10. R \in SUBSET (1..n) /\ V \in SUBSET (1..n)
  <2>1. LastReset(log) \in Nat
    BY <1>7 DEF IsLast
  <2> QED BY <1>7, <2>1 DEF Registrations, Values
<1>11. SUFFICES ASSUME NEW d, NEW u
                PROVE  Cardinality(Executions(d, u)') = Cardinality(Expected(d, u)')
  BY DEF AllExecuted
<1>12. Executions(d, u)' = Executed(RegisteredInputs, FrameInputValues, InputBindings, d, u)
  BY <1>6 DEF Executions, Executed
<1>13. Expected(d, u)' = Triples(log, R, V, InputBindings, d, u)
  BY <1>4, <1>9, <1>10 DEF Expected, Triples
<1>14. Cardinality(Executed(RegisteredInputs, FrameInputValues, InputBindings, d, u))
         = Cardinality(Triples(log, R, V, InputBindings, d, u))
  <2>1. R \in PositionsIn(n) /\ V \in PositionsIn(n)
    BY <1>10 DEF PositionsIn
  <2>2. /\ ListOf(RegisteredInputs, InputsAt(log, R))
        /\ ListOf(FrameInputValues, ValuesAt(log, V))
    BY <1>8 DEF InputsOf, ValuesOf, InputsAt, ValuesAt
  <2>3. DOMAIN RegisteredInputs = 1..Len(RegisteredInputs)
        /\ DOMAIN FrameInputValues = 1..Len(FrameInputValues)
    BY <1>7
  <2> HIDE DEF R, V, n
  <2> QED BY <1>7, <2>1, <2>2, <2>3, MeetingsMatch
<1> QED BY <1>12, <1>13, <1>14

\* Nothing of another frame or session is executed, nothing is lost, and
\* nothing is executed twice, for lists of any length.
THEOREM DeliveriesAreOfTheLog == Spec => DeliveriesMatchLog
<1>1. LogInv /\ QuietBeforeReceive /\ [Next]_vars
        => [tick = "receive" /\ event' = "OnFrameEnd" => AllExecuted']_vars
  BY FrameEndMatches
<1> QED
  BY <1>1, LogInvIsInvariant, QuietIsInvariant, PTL DEF Spec, DeliveriesMatchLog

=============================================================================
