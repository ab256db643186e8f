------------------------ MODULE WaldoHostTimerProofs ------------------------
(***************************************************************************)
(* For every limit, every clock and every rounding of it to within half a  *)
(* quantum: a Reset is sent neither a quantum too early nor a quantum too  *)
(* late.  Floats are what makes the quantum: it is the distance between    *)
(* two of them at the clock's magnitude.                                   *)
(***************************************************************************)
EXTENDS WaldoHostTimer, TLAPS

(***************************************************************************)
(* The inductive invariant: both times are readings of the same clock, of  *)
(* instants already past.                                                  *)
(***************************************************************************)
Inv ==
    /\ now \in 0..MaxTime /\ readAt \in 0..MaxTime /\ lastSign \in 0..MaxTime
    /\ readAt <= now /\ lastSign <= now
    /\ Time = Float[readAt]
    /\ LastCommandTime = Float[lastSign]

LEMMA InitEstablishesInv == Init => Inv
  BY DEF Init, Inv

LEMMA NextKeepsInv == Inv /\ [Next]_vars => Inv'
  <1> SUFFICES ASSUME Inv, [Next]_vars PROVE Inv'
    OBVIOUS
  <1> USE DEF Inv
  <1>1. CASE Reset
    BY <1>1 DEF Reset
  <1>2. CASE BeginTick
    BY <1>2 DEF BeginTick, GetTime
  <1>3. CASE CommandReceived
    BY <1>3 DEF CommandReceived, GetTime
  <1>4. CASE NothingReceived
    <2>1. CASE Expired
      BY <1>4, <2>1 DEF NothingReceived
    <2>2. CASE ~Expired
      BY <1>4, <2>2 DEF NothingReceived
    <2> QED
      BY <2>1, <2>2
  <1>5. CASE Elapse
    <2>1. PICK t \in (now + 1)..MaxTime : now' = t
      BY <1>5 DEF Elapse
    <2>2. now \in Nat /\ now' \in Nat /\ now' \in 0..MaxTime /\ now <= now'
      BY <2>1, TimerAssumption
    <2>3. readAt \in Nat /\ lastSign \in Nat
      BY TimerAssumption
    <2>4. readAt <= now' /\ lastSign <= now'
      <3>1. readAt <= now /\ lastSign <= now
        OBVIOUS
      <3> HIDE DEF Inv
      <3> QED
        BY <2>2, <2>3, <3>1
    <2>5. UNCHANGED <<Time, LastCommandTime, readAt, lastSign>>
      BY <1>5 DEF Elapse
    <2> QED
      BY <2>2, <2>4, <2>5
  <1>6. CASE UNCHANGED vars
    BY <1>6 DEF vars
  <1> QED
    BY <1>1, <1>2, <1>3, <1>4, <1>5, <1>6 DEF Next

LEMMA InvIsInvariant == Spec => []Inv
  BY InitEstablishesInv, NextKeepsInv, PTL DEF Spec

(***************************************************************************)
(* What the code computes is within a quantum of what really elapsed.      *)
(***************************************************************************)
LEMMA ElapsedTimeError ==
    ASSUME Inv
    PROVE  /\ Time \in Int /\ LastCommandTime \in Int /\ Silence \in Int
           /\ Time - LastCommandTime <= Silence + Quantum
           /\ Silence <= Time - LastCommandTime + Quantum
  <1> DEFINE a == Float[readAt]
             b == Float[lastSign]
  <1>1. readAt \in 0..MaxTime /\ lastSign \in 0..MaxTime
    BY DEF Inv
  <1>2. /\ 2 * (a - readAt) <= Quantum /\ 2 * (readAt - a) <= Quantum
        /\ 2 * (b - lastSign) <= Quantum /\ 2 * (lastSign - b) <= Quantum
    BY <1>1, TimerAssumption
  <1>3. a \in Int /\ b \in Int /\ Quantum \in Int
    BY <1>1, TimerAssumption
  <1>4. Time = a /\ LastCommandTime = b
    BY DEF Inv
  <1>5. readAt \in Int /\ lastSign \in Int
    BY <1>1, TimerAssumption
  <1> HIDE DEF a, b
  <1>6. /\ a - b <= (readAt - lastSign) + Quantum
        /\ (readAt - lastSign) <= (a - b) + Quantum
    BY <1>2, <1>3, <1>5
  <1> QED
    BY <1>3, <1>4, <1>5, <1>6 DEF Silence

(***************************************************************************)
(* Only a turn of the loop that received nothing ends Tick or sends.       *)
(***************************************************************************)
LEMMA OnlyNothingReceived ==
    ASSUME [Next]_vars, phase = "receive", phase' = "idle"
    PROVE  NothingReceived
  BY DEF Next, Reset, BeginTick, CommandReceived, GetTime, Elapse, vars

(***************************************************************************)
(* Every execution tells the device to reset only after a silence longer   *)
(* than the limit less a quantum.                                          *)
(***************************************************************************)
THEOREM ResetIsNotEarly == Spec => ResetNotEarly
  <1>1. ASSUME Inv, [Next]_vars, phase = "receive", phase' = "idle", resetSent'
        PROVE  Silence > MaxTimeBetweenCommands - Quantum
    <2>1. Expired
      BY <1>1, OnlyNothingReceived DEF NothingReceived
    <2>2. Time - LastCommandTime > MaxTimeBetweenCommands
      BY <2>1 DEF Expired
    <2> QED
      BY <1>1, <2>2, ElapsedTimeError, TimerAssumption
  <1> QED
    BY <1>1, InvIsInvariant, PTL DEF Spec, ResetNotEarly

(***************************************************************************)
(* Every execution that finds nothing to receive after a silence longer    *)
(* than the limit plus a quantum tells the device to reset.                *)
(***************************************************************************)
THEOREM ResetIsNotMissed == Spec => ResetNotMissed
  <1>1. ASSUME Inv, [Next]_vars, phase = "receive", phase' = "idle", ~resetSent'
        PROVE  Silence <= MaxTimeBetweenCommands + Quantum
    <2>1. ~Expired
      BY <1>1, OnlyNothingReceived DEF NothingReceived
    <2>2. ~ (Time - LastCommandTime > MaxTimeBetweenCommands)
      BY <2>1 DEF Expired
    <2> QED
      BY <1>1, <2>2, ElapsedTimeError, TimerAssumption
  <1> QED
    BY <1>1, InvIsInvariant, PTL DEF Spec, ResetNotMissed

=============================================================================
