--------------------------- MODULE WaldoHostTimer ---------------------------
(***************************************************************************)
(* The clock of UWaldoHostStateMachine::Tick.                              *)
(*                                                                         *)
(* Each turn of the loop reads the clock, tries to receive a command, and  *)
(* if there is none compares the clock with the time of the last command.  *)
(* GetTime() returns the platform's double as a float: what the code sees  *)
(* of an instant t is Float[t], off by up to half the spacing of floats of *)
(* that magnitude.  The spacing grows with the clock.                      *)
(***************************************************************************)
EXTENDS Integers

CONSTANTS
    MaxTimeBetweenCommands,     \* 0.5f in the code
    Quantum,                    \* spacing of the floats near the current time
    Float,                      \* the float the clock shows at an instant
    MaxTime                     \* bound: the instants modelled are 0..MaxTime

ASSUME TimerAssumption ==
    /\ MaxTimeBetweenCommands \in Nat
    /\ Quantum \in Nat
    /\ MaxTime \in Nat
    /\ Float \in [0..MaxTime -> Int]
    /\ \A t \in 0..MaxTime : /\ 2 * (Float[t] - t) <= Quantum
                             /\ 2 * (t - Float[t]) <= Quantum

VARIABLES
    now,                \* the platform's clock
    phase,              \* "idle": outside Tick; "receive": in a turn of the loop
    Time,               \* the local of Tick: Float of the instant it was read
    LastCommandTime,
    readAt,             \* history: the instant at which Time was read
    lastSign,           \* history: the instant LastCommandTime stands for
    resetSent           \* history: the last step sent a Reset

vars == <<now, phase, Time, LastCommandTime, readAt, lastSign, resetSent>>

Init ==
    /\ now \in 0..MaxTime
    /\ phase = "idle"
    /\ Time = Float[now] /\ readAt = now
    /\ LastCommandTime = Float[now] /\ lastSign = now
    /\ resetSent = FALSE

GetTime ==
    /\ phase' = "receive"
    /\ Time' = Float[now]
    /\ readAt' = now

\* Reset(port), called by Connect.
Reset ==
    /\ phase = "idle"
    /\ LastCommandTime' = Float[now]
    /\ lastSign' = now
    /\ resetSent' = FALSE
    /\ UNCHANGED <<now, phase, Time, readAt>>

BeginTick ==
    /\ phase = "idle"
    /\ GetTime
    /\ resetSent' = FALSE
    /\ UNCHANGED <<now, LastCommandTime, lastSign>>

\* A command was received: whatever it is, it counts as a sign of life.
CommandReceived ==
    /\ phase = "receive"
    /\ LastCommandTime' = Time
    /\ lastSign' = readAt
    /\ resetSent' = FALSE
    /\ GetTime
    /\ UNCHANGED now

\* The slip of comparing with the end of the second interval.
ExpiredLate == Time - LastCommandTime > 3 * MaxTimeBetweenCommands

Expired == Time - LastCommandTime > MaxTimeBetweenCommands

\* The slip of restarting the wait only when a command comes.
NothingReceivedKeepsTime ==
    /\ phase = "receive"
    /\ phase' = "idle"
    /\ resetSent' = Expired
    /\ lastSign' = IF Expired THEN readAt ELSE lastSign
    /\ UNCHANGED <<now, Time, readAt, LastCommandTime>>

NothingReceived ==
    /\ phase = "receive"
    /\ phase' = "idle"
    /\ resetSent' = Expired
    /\ IF Expired
         THEN LastCommandTime' = Time /\ lastSign' = readAt
         ELSE UNCHANGED <<LastCommandTime, lastSign>>
    /\ UNCHANGED <<now, Time, readAt>>

Elapse ==
    /\ \E t \in (now + 1)..MaxTime : now' = t
    /\ UNCHANGED <<phase, Time, LastCommandTime, readAt, lastSign, resetSent>>

Next == Reset \/ BeginTick \/ CommandReceived \/ NothingReceived \/ Elapse

Spec == Init /\ [][Next]_vars

-----------------------------------------------------------------------------
TypeOK ==
    /\ now \in 0..MaxTime /\ readAt \in 0..MaxTime /\ lastSign \in 0..MaxTime
    /\ phase \in {"idle", "receive"}
    /\ Time \in Int /\ LastCommandTime \in Int
    /\ resetSent \in BOOLEAN

Silence == readAt - lastSign

(***************************************************************************)
(* A device is told to reset only after a silence longer than the limit    *)
(* less one quantum of the clock: the state machine is never more          *)
(* impatient than that, however the loop and the clock interleave, and     *)
(* repeated resets are at least that far apart.                            *)
(***************************************************************************)
ResetNotEarly ==
    [][(phase = "receive" /\ phase' = "idle" /\ resetSent')
            => Silence > MaxTimeBetweenCommands - Quantum]_vars

(***************************************************************************)
(* A turn of the loop that finds nothing to receive never lets a silence   *)
(* longer than the limit plus one quantum pass.                            *)
(***************************************************************************)
ResetNotMissed ==
    [][(phase = "receive" /\ phase' = "idle" /\ ~resetSent')
            => Silence <= MaxTimeBetweenCommands + Quantum]_vars

=============================================================================
