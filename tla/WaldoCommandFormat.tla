------------------------- MODULE WaldoCommandFormat -------------------------
(***************************************************************************)
(* The wire format of a Waldo command and the parser's view of it:         *)
(*                                                                         *)
(*      Guard | type | size | data[0] ... data[size - 1]                   *)
(*                                                                         *)
(* Every operator is a pure function of a sequence of bytes.  The code     *)
(* fixes the guard to "WALDO" and a byte to 0..255; nothing below depends  *)
(* on either, so both are parameters.                                      *)
(***************************************************************************)
EXTENDS Naturals, Sequences

CONSTANTS
    Byte,       \* the values of a uint8
    Guard       \* the bytes every command starts with

ASSUME FormatAssumption ==
    /\ Byte \subseteq Nat
    /\ Guard \in Seq(Byte)
    /\ Guard # << >>

CommandHeaderSize == 2          \* type and size

\* The offset of the size byte, counted from 1.
SizeIndex == Len(Guard) + CommandHeaderSize

From(s, i) == SubSeq(s, i, Len(s))

Encode(c) == Guard \o <<c.type, Len(c.data)>> \o c.data

\* s starts with the guard, as far as s reaches.
HasValidGuard(s) == \A i \in 1..Len(Guard) : i <= Len(s) => s[i] = Guard[i]

(***************************************************************************)
(* The code removes the first byte until what is left starts like a guard  *)
(* or is empty, so it keeps the longest suffix that does.                  *)
(***************************************************************************)
IsStart(s, i) ==
    /\ i \in 1..(Len(s) + 1)
    /\ HasValidGuard(From(s, i))
    /\ \A j \in 1..(i - 1) : ~HasValidGuard(From(s, j))

\* A plausible slip the source's own @note invites: drop everything at once.
SkipToGuardDropsAll(s) == IF HasValidGuard(s) THEN s ELSE << >>

SkipToGuard(s) == From(s, CHOOSE i \in 1..(Len(s) + 1) : IsStart(s, i))

CommandSize(s) == SizeIndex + s[SizeIndex]

IsReadyToParseCommand(s) ==
    /\ Len(s) >= SizeIndex
    /\ Len(s) >= CommandSize(s)

ParseCommand(s) ==
    [type |-> s[Len(Guard) + 1],
     data |-> SubSeq(s, SizeIndex + 1, CommandSize(s))]

(***************************************************************************)
(* A reference parser, written over a whole byte string at once: scan for  *)
(* the guard, cut out a complete command, go on after it.  It defines what *)
(* the incremental parser ought to deliver however the bytes arrive.       *)
(***************************************************************************)
Decode(s) ==
    LET from[i \in 1..(Len(s) + 1)] ==
            IF i > Len(s) THEN << >>
            ELSE IF ~HasValidGuard(From(s, i)) THEN from[i + 1]
            ELSE IF ~IsReadyToParseCommand(From(s, i)) THEN << >>
            ELSE <<ParseCommand(From(s, i))>>
                    \o from[i + CommandSize(From(s, i))]
    IN  from[1]

=============================================================================
