-------------------- MODULE WaldoCommandByteStreamProofs --------------------
(***************************************************************************)
(* For every guard, every alphabet of bytes and every set of commands: the *)
(* parser's buffer never holds more than one command, and skipping noise   *)
(* never skips a guard.                                                    *)
(***************************************************************************)
EXTENDS WaldoCommandByteStream, SequenceTheorems, WellFoundedInduction, TLAPS

Less == {p \in Nat \X Nat : p[1] < p[2]}

(***************************************************************************)
(* Every non-empty set of natural numbers has a least element.             *)
(***************************************************************************)
LEMMA LeastNatural ==
    ASSUME NEW T \in SUBSET Nat, T # {}
    PROVE  \E m \in T : \A k \in T : m <= k
  <1>1. IsWellFoundedOn(Less, Nat)
    BY NatLessThanWellFounded DEF OpToRel, Less
  <1>2. PICK x \in T : \A y \in T : ~ (<<y, x>> \in Less)
    BY <1>1, WFMin
  <1>3. ASSUME NEW y \in T PROVE x <= y
    <2>1. <<y, x>> \in Nat \X Nat /\ <<y, x>>[1] = y /\ <<y, x>>[2] = x
      OBVIOUS
    <2>2. ~ (y < x)
      BY <1>2, <2>1 DEF Less
    <2> QED
      BY <2>2
  <1> QED
    BY <1>3

-----------------------------------------------------------------------------
(***************************************************************************)
(* The suffix of s from its i-th byte on.                                  *)
(***************************************************************************)
LEMMA FromFacts ==
    ASSUME NEW s \in Seq(Byte), NEW i \in 1..(Len(s) + 1)
    PROVE  /\ From(s, i) \in Seq(Byte)
           /\ Len(From(s, i)) = Len(s) - i + 1
           /\ \A k \in 1..(Len(s) - i + 1) : From(s, i)[k] = s[i + k - 1]
  <1>1. \A k \in i..Len(s) : s[k] \in Byte
    BY ElementOfSeq
  <1>2. i \in Int /\ Len(s) \in Int
    OBVIOUS
  <1>3. /\ SubSeq(s, i, Len(s)) \in Seq(Byte)
        /\ Len(SubSeq(s, i, Len(s))) = IF i <= Len(s) THEN Len(s) - i + 1 ELSE 0
        /\ \A k \in 1..(Len(s) - i + 1) : SubSeq(s, i, Len(s))[k] = s[i + k - 1]
    BY <1>1, <1>2, SubSeqProperties
  <1> QED
    BY <1>3 DEF From

LEMMA GuardFacts ==
    /\ Guard \in Seq(Byte)
    /\ Len(Guard) \in Nat /\ Len(Guard) >= 1
    /\ SizeIndex = Len(Guard) + 2
  BY FormatAssumption, EmptySeq DEF SizeIndex, CommandHeaderSize

(***************************************************************************)
(* A string that starts like a command still does with its last byte gone. *)
(***************************************************************************)
LEMMA ValidGuardPrefix ==
    ASSUME NEW s \in Seq(Byte), NEW b \in Byte, NEW i \in 1..(Len(s) + 1),
           HasValidGuard(From(Append(s, b), i))
    PROVE  HasValidGuard(From(s, i))
  <1> DEFINE t == Append(s, b)
  <1>1. /\ t \in Seq(Byte)
        /\ Len(t) = Len(s) + 1
        /\ \A k \in 1..Len(s) : t[k] = s[k]
    BY AppendProperties
  <1> HIDE DEF t
  <1>2. i \in 1..(Len(t) + 1)
    BY <1>1
  <1>3. /\ Len(From(t, i)) = Len(t) - i + 1
        /\ \A k \in 1..(Len(t) - i + 1) : From(t, i)[k] = t[i + k - 1]
    BY <1>1, <1>2, FromFacts
  <1>4. /\ Len(From(s, i)) = Len(s) - i + 1
        /\ \A k \in 1..(Len(s) - i + 1) : From(s, i)[k] = s[i + k - 1]
    BY FromFacts
  <1>5. \A k \in 1..(Len(s) - i + 1) : From(t, i)[k] = From(s, i)[k]
    BY <1>1, <1>3, <1>4
  <1>6. HasValidGuard(From(t, i))
    BY DEF t
  <1> QED
    BY <1>1, <1>3, <1>4, <1>5, <1>6, GuardFacts DEF HasValidGuard

(***************************************************************************)
(* SkipToGuard keeps a suffix: the longest one that starts like a command. *)
(***************************************************************************)
LEMMA SkipToGuardFacts ==
    ASSUME NEW s \in Seq(Byte)
    PROVE  \E i \in 1..(Len(s) + 1) :
              /\ IsStart(s, i)
              /\ SkipToGuard(s) = From(s, i)
  <1> DEFINE T == {i \in 1..(Len(s) + 1) : HasValidGuard(From(s, i))}
  <1>1. Len(s) + 1 \in T
    <2>1. PICK e \in 1..(Len(s) + 1) : e = Len(s) + 1
      OBVIOUS
    <2>2. Len(From(s, e)) = Len(s) - e + 1
      BY FromFacts
    <2>3. HasValidGuard(From(s, e))
      BY <2>1, <2>2, GuardFacts DEF HasValidGuard
    <2> QED
      BY <2>1, <2>3
  <1>2. T \in SUBSET Nat
    OBVIOUS
  <1>3. PICK m \in T : \A k \in T : m <= k
    BY <1>1, <1>2, LeastNatural
  <1>4. IsStart(s, m)
    BY <1>3 DEF IsStart
  <1>5. \E i \in 1..(Len(s) + 1) : IsStart(s, i)
    BY <1>4
  <1> QED
    BY <1>5 DEF SkipToGuard

-----------------------------------------------------------------------------
(***************************************************************************)
(* The buffer between two iterations: the proper beginning of a command.   *)
(***************************************************************************)
Partial(s) == HasValidGuard(s) /\ ~IsReadyToParseCommand(s)

LEMMA EmptyIsPartial == Partial(<< >>)
  BY GuardFacts, EmptySeq DEF Partial, HasValidGuard, IsReadyToParseCommand

(***************************************************************************)
(* One more byte completes at most one command, and completes it exactly.  *)
(***************************************************************************)
LEMMA OneByteMore ==
    ASSUME NEW s \in Seq(Byte), Partial(s), NEW b \in Byte
    PROVE  LET t == SkipToGuard(Append(s, b))
           IN  /\ t \in Seq(Byte)
               /\ HasValidGuard(t)
               /\ IsReadyToParseCommand(t) => /\ Len(t) = CommandSize(t)
                                              /\ CommandSize(t) \in Nat
                                              /\ CommandSize(t) >= SizeIndex
  <1> DEFINE u == Append(s, b)
             t == SkipToGuard(u)
  <1>1. /\ u \in Seq(Byte)
        /\ Len(u) = Len(s) + 1
        /\ \A k \in 1..Len(s) : u[k] = s[k]
    BY AppendProperties
  <1> HIDE DEF u
  <1>2. PICK i \in 1..(Len(u) + 1) : IsStart(u, i) /\ SkipToGuard(u) = From(u, i)
    BY <1>1, SkipToGuardFacts
  <1>3. /\ t \in Seq(Byte)
        /\ Len(t) = Len(u) - i + 1
        /\ \A k \in 1..(Len(u) - i + 1) : t[k] = u[i + k - 1]
    BY <1>1, <1>2, FromFacts
  <1>4. HasValidGuard(t)
    BY <1>2 DEF IsStart
  <1> HIDE DEF t
  <1>5. ASSUME IsReadyToParseCommand(t)
        PROVE  /\ Len(t) = CommandSize(t)
               /\ CommandSize(t) \in Nat
               /\ CommandSize(t) >= SizeIndex
    <2>1. /\ Len(t) >= SizeIndex /\ Len(t) >= SizeIndex + t[SizeIndex]
          /\ Len(t) \in Nat /\ SizeIndex \in 1..Len(t)
      BY <1>3, <1>5, GuardFacts DEF IsReadyToParseCommand, CommandSize
    <2>2. t[SizeIndex] \in Nat
      BY <1>3, <2>1, ElementOfSeq, FormatAssumption
    <2>3. i = 1
      <3>1. SUFFICES ASSUME i # 1 PROVE FALSE
        OBVIOUS
      <3>2. ~HasValidGuard(From(u, 1))
        BY <1>2, <3>1 DEF IsStart
      <3>3. From(u, 1) = u
        BY <1>1, SubSeqFull DEF From
      <3>4. HasValidGuard(s)
        BY DEF Partial
      <3>5. Len(s) < Len(Guard)
        BY <1>1, <3>2, <3>3, <3>4, GuardFacts DEF HasValidGuard
      <3> QED
        BY <1>1, <1>3, <2>1, <3>1, <3>5, GuardFacts
    <2>4. Len(t) = Len(s) + 1 /\ Len(s) \in Nat
      BY <1>1, <1>3, <2>3
    <2>5. CASE Len(s) >= SizeIndex
      <3>1. s[SizeIndex] = t[SizeIndex]
        BY <1>1, <1>3, <2>1, <2>3, <2>5, GuardFacts
      <3>2. ~ (Len(s) >= SizeIndex + s[SizeIndex])
        BY <2>5 DEF Partial, IsReadyToParseCommand, CommandSize
      <3>3. Len(t) = SizeIndex + t[SizeIndex]
        BY <2>1, <2>2, <2>4, <3>1, <3>2, GuardFacts
      <3> QED
        BY <2>1, <2>2, <3>3, GuardFacts DEF CommandSize
    <2>6. CASE Len(s) < SizeIndex
      <3>1. Len(t) = SizeIndex + t[SizeIndex]
        BY <2>1, <2>2, <2>4, <2>6, GuardFacts
      <3> QED
        BY <2>1, <2>2, <3>1, GuardFacts DEF CommandSize
    <2> QED
      BY <2>4, <2>5, <2>6, GuardFacts
  <1> QED
    BY <1>3, <1>4, <1>5 DEF t, u

-----------------------------------------------------------------------------
\* buf is the longest suffix of read that starts like a command.
Longest(buf, read) ==
    /\ Len(buf) <= Len(read)
    /\ buf = From(read, Len(read) - Len(buf) + 1)
    /\ \A i \in 1..Len(read) :
          HasValidGuard(From(read, i)) => i > Len(read) - Len(buf)

LEMMA EmptyIsLongest == Longest(<< >>, << >>)
  <1>1. << >> \in Seq(Byte) /\ Len(<< >>) = 0
    BY EmptySeq
  <1>2. From(<< >>, 1) = << >>
    BY <1>1, SubSeqEmpty DEF From
  <1> QED
    BY <1>1, <1>2 DEF Longest

(***************************************************************************)
(* Skipping after each byte finds what skipping over all of them would: a  *)
(* suffix once given up can not start like a command again.                *)
(***************************************************************************)
LEMMA SkippingIsIncremental ==
    ASSUME NEW buf \in Seq(Byte), NEW read \in Seq(Byte), NEW b \in Byte,
           Longest(buf, read)
    PROVE  Longest(SkipToGuard(Append(buf, b)), Append(read, b))
  <1> DEFINE u == Append(buf, b)
             r == Append(read, b)
             t == SkipToGuard(u)
             p == Len(read) - Len(buf)
  <1>1. /\ u \in Seq(Byte) /\ Len(u) = Len(buf) + 1
        /\ \A k \in 1..Len(buf) : u[k] = buf[k]
        /\ u[Len(buf) + 1] = b
    BY AppendProperties
  <1>2. /\ r \in Seq(Byte) /\ Len(r) = Len(read) + 1
        /\ \A k \in 1..Len(read) : r[k] = read[k]
        /\ r[Len(read) + 1] = b
    BY AppendProperties
  <1>3. /\ Len(buf) \in Nat /\ Len(read) \in Nat /\ p \in Nat
        /\ p + 1 \in 1..(Len(read) + 1)
        /\ p + Len(buf) = Len(read)
    BY DEF Longest
  <1>4. /\ buf = From(read, p + 1)
        /\ \A i \in 1..Len(read) : HasValidGuard(From(read, i)) => i > p
    BY DEF Longest
  <1>5. \A k \in 1..Len(buf) : buf[k] = read[p + k]
    <2>1. PICK q \in 1..(Len(read) + 1) : q = p + 1
      BY <1>3
    <2>2. \A k \in 1..(Len(read) - q + 1) : From(read, q)[k] = read[q + k - 1]
      BY FromFacts
    <2> QED
      BY <1>3, <1>4, <2>1, <2>2
  <1> HIDE DEF u, r, p
  <1>6. \A k \in 1..Len(u) : u[k] = r[p + k]
    <2> TAKE k \in 1..Len(u)
    <2>1. CASE k = Len(buf) + 1
      BY <1>1, <1>2, <1>3, <2>1
    <2>2. CASE k \in 1..Len(buf)
      <3>1. p + k \in 1..Len(read)
        BY <1>3, <2>2
      <3> QED BY <1>1, <1>2, <1>5, <2>2, <3>1
    <2> QED BY <1>1, <1>3, <2>1, <2>2
  <1>7. \A j \in 1..(Len(u) + 1) : From(u, j) = From(r, p + j)
    <2> TAKE j \in 1..(Len(u) + 1)
    <2>1. PICK q \in 1..(Len(r) + 1) : q = p + j
      BY <1>1, <1>2, <1>3
    <2>2. /\ From(u, j) \in Seq(Byte) /\ Len(From(u, j)) = Len(u) - j + 1
          /\ \A k \in 1..(Len(u) - j + 1) : From(u, j)[k] = u[j + k - 1]
      BY <1>1, FromFacts
    <2>3. /\ From(r, q) \in Seq(Byte) /\ Len(From(r, q)) = Len(r) - q + 1
          /\ \A k \in 1..(Len(r) - q + 1) : From(r, q)[k] = r[q + k - 1]
      BY <1>2, FromFacts
    <2>4. Len(From(u, j)) = Len(From(r, q))
      <3>2. Len(u) = Len(buf) + 1 /\ Len(r) = p + Len(buf) + 1 /\ q = p + j
        BY <1>1, <1>2, <1>3, <2>1
      <3>3. Len(buf) \in Nat /\ p \in Nat /\ j \in Nat
        BY <1>3
      <3>1. Len(u) - j + 1 = Len(r) - q + 1
        BY <3>2, <3>3
      <3> QED BY <2>2, <2>3, <3>1
    <2>5. \A k \in 1..Len(From(u, j)) : From(u, j)[k] = From(r, q)[k]
      <3> TAKE k \in 1..Len(From(u, j))
      <3>1. From(u, j)[k] = u[j + k - 1] /\ j + k - 1 \in 1..Len(u)
        BY <1>1, <2>2
      <3>2. From(r, q)[k] = r[q + k - 1]
        BY <2>2, <2>3, <2>4
      <3>3. q + k - 1 = p + (j + k - 1)
        BY <1>3, <2>1
      <3>4. r[q + k - 1] = r[p + (j + k - 1)]
        BY <3>3
      <3> QED
        BY <1>6, <3>1, <3>2, <3>4
    <2>6. From(u, j) = From(r, q)
      BY <2>2, <2>3, <2>4, <2>5, SeqEqual
    <2> QED
      BY <2>1, <2>6
  <1>8. PICK i \in 1..(Len(u) + 1) : IsStart(u, i) /\ t = From(u, i)
    BY <1>1, SkipToGuardFacts
  <1>9. /\ t = From(r, p + i)
        /\ Len(t) = Len(u) - i + 1
        /\ Len(r) - Len(t) + 1 = p + i
    <2>1. t = From(r, p + i)
      BY <1>7, <1>8
    <2>2. Len(t) = Len(u) - i + 1
      BY <1>1, <1>8, FromFacts
    <2> HIDE DEF t
    <2>3. Len(u) = Len(buf) + 1 /\ Len(r) = Len(read) + 1
      BY <1>1, <1>2
    <2>4. Len(t) = Len(buf) + 2 - i
      BY <1>3, <2>2, <2>3
    <2>5. Len(r) - Len(t) + 1 = p + i
      BY <1>3, <2>3, <2>4
    <2> QED
      BY <2>1, <2>2, <2>5
  <1> HIDE DEF t
  <1>10. ASSUME NEW j \in 1..Len(r), HasValidGuard(From(r, j))
         PROVE  j >= p + i
    <2>1. CASE j <= p
      <3>1. j \in 1..Len(read)
        BY <1>3, <2>1
      <3>2. HasValidGuard(From(read, j))
        BY <1>10, <3>1, ValidGuardPrefix DEF r
      <3> QED
        BY <1>3, <1>4, <2>1, <3>1, <3>2
    <2>2. CASE j > p
      <3>1. PICK k \in 1..Len(u) : j = p + k
        <4>1. j - p \in 1..Len(u) /\ j = p + (j - p)
          BY <1>1, <1>2, <1>3, <2>2
        <4> QED
          BY <4>1
      <3>2. HasValidGuard(From(u, k))
        BY <1>1, <1>7, <1>10, <3>1
      <3>3. k >= i
        BY <1>8, <3>2 DEF IsStart
      <3> QED
        BY <1>3, <3>1, <3>3
    <2> QED
      BY <1>3, <2>1, <2>2
  <1>11. Longest(t, r)
    <2>1. Len(t) <= Len(r) /\ Len(t) \in Nat
      BY <1>1, <1>2, <1>3, <1>9
    <2>2. t = From(r, Len(r) - Len(t) + 1)
      BY <1>9
    <2>3. \A j \in 1..Len(r) : HasValidGuard(From(r, j)) => j > Len(r) - Len(t)
      <3>1. Len(r) - Len(t) + 1 = p + i /\ Len(r) \in Nat
        BY <1>2, <1>9
      <3> TAKE j \in 1..Len(r)
      <3> HAVE HasValidGuard(From(r, j))
      <3>2. j >= p + i
        BY <1>10
      <3> QED
        BY <1>3, <2>1, <3>1, <3>2
    <2> QED
      BY <2>1, <2>2, <2>3 DEF Longest
  <1> QED
    BY <1>11 DEF t, r, u

-----------------------------------------------------------------------------
(***************************************************************************)
(* The inductive invariant.  ParseConsumesExactly speaks of the next byte; *)
(* what makes it so is that Buffer is Partial, and NoGuardMissed needs to  *)
(* know that Buffer is no longer than what was read.                       *)
(***************************************************************************)
Inv ==
    /\ TypeOK
    /\ Partial(Buffer)
    /\ Longest(Buffer, stream)

LEMMA InitEstablishesInv == Init => Inv
  <1> SUFFICES ASSUME Init PROVE Inv
    OBVIOUS
  <1>1. TypeOK
    <2>1. << >> \in Seq(Byte) /\ << >> \in Seq([type : Byte, data : Seq(Byte)])
      BY EmptySeq
    <2> QED
      BY <2>1 DEF Init, TypeOK
  <1>2. Partial(Buffer) /\ Longest(Buffer, stream)
    BY EmptyIsPartial, EmptyIsLongest DEF Init
  <1> QED
    BY <1>1, <1>2 DEF Inv

(***************************************************************************)
(* The step both reads share: a byte b goes through SkipToGuard and the    *)
(* parser.                                                                 *)
(***************************************************************************)
LEMMA ConsumeByteKeepsInv ==
    ASSUME Inv, left > 0, NEW b \in Byte, ConsumeByte(b)
    PROVE  /\ left' \in Nat
           /\ Buffer' \in Seq(Byte) /\ stream' \in Seq(Byte)
           /\ delivered' \in Seq([type : Byte, data : Seq(Byte)])
           /\ Partial(Buffer)'
           /\ Longest(Buffer, stream)'
  <1> DEFINE s == SkipToGuard(Append(Buffer, b))
  <1> USE DEF Inv
  <1>1. /\ Buffer \in Seq(Byte) /\ stream \in Seq(Byte) /\ left \in Nat
        /\ delivered \in Seq([type : Byte, data : Seq(Byte)])
    BY DEF TypeOK
  <1>2. /\ s \in Seq(Byte)
        /\ HasValidGuard(s)
        /\ IsReadyToParseCommand(s) => /\ Len(s) = CommandSize(s)
                                       /\ CommandSize(s) \in Nat
                                       /\ CommandSize(s) >= SizeIndex
    BY <1>1, OneByteMore
  <1>3. Longest(s, Append(stream, b))
    BY <1>1, SkippingIsIncremental
  <1>4. CASE IsReadyToParseCommand(s)
    <2>1. /\ delivered' = Append(delivered, ParseCommand(s))
          /\ Buffer' = << >> /\ stream' = << >> /\ left' = 0
      BY <1>4 DEF ConsumeByte
    <2> HIDE DEF s
    <2>2. s[Len(Guard) + 1] \in Byte
      <3>1. Len(Guard) + 1 \in 1..Len(s)
        BY <1>2, <1>4, GuardFacts
      <3> QED
        BY <1>2, <3>1, ElementOfSeq
    <2>3. SubSeq(s, SizeIndex + 1, CommandSize(s)) \in Seq(Byte)
      <3>1. SizeIndex + 1 \in Int /\ CommandSize(s) \in Int
        BY <1>2, <1>4, GuardFacts
      <3>2. \A k \in (SizeIndex + 1)..CommandSize(s) : s[k] \in Byte
        BY <1>2, <1>4, GuardFacts, ElementOfSeq
      <3> QED
        BY <3>1, <3>2, SubSeqProperties
    <2>4. ParseCommand(s) \in [type : Byte, data : Seq(Byte)]
      BY <2>2, <2>3 DEF ParseCommand
    <2>5. delivered' \in Seq([type : Byte, data : Seq(Byte)])
      BY <1>1, <2>1, <2>4, AppendProperties
    <2> QED
      BY <2>1, <2>5, EmptySeq, EmptyIsPartial, EmptyIsLongest DEF Partial, Longest
  <1>5. CASE ~IsReadyToParseCommand(s)
    <2>1. /\ Buffer' = s /\ stream' = Append(stream, b)
          /\ left' = left - 1 /\ delivered' = delivered
      BY <1>5 DEF ConsumeByte
    <2>2. Append(stream, b) \in Seq(Byte)
      BY <1>1, AppendProperties
    <2>3. Partial(s)
      BY <1>2, <1>5 DEF Partial
    <2> HIDE DEF s
    <2> QED
      BY <1>1, <1>2, <1>3, <2>1, <2>2, <2>3 DEF Partial, Longest
  <1> QED
    BY <1>4, <1>5

-----------------------------------------------------------------------------
LEMMA NextKeepsInv == Inv /\ [Next]_vars => Inv'
  <1> SUFFICES ASSUME Inv, [Next]_vars PROVE Inv'
    OBVIOUS
  <1> USE DEF Inv
  <1>1. CASE Receive
    BY <1>1 DEF Receive, TypeOK, lineVars, counters, Partial, Longest
  <1>2. CASE ReadByte
    <2>1. /\ Head(wire) \in Byte /\ Tail(wire) \in Seq(Byte)
      BY <1>2, HeadTailProperties DEF ReadByte, TypeOK
    <2>2. /\ left' \in Nat
          /\ Buffer' \in Seq(Byte) /\ stream' \in Seq(Byte)
          /\ delivered' \in Seq([type : Byte, data : Seq(Byte)])
          /\ Partial(Buffer)'
          /\ Longest(Buffer, stream)'
      BY <1>2, <2>1, ConsumeByteKeepsInv DEF ReadByte
    <2> QED
      BY <1>2, <2>1, <2>2 DEF ReadByte, TypeOK, counters
  <1>3. CASE ReadGarbage
    <2>1. PICK b \in Byte : ConsumeByte(b)
      BY <1>3 DEF ReadGarbage
    <2>2. /\ left' \in Nat
          /\ Buffer' \in Seq(Byte) /\ stream' \in Seq(Byte)
          /\ delivered' \in Seq([type : Byte, data : Seq(Byte)])
          /\ Partial(Buffer)'
          /\ Longest(Buffer, stream)'
      BY <1>3, <2>1, ConsumeByteKeepsInv DEF ReadGarbage
    <2> QED
      BY <1>3, <2>2 DEF ReadGarbage, TypeOK, lineVars, counters
  <1>4. CASE Reset
    <2>1. Buffer' = << >> /\ stream' = << >>
      BY <1>4 DEF Reset
    <2>2. TypeOK'
      BY <1>4, <2>1, EmptySeq DEF Reset, TypeOK, lineVars, counters
    <2>3. Partial(Buffer)' /\ Longest(Buffer, stream)'
      BY <2>1, EmptyIsPartial, EmptyIsLongest DEF Partial, Longest
    <2> QED
      BY <2>2, <2>3
  <1>5. CASE Setup
    <2>1. PICK k \in 1..(Len(wire) + 1) : wire' = From(wire, k)
      BY <1>5 DEF Setup
    <2>2. wire' \in Seq(Byte)
      BY <2>1, FromFacts DEF TypeOK
    <2> QED
      BY <1>5, <2>2 DEF Setup, TypeOK, Partial, Longest
  <1>6. CASE Disconnect
    BY <1>6 DEF Disconnect, TypeOK, lineVars, counters, Partial, Longest
  <1>7. CASE Transmit
    <2>1. PICK c \in Command : wire' = wire \o Encode(c)
      BY <1>7 DEF Transmit
    <2>2. Encode(c) \in Seq(Byte)
      <3>1. c.type \in Byte /\ Len(c.data) \in Byte /\ c.data \in Seq(Byte)
        BY StreamAssumption
      <3>2. <<c.type, Len(c.data)>> \in Seq(Byte)
        BY <3>1
      <3>3. Guard \o <<c.type, Len(c.data)>> \in Seq(Byte)
        BY <3>2, GuardFacts, ConcatProperties
      <3> QED
        BY <3>1, <3>3, ConcatProperties DEF Encode
    <2>3. wire' \in Seq(Byte)
      BY <2>1, <2>2, ConcatProperties DEF TypeOK
    <2> QED
      BY <1>7, <2>3 DEF Transmit, TypeOK, hostVars, Partial, Longest
  <1>8. CASE Noise
    <2>1. PICK i \in 1..Len(wire) :
             \/ \E b \in Byte : wire' = [wire EXCEPT ![i] = b]
             \/ wire' = SubSeq(wire, 1, i - 1) \o From(wire, i + 1)
      BY <1>8 DEF Noise
    <2>2. CASE \E b \in Byte : wire' = [wire EXCEPT ![i] = b]
      <3>1. wire' \in Seq(Byte)
        BY <2>2, ExceptSeq DEF TypeOK
      <3> QED
        BY <1>8, <3>1 DEF Noise, TypeOK, hostVars, Partial, Longest
    <2>3. CASE wire' = SubSeq(wire, 1, i - 1) \o From(wire, i + 1)
      <3>1. SubSeq(wire, 1, i - 1) \in Seq(Byte)
        <4>1. \A k \in 1..(i - 1) : wire[k] \in Byte
          BY ElementOfSeq DEF TypeOK
        <4> QED
          BY <4>1, SubSeqProperties
      <3>2. From(wire, i + 1) \in Seq(Byte)
        BY FromFacts DEF TypeOK
      <3>3. wire' \in Seq(Byte)
        BY <2>3, <3>1, <3>2, ConcatProperties
      <3> QED
        BY <1>8, <3>3 DEF Noise, TypeOK, hostVars, Partial, Longest
    <2> QED
      BY <2>1, <2>2, <2>3
  <1>9. CASE Unplug
    <2>1. wire' \in Seq(Byte)
      BY <1>9, EmptySeq DEF Unplug
    <2>2. plugged' \in BOOLEAN
      BY <1>9 DEF Unplug
    <2>3. faults' \in Nat
      BY <1>9 DEF Unplug, TypeOK
    <2>4. UNCHANGED <<hostVars, sent, connections>>
      BY <1>9 DEF Unplug
    <2> QED
      BY <2>1, <2>2, <2>3, <2>4 DEF TypeOK, hostVars, Partial, Longest
  <1>10. CASE Plug
    BY <1>10 DEF Plug, TypeOK, hostVars, counters, Partial, Longest
  <1>11. CASE UNCHANGED vars
    BY <1>11 DEF vars, hostVars, lineVars, counters, TypeOK, Partial, Longest
  <1> QED
    BY <1>1, <1>2, <1>3, <1>4, <1>5, <1>6, <1>7, <1>8, <1>9, <1>10, <1>11
       DEF Next, Stream

LEMMA InvIsInvariant == Spec => []Inv
  <1> QED
    BY InitEstablishesInv, NextKeepsInv, PTL DEF Spec

(***************************************************************************)
(* Every variable keeps its type: in particular every command handed to    *)
(* the state machine is a type byte and a sequence of bytes.               *)
(***************************************************************************)
THEOREM TypeCorrect == Spec => []TypeOK
  <1>1. Inv => TypeOK
    BY DEF Inv
  <1> QED
    BY <1>1, InvIsInvariant, PTL

(***************************************************************************)
(* The two ensure(BufferSize == CommandSize) of the parser hold in every   *)
(* execution: with any guard, also one that overlaps itself, with noise on *)
(* the line, garbage from failed reads and bytes of an earlier connection. *)
(***************************************************************************)
THEOREM ParserConsumesExactly == Spec => []ParseConsumesExactly
  <1>1. Inv => ParseConsumesExactly
    BY OneByteMore DEF Inv, TypeOK, ParseConsumesExactly, Partial
  <1> QED
    BY <1>1, InvIsInvariant, PTL

(***************************************************************************)
(* Dropping bytes one at a time until the buffer starts like a guard never *)
(* drops the start of one: Buffer is always the longest candidate among    *)
(* the bytes read since it was last emptied.                               *)
(***************************************************************************)
THEOREM SkippingMissesNoGuard == Spec => []NoGuardMissed
  <1>1. Inv => NoGuardMissed
    BY DEF Inv, Longest, NoGuardMissed
  <1> QED
    BY <1>1, InvIsInvariant, PTL
=============================================================================
