----------------------------- MODULE RdWireProofs -----------------------------
(***************************************************************************)
(* For any number of messages, connections and restarts: the sender holds  *)
(* what is not acknowledged, nothing is lost that should not be, and a     *)
(* wire whose threads are prompt implements a stream that may start over.  *)
(***************************************************************************)
EXTENDS RdWire, TLAPS, SequenceTheorems

\* The numbers after n, in order.
Consecutive(s, n) == \A i \in 1..Len(s) : s[i] = n + i

\* A package has the number of its message.
Package(n) == [seqn |-> n, message |-> n]

ConsecutivePackages(s, n) == \A i \in 1..Len(s) : s[i] = Package(n + i)

\* The numbers fit the queues.
Numbered ==
    /\ puts = max_sent_seqn + Len(queue) + Len(data)
    /\ max_sent_seqn = current_seqn - 1 + Len(pending_queue)
    /\ Consecutive(pending_queue, current_seqn - 1)
    /\ Consecutive(queue, max_sent_seqn)
    /\ Consecutive(data, max_sent_seqn + Len(queue))

\* Nothing is under way, and nothing is acknowledged, that was not sent.
UnderWay ==
    /\ packages \in Seq({Package(n) : n \in 1..max_sent_seqn})
    /\ acks \in Seq(1..max_sent_seqn)
    /\ acknowledged_seqn <= max_sent_seqn
    /\ current_seqn \in 1..(acknowledged_seqn + 1)
    /\ ~up => packages = <<>> /\ acks = <<>>

\* The processor is paused unless the wire is receiving.
Paused ==
    /\ interrupt_balance = IF receiver = "receiving" THEN 0 ELSE 1
    /\ receiver = "connecting" => ~up

\* The number of the last package that is under way no more.
Arrived == max_sent_seqn - Len(packages)

\* With a prompt thread the packages under way are the last that were sent, and
\* the acknowledgements are of those before them that are not acknowledged: a
\* lost one comes back only when all that is under way is lost.
InOrder ==
    Prompt =>
        /\ receiver = "resuming" => /\ thread \in {"waiting", "ended"}
                                    /\ packages = <<>> /\ acks = <<>>
        /\ up /\ receiver = "receiving" =>
              /\ ConsecutivePackages(packages, Arrived)
              /\ acknowledged_seqn <= Arrived
              /\ acks \in Seq(1..Arrived)
              /\ Consecutive(acks, acknowledged_seqn)
              /\ acknowledged_seqn + Len(acks) = Arrived

\* With a prompt thread what is acknowledged was read, and what comes next is
\* the next message or one before it.
ReadInOrder ==
    /\ read <= furthest
    /\ Prompt /\ ~garbled =>
          /\ acknowledged_seqn <= read
          /\ acks \in Seq(1..read)
          /\ read = 0 \/ read = max_received_seqn
          /\ up /\ receiver = "receiving" => Arrived <= read
    /\ Prompt /\ ~ackLost =>
          /\ ~garbled
          /\ acknowledged_seqn + Len(acks) \in {0, max_received_seqn}

IInv == TypeOK /\ Numbered /\ UnderWay /\ Paused /\ InOrder /\ ReadInOrder

-----------------------------------------------------------------------------
\* Sequences of consecutive numbers.
LEMMA ConsecutiveAppend ==
    ASSUME NEW s \in Seq(Nat), NEW n \in Int, n + Len(s) + 1 \in Nat, Consecutive(s, n)
    PROVE  Consecutive(Append(s, n + Len(s) + 1), n)
<1> DEFINE t == Append(s, n + Len(s) + 1)
<1> SUFFICES ASSUME NEW i \in 1..Len(t) PROVE t[i] = n + i
  BY DEF Consecutive
<1>1. Len(t) = Len(s) + 1
  OBVIOUS
<1>2. CASE i = Len(s) + 1
  BY <1>2
<1>3. CASE i \in 1..Len(s)
  BY <1>3 DEF Consecutive
<1> QED BY <1>1, <1>2, <1>3

LEMMA ConsecutiveTail ==
    ASSUME NEW s \in Seq(Nat), NEW n \in Int, s # <<>>, Consecutive(s, n)
    PROVE  /\ Head(s) = n + 1
           /\ Consecutive(Tail(s), n + 1)
<1>1. Len(s) \in Nat /\ Len(s) > 0 /\ Head(s) = s[1]
  OBVIOUS
<1>2. ASSUME NEW i \in 1..Len(Tail(s)) PROVE Tail(s)[i] = n + 1 + i
  <2>1. i + 1 \in 1..Len(s) /\ Tail(s)[i] = s[i + 1]
    OBVIOUS
  <2> QED BY <2>1 DEF Consecutive
<1> QED BY <1>1, <1>2 DEF Consecutive

LEMMA ConsecutiveConcat ==
    ASSUME NEW s \in Seq(Nat), NEW t \in Seq(Nat), NEW n \in Int,
           Consecutive(s, n), Consecutive(t, n + Len(s))
    PROVE  Consecutive(s \o t, n)
<1> SUFFICES ASSUME NEW i \in 1..Len(s \o t) PROVE (s \o t)[i] = n + i
  BY DEF Consecutive
<1>1. Len(s \o t) = Len(s) + Len(t)
  OBVIOUS
<1>2. CASE i \in 1..Len(s)
  BY <1>2 DEF Consecutive
<1>3. CASE i \notin 1..Len(s)
  <2>1. i - Len(s) \in 1..Len(t) /\ (s \o t)[i] = t[i - Len(s)]
    BY <1>1, <1>3
  <2> QED BY <2>1 DEF Consecutive
<1> QED BY <1>2, <1>3

LEMMA ConsecutiveDropped ==
    ASSUME NEW s \in Seq(Nat), NEW n \in Int, NEW k \in 0..Len(s), Consecutive(s, n)
    PROVE  /\ SubSeq(s, k + 1, Len(s)) \in Seq(Nat)
           /\ Len(SubSeq(s, k + 1, Len(s))) = Len(s) - k
           /\ Consecutive(SubSeq(s, k + 1, Len(s)), n + k)
<1> DEFINE t == SubSeq(s, k + 1, Len(s))
<1>1. /\ t \in Seq(Nat) /\ Len(t) = Len(s) - k
      /\ \A i \in 1..Len(s) - k : t[i] = s[k + i]
  BY SubSeqProperties
<1> HIDE DEF t
<1>2. ASSUME NEW i \in 1..Len(t) PROVE t[i] = n + k + i
  <2>1. k + i \in 1..Len(s) /\ t[i] = s[k + i]
    BY <1>1
  <2> QED BY <2>1 DEF Consecutive
<1>3. Consecutive(t, n + k)
  BY <1>2 DEF Consecutive
<1> QED BY <1>1, <1>3 DEF t

LEMMA PackagesAppend ==
    ASSUME NEW s \in Seq(Packages), NEW n \in Int, ConsecutivePackages(s, n)
    PROVE  ConsecutivePackages(Append(s, Package(n + Len(s) + 1)), n)
<1> DEFINE t == Append(s, Package(n + Len(s) + 1))
<1> SUFFICES ASSUME NEW i \in 1..Len(t) PROVE t[i] = Package(n + i)
  BY DEF ConsecutivePackages
<1>1. Len(t) = Len(s) + 1
  OBVIOUS
<1>2. CASE i = Len(s) + 1
  BY <1>2
<1>3. CASE i \in 1..Len(s)
  BY <1>3 DEF ConsecutivePackages
<1> QED BY <1>1, <1>2, <1>3

LEMMA PackagesTail ==
    ASSUME NEW s \in Seq(Packages), NEW n \in Int, s # <<>>, ConsecutivePackages(s, n)
    PROVE  /\ Head(s) = Package(n + 1)
           /\ ConsecutivePackages(Tail(s), n + 1)
<1>1. Len(s) \in Nat /\ Len(s) > 0 /\ Head(s) = s[1]
  OBVIOUS
<1>2. ASSUME NEW i \in 1..Len(Tail(s)) PROVE Tail(s)[i] = Package(n + 1 + i)
  <2>1. i + 1 \in 1..Len(s) /\ Tail(s)[i] = s[i + 1]
    OBVIOUS
  <2>2. Tail(s)[i] = Package(n + (i + 1)) /\ n + (i + 1) = n + 1 + i
    BY <2>1 DEF ConsecutivePackages
  <2> QED BY <2>2
<1> QED BY <1>1, <1>2 DEF ConsecutivePackages

LEMMA WiderSeq ==
    ASSUME NEW S, NEW T, S \subseteq T, NEW s \in Seq(S)
    PROVE  s \in Seq(T)
  OBVIOUS

LEMMA MaximumFacts ==
    ASSUME NEW i \in Int, NEW j \in Int
    PROVE  /\ Maximum(i, j) \in {i, j}
           /\ i <= Maximum(i, j) /\ j <= Maximum(i, j)
  BY DEF Maximum

LEMMA PackageFacts ==
    ASSUME NEW n \in Nat
    PROVE  Package(n) \in Packages /\ Package(n).seqn = n /\ Package(n).message = n
  BY DEF Package, Packages

\* The numbers there are.
LEMMA Numbers ==
    ASSUME TypeOK
    PROVE  /\ max_sent_seqn \in Nat /\ current_seqn \in Nat /\ acknowledged_seqn \in Nat
           /\ max_received_seqn \in Nat /\ read \in Nat /\ furthest \in Nat /\ puts \in Nat
  BY DEF TypeOK

LEMMA Lengths ==
    ASSUME TypeOK
    PROVE  /\ Len(data) \in Nat /\ Len(queue) \in Nat /\ Len(pending_queue) \in Nat
           /\ Len(packages) \in Nat /\ Len(acks) \in Nat
  BY DEF TypeOK

-----------------------------------------------------------------------------
LEMMA InitEstablishesIInv == Init => IInv
<1> SUFFICES ASSUME Init PROVE IInv
  OBVIOUS
<1>1. TypeOK
  <2>1. Prompt \in BOOLEAN /\ up \in BOOLEAN /\ garbled \in BOOLEAN /\ ackLost \in BOOLEAN
    BY Zenon DEF Init
  <2>2. packages \in Seq(Packages)
    BY DEF Init
  <2>3. /\ data \in Seq(Nat) /\ queue \in Seq(Nat) /\ pending_queue \in Seq(Nat)
        /\ acks \in Seq(Nat)
    BY DEF Init
  <2> QED BY <2>1, <2>2, <2>3 DEF Init, TypeOK
<1>2. Numbered
  BY DEF Init, Numbered, Consecutive
<1>3. UnderWay
  <2>1. packages \in Seq({Package(n) : n \in 1..max_sent_seqn}) /\ acks \in Seq(1..max_sent_seqn)
    BY DEF Init
  <2> QED BY <2>1 DEF Init, UnderWay
<1>4. Paused /\ InOrder
  BY DEF Init, Paused, InOrder
<1>5. ReadInOrder
  <2>1. acks \in Seq(1..read) /\ Len(acks) = 0
    BY DEF Init
  <2> QED BY <2>1 DEF Init, ReadInOrder
<1> QED BY <1>1, <1>2, <1>3, <1>4, <1>5 DEF IInv

\* Steps that only say where a thread is.
LEMMA ThreadSteps ==
    ASSUME IInv, StartProcessing \/ EndProcessing \/ EndThread \/ Stop
    PROVE  IInv'
<1>1. /\ UNCHANGED <<Prompt, data, queue, pending_queue, max_sent_seqn, current_seqn,
                     acknowledged_seqn, interrupt_balance, receiver, up, packages, acks,
                     ackLost, max_received_seqn, garbled, read, furthest, puts, connections,
                     restarts>>
      /\ state' \in {state, "Stopping"}
      /\ \/ thread' = thread
         \/ thread' = "processing" /\ thread = "taken"
         \/ thread' = "waiting" /\ thread = "processing"
         \/ thread' = "ended" /\ thread = "waiting"
  BY DEF StartProcessing, EndProcessing, EndThread, Stop, numbers, connection, counterpart, bounds
<1>2. TypeOK'
  BY <1>1 DEF IInv, TypeOK
<1>3. Numbered' /\ UnderWay' /\ Paused' /\ ReadInOrder'
  BY <1>1 DEF IInv, Numbered, UnderWay, Paused, ReadInOrder, Arrived
<1>4. InOrder'
  BY <1>1 DEF IInv, InOrder, Arrived
<1> QED BY <1>2, <1>3, <1>4 DEF IInv

LEMMA PutKeepsIInv == ASSUME IInv, Put PROVE IInv'
<1>1. UNCHANGED <<Prompt, queue, pending_queue, max_sent_seqn, current_seqn, acknowledged_seqn,
                  interrupt_balance, state, thread, receiver, up, packages, acks, ackLost,
                  max_received_seqn, garbled, read, furthest, connections, restarts>>
  BY DEF Put, numbers, connection, counterpart
<1>2. /\ data \in Seq(Nat) /\ data' = Append(data, puts + 1)
      /\ puts \in Nat /\ puts' = puts + 1
      /\ max_sent_seqn \in Nat /\ Len(queue) \in Nat
  BY Lengths DEF Put, IInv, TypeOK
<1>3. data' \in Seq(Nat) /\ Len(data') = Len(data) + 1 /\ puts' \in Nat
  BY <1>2
<1>4. TypeOK'
  BY <1>1, <1>3 DEF IInv, TypeOK
<1>5. Numbered'
  <2>1. /\ puts = max_sent_seqn + Len(queue) + Len(data)
        /\ Consecutive(data, max_sent_seqn + Len(queue))
    BY DEF IInv, Numbered
  <2>2. Consecutive(data', max_sent_seqn + Len(queue))
    BY <1>2, <2>1, ConsecutiveAppend
  <2>3. puts' = max_sent_seqn + Len(queue) + Len(data')
    BY <1>2, <1>3, <2>1
  <2> QED BY <1>1, <2>2, <2>3 DEF IInv, Numbered
<1>6. UnderWay' /\ Paused' /\ InOrder' /\ ReadInOrder'
  BY <1>1 DEF IInv, UnderWay, Paused, InOrder, ReadInOrder, Arrived
<1> QED BY <1>4, <1>5, <1>6 DEF IInv

LEMMA TakeDataKeepsIInv == ASSUME IInv, TakeData PROVE IInv'
<1>1. /\ UNCHANGED <<Prompt, pending_queue, max_sent_seqn, current_seqn, acknowledged_seqn,
                     interrupt_balance, state, receiver, up, packages, acks, ackLost,
                     max_received_seqn, garbled, read, furthest, puts, connections, restarts>>
      /\ thread' = "taken"
  BY DEF TakeData, numbers, connection, counterpart, bounds
<1>2. /\ data \in Seq(Nat) /\ queue \in Seq(Nat) /\ max_sent_seqn \in Nat
      /\ queue' = queue \o data /\ data' = <<>>
  BY DEF TakeData, IInv, TypeOK
<1>3. /\ queue' \in Seq(Nat) /\ Len(queue') = Len(queue) + Len(data)
      /\ data' \in Seq(Nat) /\ Len(data') = 0
  BY <1>2
<1>4. receiver = "receiving"
  BY DEF TakeData, Interrupted, IInv, Paused
<1>5. TypeOK'
  BY <1>1, <1>3 DEF IInv, TypeOK
<1>6. Numbered'
  <2>1. /\ puts = max_sent_seqn + Len(queue) + Len(data)
        /\ Consecutive(queue, max_sent_seqn)
        /\ Consecutive(data, max_sent_seqn + Len(queue))
    BY DEF IInv, Numbered
  <2>2. Consecutive(queue', max_sent_seqn)
    BY <1>2, <2>1, ConsecutiveConcat
  <2>3. Consecutive(data', max_sent_seqn + Len(queue'))
    BY <1>3 DEF Consecutive
  <2>4. puts = max_sent_seqn + Len(queue') + Len(data')
    BY <1>2, <1>3, <2>1
  <2> QED BY <1>1, <2>2, <2>3, <2>4 DEF IInv, Numbered
<1>7. UnderWay' /\ Paused' /\ InOrder' /\ ReadInOrder'
  BY <1>1, <1>4 DEF IInv, UnderWay, Paused, InOrder, ReadInOrder, Arrived
<1> QED BY <1>5, <1>6, <1>7 DEF IInv

LEMMA ConnectKeepsIInv == ASSUME IInv, Connect PROVE IInv'
<1>1. /\ UNCHANGED <<Prompt, data, queue, pending_queue, max_sent_seqn, current_seqn,
                     acknowledged_seqn, interrupt_balance, state, thread, ackLost,
                     max_received_seqn, garbled, read, furthest, puts, restarts>>
      /\ receiver = "connecting" /\ receiver' = "resuming"
      /\ up' = TRUE /\ packages' = <<>> /\ acks' = <<>>
      /\ Prompt => thread \notin {"taken", "processing"}
      /\ connections' = connections + 1
  BY DEF Connect, processor, numbers, counterpart
<1>2. /\ packages' \in Seq(Packages) /\ acks' \in Seq(Nat)
      /\ packages' \in Seq({Package(n) : n \in 1..max_sent_seqn})
      /\ acks' \in Seq(1..max_sent_seqn) /\ acks' \in Seq(1..read)
  BY <1>1
<1>3. TypeOK'
  BY <1>1, <1>2 DEF IInv, TypeOK
<1>4. Numbered' /\ Paused'
  BY <1>1 DEF IInv, Numbered, Paused
<1>5. UnderWay'
  BY <1>1, <1>2 DEF IInv, UnderWay
<1>6. InOrder'
  BY <1>1 DEF IInv, TypeOK, InOrder
<1>7. ReadInOrder'
  <2>1. acks = <<>>
    BY <1>1 DEF IInv, UnderWay, Paused
  <2> QED BY <1>1, <1>2, <2>1 DEF IInv, ReadInOrder
<1> QED BY <1>3, <1>4, <1>5, <1>6, <1>7 DEF IInv

LEMMA SendFrontKeepsIInv == ASSUME IInv, SendFront PROVE IInv'
<1> DEFINE package == Package(max_sent_seqn + 1)
<1>1. UNCHANGED <<Prompt, data, current_seqn, acknowledged_seqn, interrupt_balance, state,
                  thread, receiver, up, acks, ackLost, max_received_seqn, garbled, read,
                  furthest, puts, connections, restarts>>
  BY DEF SendFront, counterpart, bounds
<1>2. /\ queue \in Seq(Nat) /\ queue # <<>> /\ queue' = Tail(queue)
      /\ pending_queue \in Seq(Nat) /\ pending_queue' = Append(pending_queue, Head(queue))
      /\ max_sent_seqn \in Nat /\ max_sent_seqn' = max_sent_seqn + 1
      /\ current_seqn \in Nat /\ packages \in Seq(Packages)
  BY DEF SendFront, IInv, TypeOK
<1>3. /\ Consecutive(queue, max_sent_seqn) /\ Consecutive(pending_queue, current_seqn - 1)
      /\ Consecutive(data, max_sent_seqn + Len(queue))
      /\ max_sent_seqn = current_seqn - 1 + Len(pending_queue)
      /\ puts = max_sent_seqn + Len(queue) + Len(data)
  BY DEF IInv, Numbered
<1>4. /\ Head(queue) = max_sent_seqn + 1 /\ Consecutive(queue', max_sent_seqn + 1)
      /\ queue' \in Seq(Nat) /\ Len(queue) \in Nat /\ Len(queue') = Len(queue) - 1
  BY <1>2, <1>3, ConsecutiveTail
<1>5. /\ pending_queue' \in Seq(Nat) /\ Len(pending_queue') = Len(pending_queue) + 1
      /\ Len(pending_queue) \in Nat /\ max_sent_seqn + 1 \in Nat
  BY <1>2, <1>4
<1>6. /\ package \in Packages
      /\ packages' = Transmitted(<<package>>)
  <2>1. max_sent_seqn + 1 \in Nat
    BY <1>2
  <2>2. packages' = Transmitted(<<[seqn |-> max_sent_seqn + 1, message |-> Head(queue)]>>)
    BY DEF SendFront
  <2> QED BY <1>4, <2>1, <2>2, PackageFacts DEF Package
<1> HIDE DEF package
<1>7. packages' = IF up THEN Append(packages, package) ELSE packages
  BY <1>2, <1>6, AppendIsConcat DEF Transmitted
<1>8. /\ packages' \in Seq(Packages)
      /\ up => Len(packages') = Len(packages) + 1
  <2>1. CASE up
    <3>1. packages' = Append(packages, package)
      BY <1>7, <2>1
    <3>2. packages' \in Seq(Packages) /\ Len(packages') = Len(packages) + 1
      <4>1. packages \in Seq(Packages) /\ package \in Packages
        BY <1>2, <1>6
      <4> QED BY <4>1, <3>1, AppendProperties
    <3> QED BY <3>2, Zenon
  <2>2. CASE ~up
    BY <1>2, <1>7, <2>2
  <2> QED BY <2>1, <2>2
<1>9. TypeOK'
  BY <1>1, <1>2, <1>4, <1>5, <1>8 DEF IInv, TypeOK
<1>10. Numbered'
  <2>1. current_seqn - 1 \in Int /\ current_seqn - 1 + Len(pending_queue) + 1 = max_sent_seqn + 1
    BY <1>2, <1>3, <1>5
  <2>2. Consecutive(pending_queue', current_seqn - 1)
    BY <1>2, <1>3, <1>4, <1>5, <2>1, ConsecutiveAppend
  <2>3. /\ max_sent_seqn' = current_seqn - 1 + Len(pending_queue')
        /\ max_sent_seqn' + Len(queue') = max_sent_seqn + Len(queue)
    BY <1>2, <1>3, <1>4, <1>5
  <2>4. Consecutive(data, max_sent_seqn' + Len(queue'))
    BY <1>3, <2>3
  <2> QED BY <1>1, <1>2, <1>3, <1>4, <2>2, <2>3, <2>4 DEF Numbered
<1>11. UnderWay'
  <2> DEFINE Sent(n) == {Package(k) : k \in 1..n}
  <2>1. package \in Sent(max_sent_seqn + 1) /\ Sent(max_sent_seqn) \subseteq Sent(max_sent_seqn + 1)
    <3>1. max_sent_seqn + 1 \in 1..(max_sent_seqn + 1)
      BY <1>2
    <3>2. 1..max_sent_seqn \subseteq 1..(max_sent_seqn + 1)
      BY <1>2
    <3> QED BY <3>1, <3>2, Zenon DEF package
  <2>2. packages \in Seq(Sent(max_sent_seqn)) /\ acks \in Seq(1..max_sent_seqn)
        /\ acknowledged_seqn <= max_sent_seqn /\ acknowledged_seqn \in Nat
    BY DEF IInv, UnderWay, TypeOK
  <2>3. 1..max_sent_seqn \subseteq 1..(max_sent_seqn + 1)
    BY <1>2
  <2> HIDE DEF Sent
  <2>4. packages \in Seq(Sent(max_sent_seqn + 1)) /\ acks \in Seq(1..(max_sent_seqn + 1))
    BY <2>1, <2>2, <2>3, WiderSeq
  <2>5. packages' \in Seq(Sent(max_sent_seqn + 1))
    <3>1. CASE up
      BY <1>7, <2>1, <2>4, <3>1, AppendProperties
    <3>2. CASE ~up
      BY <1>7, <2>4, <3>2
    <3> QED BY <3>1, <3>2
  <2>6. ~up => packages' = <<>> /\ acks = <<>>
    BY <1>7 DEF IInv, UnderWay
  <2>7. acknowledged_seqn <= max_sent_seqn + 1
    BY <1>2, <2>2
  <2> QED BY <1>1, <1>2, <2>4, <2>5, <2>6, <2>7 DEF IInv, UnderWay, Sent
<1>12. Paused'
  BY <1>1 DEF IInv, Paused
<1>13. thread = "processing"
  BY DEF SendFront
<1>14. CASE Prompt /\ up /\ receiver = "receiving"
  <2>1. Arrived' = Arrived /\ Arrived \in Int /\ Arrived + Len(packages) + 1 = max_sent_seqn + 1
    <3>1. Len(packages') = Len(packages) + 1
      BY <1>8, <1>14
    <3>2. Len(packages) \in Nat /\ max_sent_seqn \in Nat /\ max_sent_seqn' = max_sent_seqn + 1
      BY <1>2
    <3> QED BY <3>1, <3>2 DEF Arrived
  <2>2. ConsecutivePackages(packages, Arrived) /\ packages' = Append(packages, package)
    BY <1>7, <1>14 DEF IInv, InOrder
  <2>3. ConsecutivePackages(packages', Arrived)
    BY <1>2, <2>1, <2>2, PackagesAppend DEF package
  <2> QED BY <1>1, <1>9, <1>10, <1>11, <1>12, <1>14, <2>1, <2>3 DEF IInv, InOrder, ReadInOrder
<1>15. CASE ~(Prompt /\ up /\ receiver = "receiving")
  BY <1>1, <1>9, <1>10, <1>11, <1>12, <1>13, <1>15 DEF IInv, InOrder, ReadInOrder
<1> QED BY <1>14, <1>15

LEMMA ReadAckKeepsIInv == ASSUME IInv, ReadAck PROVE IInv'
<1>1. /\ UNCHANGED <<Prompt, data, queue, pending_queue, max_sent_seqn, current_seqn,
                     interrupt_balance, state, thread, receiver, up, packages, ackLost,
                     max_received_seqn, garbled, read, furthest, puts, connections, restarts>>
      /\ receiver = "receiving" /\ up
  BY DEF ReadAck, counterpart, bounds
<1>2. /\ acks # <<>> /\ acks' = Tail(acks)
      /\ acks \in Seq(Nat) /\ acks \in Seq(1..max_sent_seqn)
      /\ acknowledged_seqn' = Maximum(acknowledged_seqn, Head(acks))
      /\ acknowledged_seqn \in Nat /\ max_sent_seqn \in Nat
      /\ acknowledged_seqn <= max_sent_seqn
  BY DEF ReadAck, NewestAcknowledged, IInv, TypeOK, UnderWay
<1>3. /\ Head(acks) \in 1..max_sent_seqn /\ acks' \in Seq(1..max_sent_seqn)
      /\ acks' \in Seq(Nat) /\ Len(acks') = Len(acks) - 1 /\ Len(acks) \in Nat
  BY <1>2
<1>4. /\ acknowledged_seqn' \in {acknowledged_seqn, Head(acks)}
      /\ acknowledged_seqn <= acknowledged_seqn' /\ Head(acks) <= acknowledged_seqn'
      /\ acknowledged_seqn' \in Nat
  BY <1>2, <1>3, MaximumFacts
<1>5. TypeOK'
  BY <1>1, <1>3, <1>4 DEF IInv, TypeOK
<1>6. Numbered' /\ Paused'
  BY <1>1 DEF IInv, Numbered, Paused
<1>7. UnderWay'
  <2>1. acknowledged_seqn' <= max_sent_seqn
    BY <1>2, <1>3, <1>4
  <2>2. current_seqn \in 1..(acknowledged_seqn' + 1)
    BY <1>2, <1>4 DEF IInv, UnderWay
  <2> QED BY <1>1, <1>3, <2>1, <2>2 DEF IInv, UnderWay
<1>8. InOrder'
  <2> SUFFICES ASSUME Prompt
               PROVE  /\ ConsecutivePackages(packages, Arrived)
                      /\ acknowledged_seqn' <= Arrived
                      /\ acks' \in Seq(1..Arrived)
                      /\ Consecutive(acks', acknowledged_seqn')
                      /\ acknowledged_seqn' + Len(acks') = Arrived
    BY <1>1 DEF InOrder, Arrived
  <2>1. /\ ConsecutivePackages(packages, Arrived)
        /\ acknowledged_seqn <= Arrived /\ acks \in Seq(1..Arrived)
        /\ Consecutive(acks, acknowledged_seqn)
        /\ acknowledged_seqn + Len(acks) = Arrived
    BY <1>1 DEF IInv, InOrder
  <2>2. Arrived \in Int
    BY <1>2, Lengths DEF Arrived, IInv
  <2>3. Head(acks) \in 1..Arrived /\ acks' \in Seq(1..Arrived)
    BY <1>2, <2>1, HeadTailProperties
  <2>4. acknowledged_seqn' <= Arrived
    BY <1>4, <2>1, <2>3
  <2>5. /\ Consecutive(acks', acknowledged_seqn')
        /\ acknowledged_seqn' + Len(acks') = Arrived
    <3>1. Head(acks) = acknowledged_seqn + 1 /\ Consecutive(acks', acknowledged_seqn + 1)
      BY <1>2, <2>1, ConsecutiveTail
    <3>2. acknowledged_seqn' = acknowledged_seqn + 1
      BY <1>2, <1>4, <3>1
    <3> QED BY <1>2, <1>3, <2>1, <3>1, <3>2
  <2> QED BY <2>1, <2>3, <2>4, <2>5
<1>9. ReadInOrder'
  <2>1. ASSUME Prompt, ~garbled
        PROVE  acknowledged_seqn' <= read /\ acks' \in Seq(1..read)
    <3>1. acknowledged_seqn <= read /\ acks \in Seq(1..read) /\ read \in Nat
      BY <2>1, Numbers DEF IInv, ReadInOrder
    <3>2. Head(acks) \in 1..read /\ acks' \in Seq(1..read)
      BY <1>2, <3>1
    <3> QED BY <1>4, <3>1, <3>2
  <2>2. ASSUME Prompt, ~ackLost
        PROVE  acknowledged_seqn' + Len(acks') = acknowledged_seqn + Len(acks)
    <3>1. Head(acks) = acknowledged_seqn + 1
      BY <1>1, <1>2, <2>2, ConsecutiveTail DEF IInv, InOrder
    <3> QED BY <1>2, <1>3, <1>4, <3>1
  <2> QED BY <1>1, <2>1, <2>2 DEF IInv, ReadInOrder, Arrived
<1> QED BY <1>5, <1>6, <1>7, <1>8, <1>9 DEF IInv

LEMMA PauseKeepsIInv == ASSUME IInv, Pause PROVE IInv'
<1>1. /\ UNCHANGED <<Prompt, data, queue, pending_queue, max_sent_seqn, current_seqn,
                     acknowledged_seqn, state, thread, up, packages, acks, ackLost,
                     max_received_seqn, garbled, read, furthest, puts, connections, restarts>>
      /\ receiver = "receiving" /\ ~up /\ receiver' = "connecting"
      /\ interrupt_balance' = interrupt_balance + 1
  BY DEF Pause, Interrupt, numbers, connection, counterpart, bounds
<1>2. interrupt_balance' = 1
  BY <1>1 DEF IInv, Paused
<1>3. TypeOK'
  BY <1>1, <1>2 DEF IInv, TypeOK
<1>4. Numbered' /\ UnderWay' /\ Paused' /\ InOrder'
  BY <1>1, <1>2 DEF IInv, Numbered, UnderWay, Paused, InOrder
<1>5. ReadInOrder'
  BY <1>1 DEF IInv, ReadInOrder
<1> QED BY <1>3, <1>4, <1>5 DEF IInv

\* What is under way is lost, with the wire or the process or without.
LEMMA DisconnectedFacts ==
    ASSUME IInv, Disconnected
    PROVE  /\ up' = FALSE /\ packages' = <<>> /\ acks' = <<>> /\ ackLost' \in BOOLEAN
           /\ ~ackLost' => ~ackLost /\ acks = <<>>
  BY Zenon DEF Disconnected, IInv, TypeOK

LEMMA BrokenSequences ==
    ASSUME packages' = <<>>, acks' = <<>>
    PROVE  /\ packages' \in Seq(Packages) /\ acks' \in Seq(Nat) /\ Len(acks') = 0
           /\ \A n : packages' \in Seq({Package(k) : k \in 1..n}) /\ acks' \in Seq(1..n)
  OBVIOUS

LEMMA BreakKeepsIInv == ASSUME IInv, Break \/ Terminate PROVE IInv'
<1>1. /\ UNCHANGED <<Prompt, data, queue, pending_queue, max_sent_seqn, current_seqn,
                     acknowledged_seqn, interrupt_balance, thread, receiver,
                     max_received_seqn, garbled, read, furthest, puts, connections, restarts>>
      /\ state' \in {state, "Terminated"}
  BY DEF Break, Terminate, processor, numbers, counterpart, bounds
<1>2. /\ up' = FALSE /\ packages' = <<>> /\ acks' = <<>> /\ ackLost' \in BOOLEAN
      /\ ~ackLost' => ~ackLost /\ acks = <<>>
  BY DisconnectedFacts DEF Break, Terminate
<1>3. /\ packages' \in Seq(Packages) /\ acks' \in Seq(Nat)
      /\ packages' \in Seq({Package(n) : n \in 1..max_sent_seqn})
      /\ acks' \in Seq(1..max_sent_seqn) /\ acks' \in Seq(1..read)
  BY <1>2, BrokenSequences
<1>4. TypeOK'
  BY <1>1, <1>2, <1>3 DEF IInv, TypeOK
<1>5. Numbered' /\ Paused'
  BY <1>1, <1>2 DEF IInv, Numbered, Paused
<1>6. UnderWay'
  BY <1>1, <1>2, <1>3 DEF IInv, UnderWay
<1>7. InOrder'
  BY <1>1, <1>2 DEF IInv, InOrder
<1>8. ReadInOrder'
  <2>1. ASSUME Prompt, ~ackLost'
        PROVE  ~garbled /\ acknowledged_seqn + Len(acks') \in {0, max_received_seqn}
    BY <1>2, <2>1 DEF IInv, ReadInOrder
  <2> QED BY <1>1, <1>2, <1>3, <2>1 DEF IInv, ReadInOrder
<1> QED BY <1>4, <1>5, <1>6, <1>7, <1>8 DEF IInv

LEMMA RestartKeepsIInv == ASSUME IInv, Restart PROVE IInv'
<1>1. /\ UNCHANGED <<Prompt, max_received_seqn, garbled, connections>>
      /\ data' = <<>> /\ queue' = <<>> /\ pending_queue' = <<>>
      /\ max_sent_seqn' = 0 /\ current_seqn' = 1 /\ acknowledged_seqn' = 0
      /\ interrupt_balance' = 1 /\ state' = "AsyncProcessing" /\ thread' = "waiting"
      /\ receiver' = "connecting" /\ puts' = 0 /\ read' = 0 /\ furthest' = 0
      /\ restarts' = restarts + 1
  BY DEF Restart
<1>2. /\ up' = FALSE /\ packages' = <<>> /\ acks' = <<>> /\ ackLost' \in BOOLEAN
      /\ ~ackLost' => ~ackLost /\ acks = <<>>
  BY DisconnectedFacts DEF Restart
<1>3. /\ packages' \in Seq(Packages) /\ acks' \in Seq(Nat) /\ Len(acks') = 0
      /\ packages' \in Seq({Package(n) : n \in 1..0}) /\ acks' \in Seq(1..0)
  BY <1>2, BrokenSequences
<1>4. TypeOK'
  <2>1. data' \in Seq(Nat) /\ queue' \in Seq(Nat) /\ pending_queue' \in Seq(Nat)
    BY <1>1
  <2>2. Prompt' \in BOOLEAN /\ up' \in BOOLEAN /\ garbled' \in BOOLEAN
    BY <1>1, <1>2, Zenon DEF IInv, TypeOK
  <2>3. max_received_seqn' \in Nat /\ connections' \in Nat /\ restarts' \in Nat
    BY <1>1 DEF IInv, TypeOK
  <2> QED BY <1>1, <1>2, <1>3, <2>1, <2>2, <2>3 DEF TypeOK
<1>5. Numbered'
  BY <1>1 DEF Numbered, Consecutive
<1>6. UnderWay' /\ Paused'
  BY <1>1, <1>2, <1>3 DEF UnderWay, Paused
<1>7. InOrder'
  BY <1>1, <1>2 DEF InOrder
<1>8. ReadInOrder'
  <2>1. Prompt /\ ~ackLost' => ~garbled
    BY <1>2 DEF IInv, ReadInOrder
  <2>2. acknowledged_seqn' + Len(acks') = 0
    BY <1>1, <1>3
  <2> QED BY <1>1, <1>2, <1>3, <2>1, <2>2 DEF ReadInOrder
<1> QED BY <1>4, <1>5, <1>6, <1>7, <1>8 DEF IInv

LEMMA ResumeKeepsIInv == ASSUME IInv, Resume PROVE IInv'
<1> DEFINE n == Maximum(0, acknowledged_seqn + 1 - current_seqn)
           sent == [i \in 1..Len(pending_queue') |->
                       [seqn |-> current_seqn' + i - 1, message |-> pending_queue'[i]]]
<1>1. /\ UNCHANGED <<Prompt, data, queue, max_sent_seqn, acknowledged_seqn, state, thread,
                     up, acks, ackLost, max_received_seqn, garbled, read, furthest, puts,
                     connections, restarts>>
      /\ receiver = "resuming" /\ receiver' = "receiving" /\ thread # "processing"
      /\ interrupt_balance' = interrupt_balance - 1
  BY DEF Resume, counterpart, bounds
<1>2. /\ pending_queue \in Seq(Nat) /\ current_seqn \in Nat /\ acknowledged_seqn \in Nat
      /\ max_sent_seqn \in Nat /\ packages \in Seq(Packages)
  BY DEF IInv, TypeOK
<1>3. /\ max_sent_seqn = current_seqn - 1 + Len(pending_queue)
      /\ Consecutive(pending_queue, current_seqn - 1)
      /\ acknowledged_seqn <= max_sent_seqn /\ current_seqn \in 1..(acknowledged_seqn + 1)
  BY DEF IInv, Numbered, UnderWay
<1>4. n = acknowledged_seqn + 1 - current_seqn /\ n \in 0..Len(pending_queue)
  BY <1>2, <1>3 DEF Maximum
<1>5. /\ pending_queue' = SubSeq(pending_queue, n + 1, Len(pending_queue))
      /\ current_seqn' = current_seqn + n
      /\ packages' = Transmitted(sent)
  BY DEF Resume, DropAcknowledged, Resent
<1> HIDE DEF n
<1>6. current_seqn' = acknowledged_seqn + 1 /\ current_seqn' \in Nat
  BY <1>2, <1>3, <1>4, <1>5
<1>7. /\ pending_queue' \in Seq(Nat) /\ Len(pending_queue') = Len(pending_queue) - n
      /\ Consecutive(pending_queue', current_seqn - 1 + n)
  <2>1. current_seqn - 1 \in Int
    BY <1>2
  <2> QED BY <1>2, <1>3, <1>4, <1>5, <2>1, ConsecutiveDropped
<1>8. /\ Consecutive(pending_queue', acknowledged_seqn)
      /\ max_sent_seqn = acknowledged_seqn + Len(pending_queue')
      /\ Len(pending_queue') \in Nat
  BY <1>2, <1>3, <1>4, <1>7
<1>9. /\ sent \in Seq(Packages) /\ Len(sent) = Len(pending_queue')
      /\ ConsecutivePackages(sent, acknowledged_seqn)
      /\ sent \in Seq({Package(k) : k \in 1..max_sent_seqn})
  <2>1. ASSUME NEW i \in 1..Len(pending_queue')
        PROVE  /\ sent[i] = Package(acknowledged_seqn + i)
               /\ acknowledged_seqn + i \in 1..max_sent_seqn
    <3>1. pending_queue'[i] = acknowledged_seqn + i
      BY <1>8 DEF Consecutive
    <3>2. current_seqn' + i - 1 = acknowledged_seqn + i
      BY <1>2, <1>6
    <3>3. acknowledged_seqn + i \in 1..max_sent_seqn
      BY <1>2, <1>8
    <3> QED BY <3>1, <3>2, <3>3 DEF Package
  <2>2. ASSUME NEW i \in 1..Len(pending_queue')
        PROVE  sent[i] \in Packages /\ sent[i] \in {Package(k) : k \in 1..max_sent_seqn}
    <3>1. acknowledged_seqn + i \in Nat
      BY <1>2
    <3> HIDE DEF sent
    <3> QED BY <2>1, <3>1, PackageFacts
  <2>3. /\ sent = [i \in 1..Len(pending_queue') |-> sent[i]] /\ Len(sent) = Len(pending_queue')
    BY <1>8
  <2> HIDE DEF sent
  <2>4. sent \in Seq(Packages)
    BY <1>8, <2>2, <2>3, IsASeq
  <2>5. sent \in Seq({Package(k) : k \in 1..max_sent_seqn})
    BY <1>8, <2>2, <2>3, IsASeq
  <2> QED BY <2>1, <2>3, <2>4, <2>5 DEF ConsecutivePackages
<1> HIDE DEF sent
<1>10. packages' = IF up THEN packages \o sent ELSE packages
  BY <1>5 DEF Transmitted
<1>11. /\ packages' \in Seq(Packages)
       /\ packages' \in Seq({Package(k) : k \in 1..max_sent_seqn})
       /\ ~up => packages' = <<>>
  <2> DEFINE Sent == {Package(k) : k \in 1..max_sent_seqn}
  <2>1. packages \in Seq(Sent) /\ sent \in Seq(Sent)
    BY <1>9 DEF IInv, UnderWay
  <2> HIDE DEF Sent
  <2>2. CASE up
    <3>1. packages' = packages \o sent
      BY <1>10, <2>2
    <3>2. packages' \in Seq(Packages) /\ packages' \in Seq(Sent)
      BY <1>2, <1>9, <2>1, <3>1, ConcatProperties
    <3> QED BY <2>2, <3>2, Zenon DEF Sent
  <2>3. CASE ~up
    <3>1. packages' = packages /\ packages = <<>>
      BY <1>10, <2>3 DEF IInv, UnderWay
    <3> QED BY <1>2, <2>1, <3>1 DEF Sent
  <2> QED BY <2>2, <2>3
<1>12. interrupt_balance' = 0
  BY <1>1 DEF IInv, Paused
<1>13. TypeOK'
  BY <1>1, <1>6, <1>7, <1>11, <1>12 DEF IInv, TypeOK
<1>14. Numbered'
  <2>1. Consecutive(pending_queue', current_seqn' - 1)
    <3>1. current_seqn' - 1 = acknowledged_seqn
      BY <1>2, <1>6
    <3> QED BY <1>8, <3>1
  <2>2. max_sent_seqn = current_seqn' - 1 + Len(pending_queue')
    BY <1>2, <1>6, <1>8
  <2> QED BY <1>1, <2>1, <2>2 DEF IInv, Numbered
<1>15. UnderWay'
  <2>1. current_seqn' \in 1..(acknowledged_seqn + 1)
    BY <1>2, <1>6
  <2> QED BY <1>1, <1>11, <2>1 DEF IInv, UnderWay
<1>16. Paused'
  BY <1>1, <1>12 DEF Paused
<1>17. ASSUME Prompt, up
       PROVE  /\ packages' = sent /\ acks = <<>>
              /\ Arrived' = acknowledged_seqn /\ Len(acks) = 0
              /\ acks \in Seq(1..Arrived') /\ Consecutive(acks, acknowledged_seqn)
  <2>1. packages = <<>> /\ acks = <<>>
    BY <1>1, <1>17 DEF IInv, InOrder
  <2>2. packages' = sent
    BY <1>9, <1>10, <1>17, <2>1, ConcatEmptySeq
  <2>3. Arrived' = acknowledged_seqn
    BY <1>1, <1>2, <1>8, <1>9, <2>2 DEF Arrived
  <2>4. Len(acks) = 0 /\ acks \in Seq(1..Arrived') /\ Consecutive(acks, acknowledged_seqn)
    BY <2>1 DEF Consecutive
  <2> QED BY <2>1, <2>2, <2>3, <2>4
<1>18. InOrder'
  <2> SUFFICES ASSUME Prompt, up
               PROVE  /\ ConsecutivePackages(packages', Arrived')
                      /\ acknowledged_seqn <= Arrived'
                      /\ acks \in Seq(1..Arrived')
                      /\ Consecutive(acks, acknowledged_seqn)
                      /\ acknowledged_seqn + Len(acks) = Arrived'
    BY <1>1 DEF InOrder
  <2> QED BY <1>2, <1>9, <1>17
<1>19. ReadInOrder'
  <2>1. ASSUME Prompt, ~garbled, up PROVE Arrived' <= read
    BY <1>17, <2>1 DEF IInv, ReadInOrder
  <2> QED BY <1>1, <2>1 DEF IInv, ReadInOrder
<1> QED BY <1>13, <1>14, <1>15, <1>16, <1>18, <1>19 DEF IInv

LEMMA ReadPackageKeepsIInv == ASSUME IInv, ReadPackage PROVE IInv'
<1> DEFINE seqn == Head(packages).seqn
<1>1. /\ UNCHANGED <<Prompt, data, queue, pending_queue, max_sent_seqn, current_seqn,
                     acknowledged_seqn, interrupt_balance, state, thread, receiver, up, ackLost,
                     puts, connections, restarts>>
      /\ up /\ receiver # "connecting"
  BY DEF ReadPackage, IInv, Paused, processor, numbers, bounds
<1>2. /\ packages # <<>> /\ packages' = Tail(packages) /\ acks' = Append(acks, seqn)
      /\ packages \in Seq(Packages) /\ packages \in Seq({Package(k) : k \in 1..max_sent_seqn})
      /\ acks \in Seq(Nat) /\ acks \in Seq(1..max_sent_seqn) /\ max_sent_seqn \in Nat
  BY DEF ReadPackage, IInv, TypeOK, UnderWay
<1>3. seqn \in 1..max_sent_seqn /\ Head(packages) = Package(seqn)
  <2> DEFINE Sent == {Package(k) : k \in 1..max_sent_seqn}
  <2>1. packages \in Seq(Sent) /\ packages # <<>>
    BY <1>2
  <2> HIDE DEF Sent
  <2>2. Head(packages) \in Sent
    BY <2>1, HeadTailProperties
  <2>3. PICK k \in 1..max_sent_seqn : Head(packages) = Package(k)
    BY <2>2 DEF Sent
  <2>4. k \in Nat
    BY <1>2
  <2> QED BY <2>3, <2>4, PackageFacts
<1>4. Head(packages).message = seqn /\ seqn \in Nat
  BY <1>2, <1>3, PackageFacts
<1>5. \/ /\ IsRepeated(seqn) /\ garbled' = TRUE
         /\ UNCHANGED <<max_received_seqn, read, furthest>>
      \/ /\ ~IsRepeated(seqn) /\ max_received_seqn' = seqn /\ garbled' = garbled
         /\ \/ garbled /\ UNCHANGED <<read, furthest>>
            \/ ~garbled /\ read' = seqn /\ furthest' = Maximum(furthest, seqn)
  BY <1>4 DEF ReadPackage
<1> HIDE DEF seqn
<1>6. /\ packages' \in Seq(Packages) /\ Len(packages') = Len(packages) - 1
      /\ Len(packages) \in Nat /\ Len(packages') \in Nat
  BY <1>2, HeadTailProperties
<1>7. packages' \in Seq({Package(k) : k \in 1..max_sent_seqn})
  BY <1>2, HeadTailProperties
<1>8. /\ acks' \in Seq(Nat) /\ acks' \in Seq(1..max_sent_seqn) /\ Len(acks) \in Nat
      /\ Len(acks') = Len(acks) + 1
  BY <1>2, <1>3, <1>4, AppendProperties
<1>9. /\ garbled' \in BOOLEAN /\ garbled \in BOOLEAN /\ max_received_seqn' \in Nat /\ read' \in Nat
      /\ furthest' \in Nat /\ furthest \in Nat /\ read \in Nat /\ acknowledged_seqn \in Nat
      /\ Maximum(furthest, seqn) \in Nat /\ seqn <= Maximum(furthest, seqn)
  <2>1. /\ garbled \in BOOLEAN /\ max_received_seqn \in Nat /\ read \in Nat /\ furthest \in Nat
        /\ acknowledged_seqn \in Nat
    BY DEF IInv, TypeOK
  <2>2. Maximum(furthest, seqn) \in Nat /\ seqn <= Maximum(furthest, seqn)
    BY <1>4, <2>1, MaximumFacts
  <2>3. garbled' \in BOOLEAN
    BY <1>5, <2>1, Zenon
  <2>4. max_received_seqn' \in Nat /\ read' \in Nat /\ furthest' \in Nat
    BY <1>4, <1>5, <2>1, <2>2
  <2> QED BY <2>1, <2>2, <2>3, <2>4
<1>10. TypeOK'
  BY <1>1, <1>6, <1>8, <1>9 DEF IInv, TypeOK
<1>11. Numbered' /\ Paused'
  BY <1>1 DEF IInv, Numbered, Paused
<1>12. UnderWay'
  BY <1>1, <1>7, <1>8 DEF IInv, UnderWay
<1>13. read' <= furthest'
  BY <1>5, <1>9 DEF IInv, ReadInOrder
<1>14. CASE ~Prompt
  BY <1>1, <1>10, <1>11, <1>12, <1>13, <1>14 DEF IInv, InOrder, ReadInOrder
<1>15. CASE Prompt
  <2>1. receiver = "receiving"
    <3>1. receiver # "resuming"
      BY <1>2, <1>15 DEF IInv, InOrder
    <3> QED BY <1>1, <3>1 DEF IInv, TypeOK
  <2>2. /\ ConsecutivePackages(packages, Arrived)
        /\ acknowledged_seqn <= Arrived /\ acks \in Seq(1..Arrived)
        /\ Consecutive(acks, acknowledged_seqn)
        /\ acknowledged_seqn + Len(acks) = Arrived
    BY <1>1, <1>15, <2>1 DEF IInv, InOrder
  <2>3. Arrived \in Nat /\ Arrived' = Arrived + 1
    <3>1. Arrived \in Int /\ Arrived' = Arrived + 1
      BY <1>1, <1>2, <1>6 DEF Arrived
    <3> QED BY <1>9, <2>2, <3>1
  <2>4. seqn = Arrived + 1 /\ ConsecutivePackages(packages', Arrived + 1)
    <3>1. /\ Head(packages) = Package(Arrived + 1)
          /\ ConsecutivePackages(packages', Arrived + 1)
      BY <1>2, <2>2, <2>3, PackagesTail
    <3>2. Package(seqn) = Package(Arrived + 1) /\ Arrived + 1 \in Nat
      BY <1>3, <2>3, <3>1
    <3>3. seqn = Arrived + 1
      BY <1>4, <3>2, PackageFacts
    <3> QED BY <3>1, <3>3
  <2>5. acks' \in Seq(1..(Arrived + 1))
    <3>1. 1..Arrived \subseteq 1..(Arrived + 1) /\ Arrived + 1 \in 1..(Arrived + 1)
      BY <2>3
    <3>2. acks \in Seq(1..Arrived)
      BY <2>2
    <3>3. acks \in Seq(1..(Arrived + 1))
      BY <3>1, <3>2, WiderSeq
    <3> QED BY <1>2, <2>4, <3>1, <3>3, AppendProperties
  <2>6. /\ Consecutive(acks', acknowledged_seqn)
        /\ acknowledged_seqn + Len(acks') = Arrived + 1
    <3>1. acknowledged_seqn + Len(acks) + 1 = Arrived + 1 /\ acknowledged_seqn \in Int
      BY <1>8, <1>9, <2>2, <2>3
    <3>2. acks' = Append(acks, acknowledged_seqn + Len(acks) + 1) /\ Arrived + 1 \in Nat
      BY <1>2, <2>3, <2>4, <3>1
    <3>3. Consecutive(acks', acknowledged_seqn)
      BY <1>2, <2>2, <3>1, <3>2, ConsecutiveAppend
    <3> QED BY <1>8, <3>1, <3>3
  <2>7. InOrder'
    <3>1. acknowledged_seqn <= Arrived + 1
      BY <1>9, <2>2, <2>3
    <3> QED BY <1>1, <2>1, <2>3, <2>4, <2>5, <2>6, <3>1 DEF InOrder
  <2>8. ASSUME ~garbled'
        PROVE  /\ read' = Arrived + 1 /\ max_received_seqn' = Arrived + 1 /\ ~garbled
    BY <1>5, <2>4, <2>8
  <2>9. ASSUME ~ackLost
        PROVE  ~garbled' /\ acknowledged_seqn + Len(acks') = max_received_seqn'
    <3>1. ~garbled /\ acknowledged_seqn + Len(acks) \in {0, max_received_seqn}
      BY <1>15, <2>9 DEF IInv, ReadInOrder
    <3>2. Arrived = 0 \/ Arrived = max_received_seqn
      BY <2>2, <2>9, <3>1
    <3>3. ~IsRepeated(seqn)
      BY <2>3, <2>4, <3>2 DEF IsRepeated
    <3>4. ~garbled' /\ max_received_seqn' = Arrived + 1
      BY <1>5, <2>4, <3>1, <3>3
    <3> QED BY <2>6, <2>9, <3>4
  <2>10. ReadInOrder'
    <3>1. acknowledged_seqn <= Arrived + 1
      BY <1>9, <2>2, <2>3
    <3>2. ASSUME ~garbled'
          PROVE  /\ acknowledged_seqn <= read' /\ acks' \in Seq(1..read')
                 /\ read' = max_received_seqn' /\ Arrived' <= read'
      <4>1. read' = Arrived + 1 /\ max_received_seqn' = Arrived + 1
        BY <2>8, <3>2
      <4>2. acks' \in Seq(1..read')
        BY <2>5, <4>1
      <4> QED BY <2>3, <3>1, <4>1, <4>2
    <3> QED BY <1>1, <1>13, <2>9, <3>2 DEF ReadInOrder
  <2> QED BY <1>10, <1>11, <1>12, <2>7, <2>10 DEF IInv
<1> QED BY <1>14, <1>15

LEMMA NextKeepsIInv == IInv /\ [Next]_vars => IInv'
<1> SUFFICES ASSUME IInv, [Next]_vars PROVE IInv'
  OBVIOUS
<1>1. CASE UNCHANGED vars
  <2>1. UNCHANGED <<Prompt, processor, receiver, connection, counterpart, bounds>>
    BY <1>1 DEF vars
  <2>2. UNCHANGED <<Prompt, data, queue, pending_queue, max_sent_seqn, current_seqn,
                    acknowledged_seqn, interrupt_balance, state, thread, receiver, up, packages,
                    acks, ackLost, max_received_seqn, garbled, read, furthest, puts,
                    connections, restarts>>
    BY <2>1 DEF processor, connection, counterpart, bounds
  <2>3. TypeOK'
    BY <2>2 DEF IInv, TypeOK
  <2> QED BY <2>2, <2>3 DEF IInv, Numbered, UnderWay, Paused, InOrder, ReadInOrder, Arrived
<1> QED BY <1>1, PutKeepsIInv, TakeDataKeepsIInv, ThreadSteps, SendFrontKeepsIInv,
           ConnectKeepsIInv, ResumeKeepsIInv, ReadAckKeepsIInv, PauseKeepsIInv, BreakKeepsIInv,
           RestartKeepsIInv, ReadPackageKeepsIInv DEF Next

LEMMA IInvIsInvariant == Spec => []IInv
  BY InitEstablishesIInv, NextKeepsIInv, PTL DEF Spec

-----------------------------------------------------------------------------
(***************************************************************************)
(* Type correctness of the wire.                                           *)
(***************************************************************************)
THEOREM TypeCorrect == Spec => []TypeOK
<1>1. IInv => TypeOK
  BY DEF IInv
<1> QED BY <1>1, IInvIsInvariant, PTL

(***************************************************************************)
(* Whatever breaks when: the sender holds each message it does not know to *)
(* be acknowledged, once, in order, under its number.                      *)
(***************************************************************************)
THEOREM SenderHoldsUnacknowledged == Spec => []HoldsUnacknowledged
<1>1. ASSUME IInv PROVE HoldsUnacknowledged
  <2> DEFINE n == current_seqn - 1
             ab == pending_queue \o queue
             all == ab \o data
             due == [i \in 1..(puts + 1 - current_seqn) |-> current_seqn + i - 1]
  <2>1. /\ pending_queue \in Seq(Nat) /\ queue \in Seq(Nat) /\ data \in Seq(Nat)
        /\ current_seqn \in Nat /\ max_sent_seqn \in Nat /\ puts \in Nat
    BY <1>1 DEF IInv, TypeOK
  <2>2. /\ Len(pending_queue) \in Nat /\ Len(queue) \in Nat /\ Len(data) \in Nat
        /\ n \in Int
    BY <2>1
  <2>3. /\ Consecutive(pending_queue, n) /\ Consecutive(queue, max_sent_seqn)
        /\ Consecutive(data, max_sent_seqn + Len(queue))
        /\ max_sent_seqn = n + Len(pending_queue)
        /\ puts = max_sent_seqn + Len(queue) + Len(data)
    BY <1>1 DEF IInv, Numbered
  <2>4. ab \in Seq(Nat) /\ Len(ab) = Len(pending_queue) + Len(queue)
    BY <2>1
  <2>5. Consecutive(ab, n)
    BY <2>1, <2>2, <2>3, ConsecutiveConcat
  <2>6. n + Len(ab) = max_sent_seqn + Len(queue)
    BY <2>1, <2>2, <2>3, <2>4
  <2> HIDE DEF ab
  <2>7. /\ all \in Seq(Nat) /\ Len(all) = puts - n
        /\ Consecutive(all, n)
    <3>1. all \in Seq(Nat) /\ Len(all) = Len(ab) + Len(data) /\ Len(ab) \in Nat
      <4>1. ab \in Seq(Nat) /\ data \in Seq(Nat)
        BY <2>1, <2>4
      <4> QED BY <4>1, ConcatProperties
    <3>2. Consecutive(data, n + Len(ab))
      BY <2>3, <2>6
    <3>3. Consecutive(all, n)
      BY <2>1, <2>2, <2>4, <2>5, <3>2, ConsecutiveConcat
    <3> HIDE DEF all, n
    <3>4. Len(all) = puts - n
      <4>1. puts = n + Len(ab) + Len(data)
        BY <2>3, <2>6
      <4> QED BY <2>2, <3>1, <4>1
    <3> QED BY <3>1, <3>3, <3>4
  <2> HIDE DEF all
  <2>8. puts + 1 - current_seqn = Len(all) /\ Len(all) \in Nat
    BY <2>1, <2>7
  <2>9. all = due
    <3>1. all = [i \in 1..Len(all) |-> all[i]]
      BY <2>7
    <3>2. ASSUME NEW i \in 1..Len(all) PROVE all[i] = current_seqn + i - 1
      BY <2>1, <2>7 DEF Consecutive
    <3> QED BY <2>8, <3>1, <3>2
  <2>10. current_seqn + Len(pending_queue) = max_sent_seqn + 1 /\ acknowledged_seqn <= max_sent_seqn
    BY <1>1, <2>1, <2>2, <2>3 DEF IInv, UnderWay
  <2> QED BY <2>9, <2>10 DEF HoldsUnacknowledged, all, ab
<1> QED BY <1>1, IInvIsInvariant, PTL

(***************************************************************************)
(* With a prompt thread nothing acknowledged is unread, and the stream is  *)
(* garbled only if acknowledgements were lost.                             *)
(***************************************************************************)
THEOREM NothingIsLost == Spec => []NothingLost
<1>1. ASSUME IInv PROVE NothingLost
  <2>1. /\ acknowledged_seqn \in Nat /\ current_seqn \in Nat /\ read \in Nat /\ furthest \in Nat
        /\ garbled \in BOOLEAN /\ ackLost \in BOOLEAN
    BY <1>1 DEF IInv, TypeOK
  <2>2. ASSUME Prompt, ~garbled
        PROVE  Maximum(acknowledged_seqn, current_seqn - 1) <= furthest
    <3>1. /\ acknowledged_seqn <= read /\ read <= furthest
          /\ current_seqn \in 1..(acknowledged_seqn + 1)
      BY <1>1, <2>2 DEF IInv, ReadInOrder, UnderWay
    <3> QED BY <2>1, <3>1 DEF Maximum
  <2>3. Prompt /\ garbled => ackLost
    BY <1>1 DEF IInv, ReadInOrder
  <2> QED BY <2>2, <2>3 DEF NothingLost
<1> QED BY <1>1, IInvIsInvariant, PTL

(***************************************************************************)
(* A prompt thread hears each acknowledgement once, in the order of the    *)
(* messages, whatever breaks: what its warning says does not happen.       *)
(***************************************************************************)
THEOREM AcknowledgementsInOrder == Spec => []PromptAcknowledgementsIncrease
<1>1. ASSUME IInv, Prompt, receiver = "receiving", acks # <<>>
      PROVE  Head(acks) > acknowledged_seqn
  <2>1. acks \in Seq(Nat) /\ acknowledged_seqn \in Nat
    BY <1>1 DEF IInv, TypeOK
  <2>2. up
    BY <1>1 DEF IInv, UnderWay
  <2>3. Consecutive(acks, acknowledged_seqn)
    BY <1>1, <2>2 DEF IInv, InOrder
  <2>4. Head(acks) = acknowledged_seqn + 1
    BY <1>1, <2>1, <2>3, ConsecutiveTail
  <2> QED BY <2>1, <2>4
<1>2. IInv => PromptAcknowledgementsIncrease
  BY <1>1 DEF PromptAcknowledgementsIncrease, AcknowledgementsIncrease
<1> QED BY <1>2, IInvIsInvariant, PTL

\* What a step does to the stream.
LEMMA StepIsStreamStep ==
    ASSUME IInv, IInv', Prompt, [Next]_vars
    PROVE  [Stream!Next]_(Stream!vars)
<1> USE DEF Stream!Next, Stream!vars
<1>1. CASE Put
  BY <1>1 DEF Put, counterpart, Stream!Put
<1>2. CASE Restart
  BY <1>2 DEF Restart, Stream!Restart
<1>3. CASE ReadPackage
  <2> DEFINE seqn == Head(packages).seqn
  <2>1. receiver = "receiving" /\ up /\ packages # <<>>
    BY <1>3 DEF ReadPackage, IInv, Paused, InOrder, TypeOK
  <2>2. /\ packages \in Seq(Packages) /\ max_sent_seqn \in Nat /\ max_received_seqn \in Nat
        /\ read \in Nat /\ furthest \in Nat /\ puts \in Nat /\ read <= furthest
        /\ acknowledged_seqn \in Nat /\ acknowledged_seqn <= Arrived
    BY <2>1 DEF IInv, TypeOK, ReadInOrder, InOrder
  <2>3. Len(packages) \in Nat /\ Len(packages) >= 1 /\ Arrived \in Nat /\ Arrived + 1 <= max_sent_seqn
    BY <2>1, <2>2 DEF Arrived
  <2>4. Head(packages) = Package(Arrived + 1)
    BY <2>1, <2>2, <2>3, PackagesTail DEF IInv, InOrder
  <2>5. seqn = Arrived + 1 /\ Head(packages).message = Arrived + 1
    BY <2>3, <2>4, PackageFacts
  <2>6. max_sent_seqn <= puts
    <3>1. puts = max_sent_seqn + Len(queue) + Len(data) /\ Len(queue) \in Nat /\ Len(data) \in Nat
      BY Lengths DEF IInv, Numbered
    <3> QED BY <2>2, <3>1
  <2>7. UNCHANGED puts
    BY <1>3 DEF ReadPackage, bounds
  <2>8. CASE UNCHANGED <<read, furthest>>
    BY <2>7, <2>8
  <2>9. CASE ~UNCHANGED <<read, furthest>>
    <3>1. /\ ~IsRepeated(seqn) /\ ~garbled
          /\ read' = Arrived + 1 /\ furthest' = Maximum(furthest, Arrived + 1)
      BY <1>3, <2>5, <2>9 DEF ReadPackage
    <3>2. Arrived <= read /\ (read = 0 \/ read = max_received_seqn)
      BY <2>1, <3>1 DEF IInv, ReadInOrder
    <3>3. CASE Arrived = read
      <4>1. read < puts
        BY <2>2, <2>3, <2>6, <3>3
      <4>2. furthest' = IF read < furthest THEN furthest ELSE read + 1
        BY <2>2, <3>1, <3>3 DEF Maximum
      <4> QED BY <2>7, <3>1, <3>3, <4>1, <4>2 DEF Stream!ReadNext
    <3>4. CASE Arrived # read
      <4>1. Arrived + 1 = 1 /\ read >= 1
        BY <2>2, <2>3, <2>5, <3>1, <3>2, <3>4 DEF IsRepeated
      <4>2. furthest >= 1 /\ furthest' = furthest /\ read' = 1
        BY <2>2, <3>1, <4>1 DEF Maximum
      <4> QED BY <2>7, <4>2 DEF Stream!ReadAgain
    <3> QED BY <3>3, <3>4
  <2> QED BY <2>8, <2>9
<1>4. CASE UNCHANGED <<puts, read, furthest>>
  BY <1>4
<1>5. \/ Put \/ Restart \/ ReadPackage \/ UNCHANGED <<puts, read, furthest>>
  BY DEF Next, vars, TakeData, EndThread, StartProcessing, SendFront, EndProcessing, Connect,
         Resume, ReadAck, Pause, Stop, Terminate, Break, counterpart, bounds
<1> QED BY <1>1, <1>2, <1>3, <1>4, <1>5

(***************************************************************************)
(* With a prompt thread every step of the wire is one of the stream: what  *)
(* is read is the next message, or the first again.                        *)
(***************************************************************************)
THEOREM WireIsStream == Spec => ImplementsStream
<1>1. Init => (Prompt => Stream!Init)
  BY DEF Init, Stream!Init
<1>2. IInv /\ IInv' /\ [Next]_vars => [Prompt => Stream!Next]_(Stream!vars)
  BY StepIsStreamStep DEF Stream!vars
<1> QED BY <1>1, <1>2, IInvIsInvariant, PTL DEF Spec, ImplementsStream

=============================================================================
