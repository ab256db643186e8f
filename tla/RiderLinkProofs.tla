--------------------------- MODULE RiderLinkProofs ---------------------------
(***************************************************************************)
(* For any number of connections, messages and tasks: whoever views the    *)
(* editor's model (until its module is shut down) or fires into it has the *)
(* one that exists, it is not replaced before the last one was announced   *)
(* to be gone, and an action queued during a connection finds the control  *)
(* that queued it; unless a subscription leaked, a message finds the model *)
(* it was for, and messages are handled in order, all of those that were   *)
(* not destroyed with their queue.                                         *)
(***************************************************************************)
EXTENDS RiderLink, TLAPS, SequenceTheorems

\* What the first part of the proof needs to know about types; the rest of
\* TypeOK needs the messages to be those of the tasks that pop them.
Types ==
    /\ connected \in BOOLEAN /\ connection \in Nat /\ received \in Nat
    /\ actions \in Seq({"unbind", "unsubscribe", "gone"})
    /\ terminating \in Seq({"unbind", "unsubscribe", "gone"})
    /\ subscription \in Nat \cup {Absent}
    /\ tasks \in Seq(Tasks) /\ step \in Steps
    /\ EditorModel \in Nat /\ RdIsModelAlive \in {"unset", "true", "false"}
    /\ viewing \in {"no", "yes", "ended"} /\ GameControl \in Nat

\* Connections follow one another, and only the last can have actions.
Connections ==
    /\ ended \subseteq 1..connection
    /\ \A n \in 1..connection : n \notin ended => n = connection /\ connected
    /\ connected => connection >= 1 /\ connection \notin ended /\ terminating = <<>>
    /\ ~connected => actions = <<>>
    /\ terminating # <<>> => connection >= 1
    /\ EditorModel <= connection

OfConnection(task) == task.kind \in {"connect", "gone"}

\* The first task that is not being executed.
First == IF step = "idle" THEN 1 ELSE 2

\* The tasks that make a model and announce its end are queued in the order
\* of the connections, ...
Sorted ==
    \A i, j \in 1..Len(tasks) : i < j /\ OfConnection(tasks[i]) =>
        /\ tasks[j].kind = "connect" => tasks[i].number < tasks[j].number
        /\ tasks[j].kind = "gone" => tasks[i].number <= tasks[j].number

\* ... and none is behind the model that there is.
Known ==
    /\ \A i \in 1..Len(tasks) :
          /\ OfConnection(tasks[i]) => tasks[i].number \in 1..connection
          /\ tasks[i].kind = "gone" => tasks[i].number \in ended
    /\ \A i \in First..Len(tasks) :
          /\ tasks[i].kind = "connect" => EditorModel < tasks[i].number
          /\ tasks[i].kind = "gone" => EditorModel <= tasks[i].number

\* Which task is executed, step by step.  While a model is made it is not
\* alive, and while a control is made there is none.
MakingSteps == {"bind", "unbind", "subscribe", "unsubscribe", "watch", "alive"}

PopSteps == {"take", "hand", "test", "erase"}

Making ==
    /\ step # "idle" => tasks # <<>>
    /\ step \in MakingSteps =>
          /\ Head(tasks).kind = "connect" /\ Head(tasks).number = EditorModel
          /\ RdIsModelAlive # "true"
    /\ step = "control" =>
          /\ Head(tasks).kind \in {"connect", "view"} /\ RdIsModelAlive = "true"
          /\ viewing # "no" /\ (viewing = "yes" => GameControl = 0)
    /\ step \in PopSteps => Head(tasks).kind \in {"pop", "dangling"}

\* The end of a model that is alive will be announced: by the lifetime of the
\* last connection, or by a task already.
EndAnnounced ==
    \/ /\ EditorModel = connection
       /\ \/ \E i \in 1..Len(actions) : actions[i] = "gone"
          \/ \E i \in 1..Len(terminating) : terminating[i] = "gone"
    \/ \E i \in First..Len(tasks) : tasks[i].kind = "gone" /\ tasks[i].number = EditorModel

Announced == RdIsModelAlive = "true" \/ step = "alive" => EndAnnounced

Used ==
    /\ viewing = "no" => GameControl = 0
    /\ viewing = "yes" /\ GameControl # 0 => GameControl = EditorModel /\ RdIsModelAlive = "true"
    /\ firing # 0 => firing = EditorModel

\* An action queued during a connection is ahead of what ends it.
Queued(i) == tasks[i].kind = "action" /\ tasks[i].message[2] = 0

Scheduled ==
    /\ viewing = "no" => \A i \in 1..Len(tasks) : tasks[i].kind # "action"
    /\ viewing = "yes" => \A i \in 1..Len(tasks) : Queued(i) =>
          /\ GameControl = tasks[i].number /\ GameControl # 0
          /\ \A j \in 1..(i - 1) : ~OfConnection(tasks[j])

IInv == Types /\ Connections /\ Sorted /\ Known /\ Making /\ Announced /\ Used /\ Scheduled

-----------------------------------------------------------------------------
\* What happens to the queue of tasks.
LEMMA AppendedTasks ==
    ASSUME tasks \in Seq(Tasks), NEW t \in Tasks, tasks' = Append(tasks, t)
    PROVE  /\ tasks' \in Seq(Tasks) /\ Len(tasks) \in Nat /\ Len(tasks') = Len(tasks) + 1
           /\ \A i \in 1..Len(tasks) : tasks'[i] = tasks[i]
           /\ \A i \in 1..Len(tasks') : \/ i \in 1..Len(tasks) /\ tasks'[i] = tasks[i]
                                        \/ i = Len(tasks) + 1 /\ tasks'[i] = t
<1>1. /\ tasks' \in Seq(Tasks) /\ Len(tasks) \in Nat /\ Len(tasks') = Len(tasks) + 1
      /\ \A i \in 1..Len(tasks) : tasks'[i] = tasks[i]
      /\ tasks'[Len(tasks) + 1] = t
  BY AppendProperties
<1>2. Len(tasks) \in Nat /\ Len(tasks') = Len(tasks) + 1
  BY <1>1
<1>3. \A i \in 1..Len(tasks') : i \in 1..Len(tasks) \/ i = Len(tasks) + 1
  BY <1>2
<1>4. \A i \in 1..Len(tasks') : \/ i \in 1..Len(tasks) /\ tasks'[i] = tasks[i]
                                \/ i = Len(tasks) + 1 /\ tasks'[i] = t
  BY <1>1, <1>3, Zenon
<1> QED BY <1>1, <1>4, Zenon

\* The first task is removed; the others stay but for their iterators.
Removed == tasks' \in {Tail(tasks), LeftDangling}

Same(task, was) ==
    /\ task.number = was.number /\ task.message = was.message
    /\ task.kind = was.kind \/ (task.kind = "dangling" /\ was.kind = "pop")

LEMMA FinishedTasks ==
    ASSUME tasks \in Seq(Tasks), tasks # <<>>, Removed
    PROVE  /\ tasks' \in Seq(Tasks) /\ Len(tasks) \in Nat /\ Len(tasks) >= 1
           /\ Len(tasks') = Len(tasks) - 1
           /\ Head(tasks) = tasks[1] /\ Head(tasks) \in Tasks
           /\ \A i \in 1..Len(tasks') : i + 1 \in 2..Len(tasks) /\ Same(tasks'[i], tasks[i + 1])
           /\ tasks' = Tail(tasks) => \A i \in 1..Len(tasks') : tasks'[i] = tasks[i + 1]
<1>1. Len(tasks) \in Nat /\ Len(tasks) >= 1 /\ Head(tasks) = tasks[1] /\ Head(tasks) \in Tasks
  BY HeadTailProperties
<1>2. CASE tasks' = Tail(tasks)
  <2>1. /\ tasks' \in Seq(Tasks) /\ Len(tasks') = Len(tasks) - 1
        /\ \A i \in 1..Len(tasks') : i + 1 \in 2..Len(tasks) /\ tasks'[i] = tasks[i + 1]
    BY <1>2, HeadTailProperties
  <2> QED BY <1>1, <2>1 DEF Same
<1>3. CASE tasks' = LeftDangling
  <2> DEFINE n == Len(tasks) - 1
  <2>1. \A i \in 1..n : i + 1 \in 2..Len(tasks) /\ tasks[i + 1] \in Tasks
    BY <1>1, ElementOfSeq
  <2>2. /\ DOMAIN tasks' = 1..n
        /\ \A i \in 1..n : tasks'[i] = IF tasks[i + 1].kind = "pop"
                                      THEN [tasks[i + 1] EXCEPT !.kind = "dangling"]
                                      ELSE tasks[i + 1]
    BY <1>3 DEF LeftDangling
  <2>3. \A i \in 1..n : tasks'[i] \in Tasks /\ Same(tasks'[i], tasks[i + 1])
    <3> SUFFICES ASSUME NEW i \in 1..n
                 PROVE  tasks'[i] \in Tasks /\ Same(tasks'[i], tasks[i + 1])
      OBVIOUS
    <3>1. CASE tasks[i + 1].kind = "pop"
      <4>1. tasks'[i] = [tasks[i + 1] EXCEPT !.kind = "dangling"]
        BY <2>2, <3>1
      <4> QED BY <2>1, <3>1, <4>1 DEF Same, Tasks
    <3>2. CASE tasks[i + 1].kind # "pop"
      <4>1. tasks'[i] = tasks[i + 1]
        BY <2>2, <3>2
      <4> QED BY <2>1, <4>1 DEF Same
    <3> QED BY <3>1, <3>2
  <2>4. n \in Nat
    BY <1>1
  <2>5. tasks' \in Seq(Tasks) /\ Len(tasks') = n
    <3>1. tasks' = [i \in 1..n |-> tasks'[i]]
      BY <1>3 DEF LeftDangling
    <3>2. tasks' \in [1..n -> Tasks]
      BY <2>3, <3>1
    <3> HIDE DEF n
    <3> QED BY <2>4, <3>2, SeqDef, LenProperties
  <2>6. tasks' = Tail(tasks) => \A i \in 1..n : tasks'[i] = tasks[i + 1]
    BY HeadTailProperties
  <2>7. \A i \in 1..n : i + 1 \in 2..Len(tasks) /\ Same(tasks'[i], tasks[i + 1])
    BY <2>1, <2>3
  <2> QED BY <1>1, <2>5, <2>6, <2>7
<1> QED BY <1>2, <1>3 DEF Removed

LEMMA HeadTask ==
    ASSUME tasks \in Seq(Tasks), tasks # <<>>
    PROVE  Len(tasks) \in Nat /\ 1 \in 1..Len(tasks) /\ Head(tasks) = tasks[1] /\ Head(tasks) \in Tasks
  BY HeadTailProperties

LEMMA TaskTypes ==
    ASSUME tasks \in Seq(Tasks)
    PROVE  /\ Len(tasks) \in Nat
           /\ \A i \in 1..Len(tasks) : tasks[i] \in Tasks /\ tasks[i].number \in Nat
  <1>1. Len(tasks) \in Nat /\ \A i \in 1..Len(tasks) : tasks[i] \in Tasks
    BY ElementOfSeq
  <1> QED BY <1>1 DEF Tasks

LEMMA FirstIs == /\ First \in {1, 2}
                 /\ step = "idle" => First = 1
                 /\ step # "idle" => First = 2
  BY DEF First

\* A task that is added belongs to the last connection, if to any.
LEMMA AppendingKeepsOrder ==
    ASSUME Types, Sorted, Known, connection' \in Nat, connection <= connection',
           ended \subseteq ended', EditorModel <= connection,
           UNCHANGED <<step, EditorModel>>,
           NEW t \in Tasks, tasks' = Append(tasks, t),
           OfConnection(t) => t.number \in 1..connection',
           t.kind = "connect" => connection < t.number,
           t.kind = "gone" => t.number \in ended' /\ connection <= t.number
    PROVE  Sorted' /\ Known'
<1>1. /\ tasks \in Seq(Tasks) /\ connection \in Nat /\ EditorModel \in Nat /\ t.number \in Nat
  BY DEF Types, Tasks
<1>2. /\ Len(tasks) \in Nat /\ Len(tasks') = Len(tasks) + 1
      /\ \A i \in 1..Len(tasks') : \/ i \in 1..Len(tasks) /\ tasks'[i] = tasks[i]
                                   \/ i = Len(tasks) + 1 /\ tasks'[i] = t
  BY <1>1, AppendedTasks
<1>3. \A i \in 1..Len(tasks) : OfConnection(tasks[i]) =>
          tasks[i].number \in Nat /\ tasks[i].number <= connection
  BY <1>1 DEF Known
<1>4. Sorted'
  <2> SUFFICES ASSUME NEW i \in 1..Len(tasks'), NEW j \in 1..Len(tasks'), i < j,
                      OfConnection(tasks'[i])
               PROVE  /\ tasks'[j].kind = "connect" => tasks'[i].number < tasks'[j].number
                      /\ tasks'[j].kind = "gone" => tasks'[i].number <= tasks'[j].number
    BY DEF Sorted, OfConnection
  <2>1. i \in 1..Len(tasks) /\ tasks'[i] = tasks[i]
    BY <1>2
  <2>2. CASE j \in 1..Len(tasks) /\ tasks'[j] = tasks[j]
    BY <2>1, <2>2 DEF Sorted
  <2>3. CASE tasks'[j] = t
    <3>1. tasks[i].number \in Nat /\ tasks[i].number <= connection
      BY <1>3, <2>1
    <3> QED BY <1>1, <2>1, <2>3, <3>1
  <2> QED BY <1>2, <2>2, <2>3
<1>5. Known'
  <2>1. ASSUME NEW i \in 1..Len(tasks')
        PROVE  /\ OfConnection(tasks'[i]) => tasks'[i].number \in 1..connection'
               /\ tasks'[i].kind = "gone" => tasks'[i].number \in ended'
    <3>1. CASE i \in 1..Len(tasks) /\ tasks'[i] = tasks[i]
      <4>1. /\ OfConnection(tasks[i]) => tasks[i].number \in 1..connection
            /\ tasks[i].kind = "gone" => tasks[i].number \in ended
        BY <3>1 DEF Known
      <4>2. 1..connection \subseteq 1..connection'
        BY <1>1
      <4> QED BY <3>1, <4>1, <4>2
    <3>2. CASE tasks'[i] = t
      BY <3>2
    <3> QED BY <1>2, <3>1, <3>2
  <2>2. ASSUME NEW i \in First..Len(tasks')
        PROVE  /\ tasks'[i].kind = "connect" => EditorModel < tasks'[i].number
               /\ tasks'[i].kind = "gone" => EditorModel <= tasks'[i].number
    <3>1. CASE i \in 1..Len(tasks) /\ tasks'[i] = tasks[i]
      <4>1. i \in First..Len(tasks)
        BY <1>2, <3>1, FirstIs
      <4> QED BY <3>1, <4>1 DEF Known
    <3>2. CASE tasks'[i] = t
      BY <1>1, <3>2
    <3>3. i \in 1..Len(tasks')
      BY <1>2, FirstIs
    <3> QED BY <1>2, <3>1, <3>2, <3>3
  <2>3. First' = First
    BY DEF First
  <2> QED BY <2>1, <2>2, <2>3 DEF Known, OfConnection
<1> QED BY <1>4, <1>5

LEMMA FinishingKeepsOrder ==
    ASSUME Types, Sorted, Known, UNCHANGED <<EditorModel, connection, ended>>,
           tasks # <<>>, Removed, step' = "idle"
    PROVE  Sorted' /\ Known'
<1>1. /\ Len(tasks) \in Nat /\ Len(tasks') = Len(tasks) - 1
      /\ \A i \in 1..Len(tasks') : i + 1 \in 2..Len(tasks) /\ Same(tasks'[i], tasks[i + 1])
  BY FinishedTasks DEF Types
<1>2. Sorted'
  <2> SUFFICES ASSUME NEW i \in 1..Len(tasks'), NEW j \in 1..Len(tasks'), i < j,
                      OfConnection(tasks'[i])
               PROVE  /\ tasks'[j].kind = "connect" => tasks'[i].number < tasks'[j].number
                      /\ tasks'[j].kind = "gone" => tasks'[i].number <= tasks'[j].number
    BY DEF Sorted, OfConnection
  <2>1. /\ i + 1 \in 1..Len(tasks) /\ j + 1 \in 1..Len(tasks) /\ i + 1 < j + 1
        /\ Same(tasks'[i], tasks[i + 1]) /\ Same(tasks'[j], tasks[j + 1])
    BY <1>1
  <2>2. OfConnection(tasks[i + 1])
    BY <2>1 DEF Same, OfConnection
  <2>3. /\ tasks[j + 1].kind = "connect" => tasks[i + 1].number < tasks[j + 1].number
        /\ tasks[j + 1].kind = "gone" => tasks[i + 1].number <= tasks[j + 1].number
    BY <2>1, <2>2 DEF Sorted
  <2> QED BY <2>1, <2>3 DEF Same
<1>3. Known'
  <2>1. ASSUME NEW i \in 1..Len(tasks')
        PROVE  /\ OfConnection(tasks'[i]) => tasks'[i].number \in 1..connection
               /\ tasks'[i].kind = "gone" => tasks'[i].number \in ended
               /\ tasks'[i].kind = "connect" => EditorModel < tasks'[i].number
               /\ tasks'[i].kind = "gone" => EditorModel <= tasks'[i].number
    <3>1. /\ i + 1 \in 1..Len(tasks) /\ i + 1 \in First..Len(tasks)
          /\ Same(tasks'[i], tasks[i + 1])
      BY <1>1, FirstIs
    <3> QED BY <3>1 DEF Known, Same, OfConnection
  <2>2. First' = 1
    BY DEF First
  <2> QED BY <2>1, <2>2 DEF Known, OfConnection
<1> QED BY <1>2, <1>3

\* Actions that are added belong to the control there is.
LEMMA AppendingKeepsSchedule ==
    ASSUME Types, Scheduled, UNCHANGED <<viewing, GameControl>>,
           NEW t \in Tasks, tasks' = Append(tasks, t),
           t.kind = "action" => /\ viewing = "yes" /\ GameControl = t.number /\ GameControl # 0
                                /\ t.message[2] = 0 => \A j \in 1..Len(tasks) : ~OfConnection(tasks[j])
    PROVE  Scheduled'
<1>1. /\ Len(tasks) \in Nat /\ Len(tasks') = Len(tasks) + 1
      /\ \A i \in 1..Len(tasks) : tasks'[i] = tasks[i]
      /\ \A i \in 1..Len(tasks') : \/ i \in 1..Len(tasks) /\ tasks'[i] = tasks[i]
                                   \/ i = Len(tasks) + 1 /\ tasks'[i] = t
  BY AppendedTasks DEF Types
<1>2. ASSUME viewing = "no", NEW i \in 1..Len(tasks') PROVE tasks'[i].kind # "action"
  BY <1>1, <1>2 DEF Scheduled
<1>3. ASSUME viewing = "yes", NEW i \in 1..Len(tasks'),
             tasks'[i].kind = "action", tasks'[i].message[2] = 0
      PROVE  /\ GameControl = tasks'[i].number /\ GameControl # 0
             /\ \A j \in 1..(i - 1) : ~OfConnection(tasks'[j])
  <2>1. \A j \in 1..(i - 1) : j \in 1..Len(tasks) /\ tasks'[j] = tasks[j]
    BY <1>1
  <2>2. CASE i \in 1..Len(tasks) /\ tasks'[i] = tasks[i]
    <3>1. Queued(i)
      BY <1>3, <2>2 DEF Queued
    <3>2. /\ GameControl = tasks[i].number /\ GameControl # 0
          /\ \A j \in 1..(i - 1) : ~OfConnection(tasks[j])
      BY <1>3, <2>2, <3>1 DEF Scheduled
    <3> QED BY <2>1, <2>2, <3>2
  <2>3. CASE tasks'[i] = t
    BY <1>3, <2>1, <2>3
  <2> QED BY <1>1, <2>2, <2>3
<1> QED BY <1>2, <1>3 DEF Scheduled, Queued, OfConnection

LEMMA FinishingKeepsSchedule ==
    ASSUME Types, Scheduled, UNCHANGED <<viewing, GameControl>>,
           tasks # <<>>, Removed
    PROVE  Scheduled'
<1>1. /\ Len(tasks) \in Nat /\ Len(tasks') = Len(tasks) - 1
      /\ \A i \in 1..Len(tasks') : i + 1 \in 2..Len(tasks) /\ Same(tasks'[i], tasks[i + 1])
  BY FinishedTasks DEF Types
<1>2. ASSUME viewing = "no", NEW i \in 1..Len(tasks') PROVE tasks'[i].kind # "action"
  <2>1. i + 1 \in 1..Len(tasks) /\ Same(tasks'[i], tasks[i + 1])
    BY <1>1
  <2> QED BY <1>2, <2>1 DEF Scheduled, Same
<1>3. ASSUME viewing = "yes", NEW i \in 1..Len(tasks'),
             tasks'[i].kind = "action", tasks'[i].message[2] = 0
      PROVE  /\ GameControl = tasks'[i].number /\ GameControl # 0
             /\ \A j \in 1..(i - 1) : ~OfConnection(tasks'[j])
  <2>1. i + 1 \in 1..Len(tasks) /\ Same(tasks'[i], tasks[i + 1])
    BY <1>1
  <2>2. Queued(i + 1)
    BY <1>3, <2>1 DEF Queued, Same
  <2>3. /\ GameControl = tasks[i + 1].number /\ GameControl # 0
        /\ \A j \in 1..i : ~OfConnection(tasks[j])
    <3>1. i + 1 - 1 = i
      BY <1>1
    <3> QED BY <1>3, <2>1, <2>2, <3>1 DEF Scheduled
  <2>4. ASSUME NEW j \in 1..(i - 1) PROVE ~OfConnection(tasks'[j])
    <3>1. j + 1 \in 1..i /\ j \in 1..Len(tasks')
      BY <1>1
    <3>2. Same(tasks'[j], tasks[j + 1])
      BY <1>1, <3>1
    <3> QED BY <2>3, <3>1, <3>2 DEF Same, OfConnection
  <2> QED BY <2>1, <2>3, <2>4 DEF Same
<1> QED BY <1>2, <1>3 DEF Scheduled, Queued, OfConnection

\* What the end of a model's connection will announce stays so.
LEMMA AppendingKeepsAnnounced ==
    ASSUME Types, Announced, UNCHANGED <<step, EditorModel, RdIsModelAlive>>,
           NEW t \in Tasks, tasks' = Append(tasks, t),
           UNCHANGED <<connection, actions, terminating>>
    PROVE  Announced'
<1>1. /\ Len(tasks) \in Nat /\ Len(tasks') = Len(tasks) + 1
      /\ \A i \in 1..Len(tasks) : tasks'[i] = tasks[i]
  BY AppendedTasks DEF Types
<1>2. \A i \in First..Len(tasks) : i \in First..Len(tasks') /\ tasks'[i] = tasks[i]
  BY <1>1, FirstIs
<1>3. First' = First
  BY DEF First
<1> QED BY <1>2, <1>3 DEF Announced, EndAnnounced

LEMMA FinishingKeepsAnnounced ==
    ASSUME Types, EndAnnounced, UNCHANGED <<EditorModel, connection, actions, terminating>>,
           tasks # <<>>, Removed, step' = "idle",
           step = "idle" => Head(tasks).kind # "gone"
    PROVE  EndAnnounced'
<1>1. /\ Len(tasks) \in Nat /\ Len(tasks) >= 1 /\ Len(tasks') = Len(tasks) - 1
      /\ Head(tasks) = tasks[1]
      /\ \A i \in 1..Len(tasks') : i + 1 \in 2..Len(tasks) /\ Same(tasks'[i], tasks[i + 1])
  BY FinishedTasks DEF Types
<1>2. First' = 1
  BY DEF First
<1>3. ASSUME NEW i \in First..Len(tasks), tasks[i].kind = "gone", tasks[i].number = EditorModel
      PROVE  \E k \in 1..Len(tasks') : tasks'[k].kind = "gone" /\ tasks'[k].number = EditorModel
  <2>1. i # 1 /\ i \in 1..Len(tasks)
    BY <1>1, <1>3, FirstIs
  <2>2. i - 1 \in 1..Len(tasks') /\ Same(tasks'[i - 1], tasks[i - 1 + 1]) /\ i - 1 + 1 = i
    BY <1>1, <2>1
  <2> QED BY <1>3, <2>2 DEF Same
<1> QED BY <1>2, <1>3 DEF EndAnnounced

\* The next step of the task that is executed.
LEMMA SteppingKeepsTasks ==
    ASSUME Types, Sorted, Known, Scheduled, tasks # <<>>, step' # "idle",
           step = "idle" => Head(tasks).kind \notin {"connect", "gone"},
           UNCHANGED <<tasks, EditorModel, connection, ended>>,
           viewing' = viewing /\ GameControl' = GameControl
    PROVE  /\ Sorted' /\ Known' /\ Scheduled'
           /\ EndAnnounced /\ UNCHANGED <<actions, terminating>> => EndAnnounced'
<1>1. First' = 2 /\ First \in {1, 2} /\ (First = 1 => step = "idle")
  BY DEF First
<1>2. 1 \in 1..Len(tasks) /\ Head(tasks) = tasks[1] /\ Len(tasks) \in Nat
  BY HeadTask DEF Types
<1>3. \A i \in 2..Len(tasks) : i \in First..Len(tasks)
  BY <1>1, <1>2
<1>4. Sorted' /\ Scheduled'
  BY DEF Sorted, Scheduled, OfConnection, Queued
<1>5. Known'
  BY <1>1, <1>3 DEF Known, OfConnection
<1>6. ASSUME NEW i \in First..Len(tasks), tasks[i].kind = "gone" PROVE i \in 2..Len(tasks)
  BY <1>1, <1>2, <1>6
<1>7. EndAnnounced /\ UNCHANGED <<actions, terminating>> => EndAnnounced'
  BY <1>1, <1>6 DEF EndAnnounced
<1> QED BY <1>4, <1>5, <1>7

-----------------------------------------------------------------------------
LEMMA InitEstablishesIInv == Init => IInv
<1> SUFFICES ASSUME Init PROVE IInv
  OBVIOUS
<1>1. Types
  <2>1. /\ actions \in Seq({"unbind", "unsubscribe", "gone"})
        /\ terminating \in Seq({"unbind", "unsubscribe", "gone"}) /\ tasks \in Seq(Tasks)
    BY DEF Init
  <2> QED BY <2>1 DEF Init, Types, Steps, Absent
<1>2. Connections
  BY DEF Init, Connections
<1>3. Sorted /\ Known /\ Scheduled
  <2>1. tasks = <<>> /\ Len(tasks) = 0 /\ First = 1
    BY DEF Init, First
  <2> QED BY <2>1 DEF Sorted, Known, Scheduled
<1>4. Making /\ Announced /\ Used
  BY DEF Init, Making, MakingSteps, PopSteps, Announced, EndAnnounced, Used
<1> QED BY <1>1, <1>2, <1>3, <1>4 DEF IInv

\* A task that is nothing but added.
LEMMA PlainlyAppended ==
    ASSUME IInv, NEW t \in Tasks, tasks' = Append(tasks, t), ~OfConnection(t),
           UNCHANGED <<connected, connection, ended, actions, terminating, step, EditorModel,
                       RdIsModelAlive, viewing, GameControl, firing>>,
           received' \in Nat, subscription' \in Nat \cup {Absent},
           t.kind = "action" => /\ viewing = "yes" /\ GameControl = t.number /\ GameControl # 0
                                /\ t.message[2] = 0 => \A j \in 1..Len(tasks) : ~OfConnection(tasks[j])
    PROVE  IInv'
<1>0. Types /\ Connections /\ Sorted /\ Known /\ Making /\ Announced /\ Used /\ Scheduled
  BY DEF IInv
<1>1. Types'
  BY <1>0, AppendedTasks DEF Types
<1>2. Connections' /\ Used'
  BY <1>0 DEF Connections, Used
<1>3. Sorted' /\ Known'
  BY <1>0, AppendingKeepsOrder DEF OfConnection, Types, Connections
<1>4. Making'
  <2>1. tasks # <<>> => tasks' # <<>> /\ Head(tasks') = Head(tasks)
    BY <1>0 DEF Types
  <2> QED BY <1>0, <2>1 DEF Making, MakingSteps, PopSteps
<1>5. Announced'
  BY <1>0, AppendingKeepsAnnounced
<1>6. Scheduled'
  BY <1>0, AppendingKeepsSchedule
<1> QED BY <1>1, <1>2, <1>3, <1>4, <1>5, <1>6 DEF IInv

\* A task that is nothing but finished.
LEMMA PlainlyFinished ==
    ASSUME IInv, tasks # <<>>, step' = "idle", Removed,
           UNCHANGED <<connected, connection, ended, actions, terminating, received, EditorModel,
                       RdIsModelAlive, viewing, GameControl, firing>>,
           subscription' \in Nat \cup {Absent},
           step = "idle" => Head(tasks).kind # "gone"
    PROVE  IInv'
<1>0. Types /\ Connections /\ Sorted /\ Known /\ Making /\ Announced /\ Used /\ Scheduled
  BY DEF IInv
<1>1. Types'
  BY <1>0, FinishedTasks DEF Types, Steps
<1>2. Connections' /\ Used' /\ Making'
  BY <1>0 DEF Connections, Used, Making, MakingSteps, PopSteps
<1>3. Sorted' /\ Known'
  BY <1>0, FinishingKeepsOrder
<1>4. Announced'
  BY <1>0, FinishingKeepsAnnounced DEF Announced
<1>5. Scheduled'
  BY <1>0, FinishingKeepsSchedule
<1> QED BY <1>1, <1>2, <1>3, <1>4, <1>5 DEF IInv

\* A step of a task that makes no model and does not change what there is to
\* view.
LEMMA PlainlyBegun ==
    ASSUME IInv, tasks # <<>>, Head(tasks).kind \in {"pop", "dangling"}, step' \in PopSteps,
           UNCHANGED <<connected, connection, ended, actions, terminating, received, tasks,
                       EditorModel, RdIsModelAlive, viewing, GameControl, firing>>,
           subscription' \in Nat \cup {Absent}
    PROVE  IInv'
<1>0. Types /\ Connections /\ Sorted /\ Known /\ Making /\ Announced /\ Used /\ Scheduled
  BY DEF IInv
<1>1. step' # "idle" /\ step' \in Steps
  BY DEF PopSteps, Steps
<1>2. Types'
  BY <1>0, <1>1 DEF Types
<1>3. Connections' /\ Used' /\ Making'
  BY <1>0 DEF Connections, Used, Making, MakingSteps, PopSteps
<1>4. /\ Sorted' /\ Known' /\ Scheduled'
      /\ EndAnnounced => EndAnnounced'
  BY <1>0, <1>1, SteppingKeepsTasks
<1>5. Announced'
  BY <1>0, <1>4 DEF Announced, PopSteps
<1> QED BY <1>2, <1>3, <1>4, <1>5 DEF IInv

LEMMA ConnectKeepsIInv == ASSUME IInv, Connect PROVE IInv'
<1> DEFINE t == Task("connect", connection + 1, NoMessage)
<1>0. Types /\ Connections /\ Sorted /\ Known /\ Making /\ Announced /\ Used /\ Scheduled
  BY DEF IInv
<1>1. /\ UNCHANGED <<ended, terminating, subscription, messages, step, EditorModel,
                     RdIsModelAlive, viewing, GameControl, bound, firing>>
      /\ connected' = TRUE /\ connection' = connection + 1 /\ actions' = <<>> /\ received' = 0
      /\ tasks' = Append(tasks, t) /\ ~connected /\ terminating = <<>>
  BY DEF Connect, broker, model
<1>2. t \in Tasks /\ t.kind = "connect" /\ t.number = connection + 1 /\ OfConnection(t)
  BY <1>0 DEF Task, Tasks, Messages, NoMessage, Types, OfConnection
<1> HIDE DEF t
<1>3. /\ connection \in Nat /\ connection' \in Nat /\ EditorModel <= connection
      /\ EditorModel \in Nat /\ tasks \in Seq(Tasks) /\ ended \subseteq 1..connection
  BY <1>0, <1>1 DEF Types, Connections
<1>4. Types'
  <2>1. actions' \in Seq({"unbind", "unsubscribe", "gone"})
    BY <1>1
  <2>2. tasks' \in Seq(Tasks)
    BY <1>1, <1>2, <1>3, AppendedTasks
  <2> QED BY <1>0, <1>1, <1>3, <2>1, <2>2 DEF Types
<1>5. Connections'
  <2>1. ended \subseteq 1..(connection + 1) /\ connection + 1 \notin ended
    BY <1>3
  <2>2. \A n \in 1..connection : n \in ended
    BY <1>0, <1>1 DEF Connections
  <2>3. \A n \in 1..(connection + 1) : n \notin ended => n = connection + 1
    BY <1>3, <2>2
  <2> QED BY <1>1, <1>3, <2>1, <2>3 DEF Connections
<1>6. Sorted' /\ Known'
  <2>1. connection < t.number /\ t.number \in 1..connection' /\ connection <= connection'
    BY <1>1, <1>2, <1>3
  <2> QED BY <1>0, <1>1, <1>2, <1>3, <2>1, AppendingKeepsOrder
<1>7. Making'
  <2>1. tasks # <<>> => tasks' # <<>> /\ Head(tasks') = Head(tasks)
    BY <1>1, <1>3
  <2> QED BY <1>0, <1>1, <2>1 DEF Making, MakingSteps, PopSteps
<1>8. Announced'
  <2>1. RdIsModelAlive = "true" \/ step = "alive" =>
            \E i \in First..Len(tasks) : tasks[i].kind = "gone" /\ tasks[i].number = EditorModel
    <3>1. actions = <<>> /\ Len(actions) = 0 /\ Len(terminating) = 0
      BY <1>0, <1>1 DEF Connections
    <3> QED BY <1>0, <3>1 DEF Announced, EndAnnounced
  <2>2. /\ Len(tasks) \in Nat /\ Len(tasks') = Len(tasks) + 1
        /\ \A i \in 1..Len(tasks) : tasks'[i] = tasks[i]
    BY <1>1, <1>2, <1>3, AppendedTasks
  <2>3. \A i \in First..Len(tasks) : i \in First..Len(tasks') /\ tasks'[i] = tasks[i]
    BY <2>2, FirstIs
  <2>4. First' = First
    BY <1>1 DEF First
  <2> QED BY <1>1, <2>1, <2>3, <2>4 DEF Announced, EndAnnounced
<1>9. Used'
  BY <1>0, <1>1 DEF Used
<1>10. Scheduled'
  BY <1>0, <1>1, <1>2, AppendingKeepsSchedule
<1> QED BY <1>4, <1>5, <1>6, <1>7, <1>8, <1>9, <1>10 DEF IInv

LEMMA ReceiveKeepsIInv == ASSUME IInv, Receive PROVE IInv'
<1>1. /\ UNCHANGED <<connected, connection, ended, actions, terminating, step, EditorModel,
                     RdIsModelAlive, viewing, GameControl, firing>>
      /\ received' = received + 1 /\ received \in Nat /\ connection \in Nat
      /\ subscription \in Nat \cup {Absent} /\ tasks \in Seq(Tasks)
  BY DEF Receive, model, IInv, Types
<1>2. subscription' \in Nat \cup {Absent} /\ received' \in Nat
  BY <1>1 DEF Receive
<1>3. <<connection, received + 1>> \in Messages
  BY <1>1 DEF Messages
<1>4. PICK t \in Tasks : tasks' = Append(tasks, t) /\ t.kind \in {"pop", "invoke"}
  <2>1. CASE subscription > 0
    <3>1. Task("invoke", subscription, <<connection, received + 1>>) \in Tasks
      BY <1>1, <1>3, <2>1 DEF Task, Tasks, Absent
    <3>2. tasks' = Append(tasks, Task("invoke", subscription, <<connection, received + 1>>))
      BY <2>1 DEF Receive, Dispatch
    <3> QED BY <3>1, <3>2 DEF Task
  <2>2. CASE ~(subscription > 0)
    <3>1. Task("pop", 0, <<connection, received + 1>>) \in Tasks
      BY <1>3 DEF Task, Tasks
    <3>2. tasks' = Append(tasks, Task("pop", 0, <<connection, received + 1>>))
      BY <2>2 DEF Receive, DispatchToNobody
    <3> QED BY <3>1, <3>2 DEF Task
  <2> QED BY <2>1, <2>2
<1>5. ~OfConnection(t) /\ t.kind # "action"
  BY <1>4 DEF OfConnection
<1> QED BY <1>1, <1>2, <1>4, <1>5, PlainlyAppended

LEMMA QueueViewKeepsIInv == ASSUME IInv, QueueView PROVE IInv'
<1> DEFINE t == Task("view", 0, NoMessage)
<1>1. /\ UNCHANGED <<connected, connection, ended, actions, terminating, received, step,
                     subscription, EditorModel, RdIsModelAlive, viewing, GameControl, firing>>
      /\ tasks' = Append(tasks, t)
  BY DEF QueueView, wire, broker, model
<1>2. t \in Tasks /\ t.kind = "view" /\ ~OfConnection(t)
  BY DEF Task, Tasks, Messages, NoMessage, OfConnection
<1> HIDE DEF t
<1>3. received' \in Nat /\ subscription' \in Nat \cup {Absent}
  BY <1>1 DEF IInv, Types
<1> QED BY <1>1, <1>2, <1>3, PlainlyAppended

LEMMA ScheduleKeepsIInv == ASSUME IInv, Schedule PROVE IInv'
<1> DEFINE over == IF GameControl \in ended THEN 1 ELSE 0
           t == Task("action", GameControl, <<GameControl, over>>)
<1>0. Types /\ Connections /\ Known /\ Making /\ Used
  BY DEF IInv
<1>1. /\ UNCHANGED <<connected, connection, ended, actions, terminating, received, step,
                     subscription, EditorModel, RdIsModelAlive, viewing, GameControl, firing>>
      /\ tasks' = Append(tasks, t) /\ GameControl # 0 /\ viewing = "yes"
  BY DEF Schedule, ScheduleModelAction, wire, broker, model
<1>2. /\ t \in Tasks /\ t.kind = "action" /\ t.number = GameControl /\ t.message[2] = over
      /\ ~OfConnection(t)
  BY <1>0 DEF Task, Tasks, Messages, OfConnection, Types
<1>3. received' \in Nat /\ subscription' \in Nat \cup {Absent}
  BY <1>0, <1>1 DEF Types
<1>4. /\ GameControl = EditorModel
      /\ step = "idle" \/ (tasks # <<>> /\ ~OfConnection(Head(tasks)))
  BY <1>0, <1>1 DEF Used, Making, MakingSteps, PopSteps, Types, Steps, OfConnection
<1>5. ASSUME over = 0, NEW j \in 1..Len(tasks) PROVE ~OfConnection(tasks[j])
  <2>1. EditorModel = connection /\ connection \in Nat
    BY <1>0, <1>1, <1>4, <1>5 DEF Connections, Types
  <2>2. j \in First..Len(tasks) \/ ~OfConnection(tasks[j])
    <3>1. Len(tasks) \in Nat /\ (tasks # <<>> => Head(tasks) = tasks[1])
      BY <1>0, HeadTask DEF Types
    <3> QED BY <1>4, <3>1, FirstIs
  <2>3. tasks[j].kind = "connect" => tasks[j].number \in 1..connection /\ connection < tasks[j].number
    BY <1>0, <2>1, <2>2 DEF Known, OfConnection
  <2>4. tasks[j].kind = "gone" => /\ tasks[j].number \in 1..connection /\ connection <= tasks[j].number
                                  /\ tasks[j].number \in ended
    BY <1>0, <2>1, <2>2 DEF Known, OfConnection
  <2>5. connection \notin ended
    BY <1>4, <1>5, <2>1
  <2> QED BY <2>1, <2>3, <2>4, <2>5 DEF OfConnection
<1> HIDE DEF t, over
<1> QED BY <1>1, <1>2, <1>3, <1>4, <1>5, PlainlyAppended

LEMMA RunActionKeepsIInv == ASSUME IInv, RunAction PROVE IInv'
<1> DEFINE t == Task("gone", connection, NoMessage)
           All == {"unbind", "unsubscribe", "gone"}
<1>0. Types /\ Connections /\ Sorted /\ Known /\ Making /\ Announced /\ Used /\ Scheduled
  BY DEF IInv
<1>1. /\ UNCHANGED <<connected, connection, ended, actions, received, step, EditorModel,
                     RdIsModelAlive, viewing, GameControl, firing>>
      /\ terminating # <<>> /\ terminating' = SubSeq(terminating, 1, Len(terminating) - 1)
      /\ tasks' = IF LastAction = "gone" THEN Append(tasks, t) ELSE tasks
      /\ subscription' \in {subscription, Absent}
  BY DEF RunAction, model, GoneQueued
<1>2. /\ terminating \in Seq(All) /\ connection \in Nat /\ EditorModel \in Nat
      /\ tasks \in Seq(Tasks) /\ EditorModel <= connection
  BY <1>0 DEF Types, Connections
<1>3. ~connected /\ actions = <<>> /\ connection >= 1 /\ connection \in ended
  BY <1>0, <1>1, <1>2 DEF Connections
<1>4. /\ t \in Tasks /\ t.kind = "gone" /\ t.number = connection
  BY <1>2 DEF Task, Tasks, Messages, NoMessage
<1> HIDE DEF t
<1>5. /\ Len(terminating) \in Nat /\ terminating' \in Seq(All)
      /\ Len(terminating') = Len(terminating) - 1
      /\ \A i \in 1..Len(terminating) - 1 : terminating'[i] = terminating[i]
  <2>1. Len(terminating) \in Nat /\ Len(terminating) >= 1
    BY <1>1, <1>2
  <2> DEFINE last == Len(terminating) - 1
  <2>2. last \in Int /\ \A i \in 1..last : terminating[i] \in All
    BY <1>2, <2>1
  <2>3. /\ SubSeq(terminating, 1, last) \in Seq(All)
        /\ Len(SubSeq(terminating, 1, last)) = IF 1 <= last THEN last - 1 + 1 ELSE 0
        /\ \A i \in 1..(last - 1 + 1) : SubSeq(terminating, 1, last)[i] = terminating[1 + i - 1]
    BY <2>2, SubSeqProperties
  <2>4. terminating' = SubSeq(terminating, 1, last)
    BY <1>1
  <2> HIDE DEF last
  <2>5. /\ terminating' \in Seq(All) /\ \A i \in 1..last : terminating'[i] = terminating[i]
    <3>1. last - 1 + 1 = last
      BY <2>2
    <3>2. \A i \in 1..last : 1 + i - 1 = i
      BY <2>2
    <3> QED BY <2>3, <2>4, <3>1, <3>2
  <2>6. Len(terminating') = last
    <3>1. last \in Nat
      BY <2>1 DEF last
    <3>2. Len(terminating') = IF 1 <= last THEN last - 1 + 1 ELSE 0
      BY <2>3, <2>4
    <3> QED BY <3>1, <3>2
  <2> QED BY <2>1, <2>5, <2>6 DEF last
<1>6. \A i \in 1..Len(terminating) : i = Len(terminating) \/ i \in 1..Len(terminating')
  BY <1>5
<1>7. Types'
  <2>1. tasks' \in Seq(Tasks)
    BY <1>1, <1>2, <1>4, AppendedTasks
  <2>2. subscription' \in Nat \cup {Absent}
    BY <1>0, <1>1 DEF Types
  <2> QED BY <1>0, <1>1, <1>5, <2>1, <2>2 DEF Types
<1>8. Connections'
  BY <1>0, <1>1, <1>3 DEF Connections
<1>9. Used'
  BY <1>0, <1>1 DEF Used
<1>10. CASE LastAction = "gone"
  <2>1. tasks' = Append(tasks, t)
    BY <1>1, <1>10
  <2>2. Sorted' /\ Known'
    <3>1. /\ connection' \in Nat /\ connection <= connection' /\ ended \subseteq ended'
          /\ UNCHANGED <<step, EditorModel>>
      BY <1>1, <1>2
    <3>2. /\ OfConnection(t) => t.number \in 1..connection'
          /\ t.kind = "connect" => connection < t.number
          /\ t.kind = "gone" => t.number \in ended' /\ connection <= t.number
      BY <1>1, <1>2, <1>3, <1>4
    <3> QED BY <1>0, <1>2, <1>4, <2>1, <3>1, <3>2, AppendingKeepsOrder
  <2>3. Making'
    <3>1. tasks # <<>> => tasks' # <<>> /\ Head(tasks') = Head(tasks)
      BY <1>2, <2>1
    <3> QED BY <1>0, <1>1, <3>1 DEF Making, MakingSteps, PopSteps
  <2>4. Announced'
    <3>1. /\ Len(tasks) \in Nat /\ Len(tasks') = Len(tasks) + 1
          /\ \A i \in 1..Len(tasks) : tasks'[i] = tasks[i]
          /\ tasks'[Len(tasks) + 1] = t
      BY <1>2, <1>4, <2>1, AppendProperties
    <3>2. step # "idle" => Len(tasks) >= 1
      BY <1>0, <1>2 DEF Making
    <3>3. Len(tasks) + 1 \in First..Len(tasks')
      BY <3>1, <3>2, FirstIs
    <3>4. \A i \in First..Len(tasks) : i \in First..Len(tasks') /\ tasks'[i] = tasks[i]
      BY <3>1, FirstIs
    <3>5. First' = First
      BY <1>1 DEF First
    <3>6. RdIsModelAlive = "true" \/ step = "alive" =>
             \E i \in First..Len(tasks') : tasks'[i].kind = "gone" /\ tasks'[i].number = EditorModel
      BY <1>0, <1>4, <3>1, <3>3, <3>4 DEF Announced, EndAnnounced
    <3> QED BY <1>1, <3>5, <3>6 DEF Announced, EndAnnounced
  <2>5. Scheduled'
    BY <1>0, <1>1, <1>4, <2>1, AppendingKeepsSchedule
  <2> QED BY <1>7, <1>8, <1>9, <2>2, <2>3, <2>4, <2>5 DEF IInv
<1>11. CASE LastAction # "gone"
  <2>1. tasks' = tasks /\ First' = First
    BY <1>1, <1>11 DEF First
  <2>2. Sorted' /\ Known' /\ Making' /\ Scheduled'
    <3>1. Sorted'
      BY <1>0, <2>1 DEF Sorted, OfConnection
    <3>2. Known'
      BY <1>0, <1>1, <2>1 DEF Known, OfConnection
    <3>3. Making'
      BY <1>0, <1>1, <2>1 DEF Making
    <3>4. Scheduled'
      BY <1>0, <1>1, <2>1 DEF Scheduled, Queued, OfConnection
    <3> QED BY <3>1, <3>2, <3>3, <3>4
  <2>3. Announced'
    <3>1. \A i \in 1..Len(terminating) : terminating[i] = "gone" =>
             i \in 1..Len(terminating') /\ terminating'[i] = "gone"
      BY <1>5, <1>6, <1>11 DEF LastAction
    <3> QED BY <1>0, <1>1, <2>1, <3>1 DEF Announced, EndAnnounced
  <2> QED BY <1>7, <1>8, <1>9, <2>2, <2>3 DEF IInv
<1> QED BY <1>10, <1>11

LEMMA DisconnectKeepsIInv == ASSUME IInv, Disconnect PROVE IInv'
<1>0. Types /\ Connections /\ Sorted /\ Known /\ Making /\ Announced /\ Used /\ Scheduled
  BY DEF IInv
<1>1. /\ UNCHANGED <<connection, received, subscription, messages, tasks, step, EditorModel,
                     RdIsModelAlive, viewing, GameControl, firing>>
      /\ connected /\ connected' = FALSE /\ ended' = ended \cup {connection}
      /\ terminating' = actions /\ actions' = <<>>
  BY DEF Disconnect, broker, model
<1>2. Types'
  <2>1. actions' \in Seq({"unbind", "unsubscribe", "gone"})
    BY <1>1
  <2> QED BY <1>0, <1>1, <2>1 DEF Types
<1>3. Connections'
  <2>1. connection \in Nat /\ connection >= 1
    BY <1>0, <1>1 DEF Types, Connections
  <2>2. ended' \subseteq 1..connection
    BY <1>0, <1>1, <2>1 DEF Connections
  <2>3. \A n \in 1..connection : n \in ended'
    BY <1>0, <1>1 DEF Connections
  <2>4. EditorModel <= connection
    BY <1>0 DEF Connections
  <2> QED BY <1>1, <2>1, <2>2, <2>3, <2>4 DEF Connections
<1>4. First' = First
  BY <1>1 DEF First
<1>5. Sorted'
  BY <1>0, <1>1 DEF Sorted, OfConnection
<1>6. Known'
  BY <1>0, <1>1, <1>4 DEF Known, OfConnection
<1>7. Making' /\ Used'
  BY <1>0, <1>1 DEF Making, Used
<1>8. Announced'
  <2>1. terminating = <<>> /\ Len(terminating) = 0
    BY <1>0, <1>1 DEF Connections
  <2> QED BY <1>0, <1>1, <1>4, <2>1 DEF Announced, EndAnnounced
<1>9. Scheduled'
  BY <1>0, <1>1 DEF Scheduled, Queued, OfConnection
<1> QED BY <1>2, <1>3, <1>5, <1>6, <1>7, <1>8, <1>9 DEF IInv

\* A task that is finished after it changed what there is to view.
LEMMA FinishedWithControl ==
    ASSUME IInv, tasks # <<>>, Finish,
           UNCHANGED <<connected, connection, ended, actions, terminating, received, subscription,
                       EditorModel, firing>>,
           RdIsModelAlive' \in {"unset", "true", "false"}, viewing' \in {"no", "yes", "ended"},
           GameControl' \in Nat, Used',
           RdIsModelAlive' = "true" =>
               EndAnnounced /\ (step = "idle" => Head(tasks).kind # "gone"),
           viewing' = "no" => \A i \in 1..Len(tasks) : tasks[i].kind # "action",
           viewing' = "yes" => \A i \in 1..Len(tasks) : ~Queued(i)
    PROVE  IInv'
<1>0. Types /\ Connections /\ Sorted /\ Known
  BY DEF IInv
<1>a. step' = "idle" /\ Removed /\ tasks' = Tail(tasks)
  BY DEF Finish, Removed
<1>1. Types'
  BY <1>0, <1>a, FinishedTasks DEF Types, Steps
<1>2. Connections' /\ Making'
  BY <1>0, <1>a DEF Connections, Making, MakingSteps, PopSteps
<1>3. Sorted' /\ Known'
  BY <1>0, <1>a, FinishingKeepsOrder
<1>4. Announced'
  BY <1>0, <1>a, FinishingKeepsAnnounced DEF Announced
<1>5. Scheduled'
  <2>1. \A i \in 1..Len(tasks') : i + 1 \in 1..Len(tasks) /\ tasks'[i] = tasks[i + 1]
    BY <1>0, <1>a, FinishedTasks DEF Types
  <2>2. ASSUME viewing' = "no", NEW i \in 1..Len(tasks') PROVE tasks'[i].kind # "action"
    BY <2>1, <2>2
  <2>3. ASSUME viewing' = "yes", NEW i \in 1..Len(tasks')
        PROVE  ~(tasks'[i].kind = "action" /\ tasks'[i].message[2] = 0)
    BY <2>1, <2>3 DEF Queued
  <2> QED BY <2>2, <2>3 DEF Scheduled, Queued
<1> QED BY <1>1, <1>2, <1>3, <1>4, <1>5 DEF IInv

\* A task that is not finished, as a control is to be made for the model there
\* is now.
LEMMA BegunWithControl ==
    ASSUME IInv, tasks # <<>>, step' = "control", Head(tasks).kind \in {"connect", "view"},
           step = "idle" => Head(tasks).kind # "connect",
           UNCHANGED <<connected, connection, ended, actions, terminating, received, subscription,
                       tasks, EditorModel, firing>>,
           RdIsModelAlive' = "true", viewing' \in {"yes", "ended"},
           GameControl' \in Nat, viewing' = "yes" => GameControl' = 0,
           EndAnnounced,
           viewing' = "yes" => \A i \in 1..Len(tasks) : ~Queued(i)
    PROVE  IInv'
<1>0. Types /\ Connections /\ Sorted /\ Known /\ Used
  BY DEF IInv
<1>1. Types'
  BY <1>0 DEF Types, Steps
<1>2. Connections' /\ Making' /\ Used'
  BY <1>0 DEF Connections, Making, MakingSteps, PopSteps, Used
<1>3. First' = 2 /\ First \in {1, 2} /\ (First = 1 => step = "idle")
  BY DEF First
<1>4. Len(tasks) \in Nat /\ Head(tasks) = tasks[1]
  BY <1>0, HeadTask DEF Types
<1>5. Sorted' /\ Known'
  <2>1. \A i \in 2..Len(tasks) : i \in First..Len(tasks)
    BY <1>3, <1>4
  <2> QED BY <1>0, <1>3, <2>1 DEF Sorted, Known, OfConnection
<1>6. Announced'
  <2>1. ASSUME NEW i \in First..Len(tasks), tasks[i].kind = "gone" PROVE i \in 2..Len(tasks)
    BY <1>3, <1>4, <2>1
  <2> QED BY <1>3, <2>1 DEF Announced, EndAnnounced
<1>7. Scheduled'
  BY DEF Scheduled, Queued
<1> QED BY <1>1, <1>2, <1>5, <1>6, <1>7 DEF IInv

\* A step in the making of a model.
LEMMA PlainlyStepped ==
    ASSUME IInv, step \in MakingSteps, step' \in MakingSteps,
           UNCHANGED <<connected, connection, ended, terminating, received, tasks, EditorModel,
                       RdIsModelAlive, viewing, GameControl, firing>>,
           subscription' \in Nat \cup {Absent},
           actions' \in Seq({"unbind", "unsubscribe", "gone"}),
           ~connected => actions' = actions,
           step' = "alive" =>
               EditorModel = connection /\ \E i \in 1..Len(actions') : actions'[i] = "gone"
    PROVE  IInv'
<1>0. Types /\ Connections /\ Sorted /\ Known /\ Making /\ Announced /\ Used /\ Scheduled
  BY DEF IInv
<1>1. Types'
  BY <1>0 DEF Types, MakingSteps, Steps
<1>2. Connections' /\ Making' /\ Used'
  BY <1>0 DEF Connections, Making, MakingSteps, PopSteps, Used
<1>3. First' = First
  BY DEF First, MakingSteps
<1>4. Sorted'
  BY <1>0 DEF Sorted, OfConnection
<1>5. Known'
  BY <1>0, <1>3 DEF Known, OfConnection
<1>6. Announced'
  BY <1>0, <1>3 DEF Announced, EndAnnounced, Making
<1>7. Scheduled'
  BY <1>0 DEF Scheduled, Queued, OfConnection
<1> QED BY <1>1, <1>2, <1>4, <1>5, <1>6, <1>7 DEF IInv

\* The model that is being made is of a connection that was made.
LEMMA MadeForConnection ==
    ASSUME IInv, step \in MakingSteps
    PROVE  /\ tasks # <<>> /\ Current = EditorModel /\ RdIsModelAlive # "true" /\ step # "idle"
           /\ Head(tasks).kind = "connect"
           /\ Current \notin ended => connected /\ EditorModel = connection
<1>1. Types /\ Connections /\ Known /\ Making
  BY DEF IInv
<1>2. /\ tasks # <<>> /\ Current = EditorModel /\ RdIsModelAlive # "true" /\ step # "idle"
      /\ Head(tasks).kind = "connect"
  BY <1>1 DEF Making, MakingSteps, Current
<1>3. 1 \in 1..Len(tasks) /\ Head(tasks) = tasks[1]
  BY <1>1, <1>2, HeadTask DEF Types
<1>4. Current \in 1..connection
  BY <1>1, <1>2, <1>3 DEF Known, OfConnection, Current
<1> QED BY <1>1, <1>2, <1>4 DEF Connections

\* An action is added, or the making of the model is over.
LEMMA AddActionKeepsIInv ==
    ASSUME IInv, step \in MakingSteps, NEW action \in {"unbind", "unsubscribe", "gone"},
           NEW next \in MakingSteps, next = "alive" => action = "gone",
           AddAction(action, next),
           UNCHANGED <<connected, connection, ended, terminating, received, subscription, EditorModel,
                       RdIsModelAlive, viewing, GameControl, firing>>
    PROVE  IInv'
<1>0. subscription' \in Nat \cup {Absent} /\ actions \in Seq({"unbind", "unsubscribe", "gone"})
  BY DEF IInv, Types
<1>1. CASE /\ Current \notin ended /\ actions' = Append(actions, action)
           /\ step' = next /\ UNCHANGED tasks
  <2>1. /\ actions' \in Seq({"unbind", "unsubscribe", "gone"})
        /\ Len(actions) + 1 \in 1..Len(actions') /\ actions'[Len(actions) + 1] = action
    BY <1>0, <1>1, AppendProperties
  <2>2. connected /\ EditorModel = connection
    BY <1>1, MadeForConnection
  <2> QED BY <1>0, <1>1, <2>1, <2>2, PlainlyStepped
<1>2. CASE Finish /\ UNCHANGED actions
  BY <1>0, <1>2, MadeForConnection, PlainlyFinished DEF Finish, Removed
<1> QED BY <1>1, <1>2 DEF AddAction

LEMMA MakeModelKeepsIInv == ASSUME IInv, MakeModel PROVE IInv'
<1>0. Types /\ Connections /\ Sorted /\ Known /\ Making /\ Announced /\ Used /\ Scheduled
  BY DEF IInv
<1>1. /\ UNCHANGED <<connected, connection, ended, actions, terminating, received, subscription,
                     tasks, RdIsModelAlive, viewing, GameControl, firing>>
      /\ tasks # <<>> /\ step = "idle" /\ Head(tasks).kind = "connect" /\ firing = 0
      /\ EditorModel' = Head(tasks).number /\ step' = "bind"
  BY DEF MakeModel, wire, broker, NextIs, Idle, Unused, Current
<1>2. /\ First = 1 /\ First' = 2 /\ 1 \in 1..Len(tasks) /\ Head(tasks) = tasks[1]
      /\ Len(tasks) \in Nat
  BY <1>0, <1>1, HeadTask DEF First, Types
<1>3. /\ tasks[1].number \in 1..connection /\ EditorModel < tasks[1].number
      /\ OfConnection(tasks[1]) /\ connection \in Nat /\ EditorModel \in Nat
  BY <1>0, <1>1, <1>2 DEF Known, OfConnection, Types
<1>4. \A i \in 2..Len(tasks) :
         /\ tasks[i].kind = "connect" => tasks[1].number < tasks[i].number
         /\ tasks[i].kind = "gone" => tasks[1].number <= tasks[i].number
  BY <1>0, <1>2, <1>3 DEF Sorted
<1>5. RdIsModelAlive # "true"
  <2>1. ASSUME NEW i \in 1..Len(tasks), tasks[i].kind = "gone" PROVE tasks[i].number # EditorModel
    <3>1. i \in 2..Len(tasks)
      BY <1>1, <1>2, <2>1
    <3>2. tasks[i].number \in 1..connection
      BY <1>0, <2>1 DEF Known, OfConnection
    <3>3. tasks[1].number <= tasks[i].number
      BY <1>4, <2>1, <3>1
    <3> QED BY <1>3, <3>2, <3>3
  <2>2. EditorModel # connection
    BY <1>3
  <2> QED BY <1>0, <1>2, <2>1, <2>2 DEF Announced, EndAnnounced
<1>6. Types'
  <2>1. EditorModel' \in Nat
    BY <1>1, <1>2, <1>3
  <2> QED BY <1>0, <1>1, <2>1 DEF Types, Steps
<1>7. Connections'
  BY <1>0, <1>1, <1>2, <1>3 DEF Connections
<1>8. Sorted'
  BY <1>0, <1>1 DEF Sorted, OfConnection
<1>9. Known'
  BY <1>0, <1>1, <1>2, <1>4 DEF Known, OfConnection
<1>10. Making'
  BY <1>1, <1>5 DEF Making, MakingSteps, PopSteps
<1>11. Announced'
  BY <1>1, <1>5 DEF Announced
<1>12. Used'
  BY <1>0, <1>1, <1>5 DEF Used
<1>13. Scheduled'
  BY <1>0, <1>1 DEF Scheduled, Queued, OfConnection
<1> QED BY <1>6, <1>7, <1>8, <1>9, <1>10, <1>11, <1>12, <1>13 DEF IInv

LEMMA MakingKeepsIInv ==
    ASSUME IInv, Bind \/ AddUnbind \/ Subscribe \/ AddUnsubscribe \/ AddGone
    PROVE  IInv'
<1>1. CASE Bind
  <2>1. /\ UNCHANGED <<connected, connection, ended, actions, terminating, received, subscription,
                       EditorModel, RdIsModelAlive, viewing, GameControl, firing>>
        /\ step = "bind"
        /\ Finish \/ (step' = "unbind" /\ UNCHANGED tasks)
    BY <1>1 DEF Bind, wire, broker, model
  <2>2. Types /\ step \in MakingSteps
    BY <2>1 DEF IInv, MakingSteps
  <2>3. subscription' \in Nat \cup {Absent} /\ actions' \in Seq({"unbind", "unsubscribe", "gone"})
    BY <2>1, <2>2 DEF Types
  <2>4. CASE step' = "unbind" /\ UNCHANGED tasks
    BY <2>1, <2>2, <2>3, <2>4, PlainlyStepped DEF MakingSteps
  <2>5. CASE Finish
    BY <2>1, <2>2, <2>3, <2>5, MadeForConnection, PlainlyFinished DEF Finish, Removed
  <2> QED BY <2>1, <2>4, <2>5
<1>2. CASE Subscribe
  <2>1. /\ UNCHANGED <<connected, connection, ended, actions, terminating, received, tasks,
                       EditorModel, RdIsModelAlive, viewing, GameControl, firing>>
        /\ step = "subscribe" /\ step' \in {"watch", "unsubscribe"}
        /\ subscription' \in {subscription, Current}
    BY <1>2 DEF Subscribe, wire, model
  <2>2. /\ Types /\ Current = EditorModel /\ step \in MakingSteps
    BY <2>1, MadeForConnection DEF IInv, MakingSteps
  <2>3. subscription' \in Nat \cup {Absent} /\ actions' \in Seq({"unbind", "unsubscribe", "gone"})
    BY <2>1, <2>2 DEF Types
  <2> QED BY <2>1, <2>2, <2>3, PlainlyStepped DEF MakingSteps
<1>3. CASE AddUnsubscribe
  BY <1>3, AddActionKeepsIInv DEF AddUnsubscribe, RemoveLater, wire, broker, model, MakingSteps
<1>4. CASE AddGone
  BY <1>4, AddActionKeepsIInv DEF AddGone, Watch, wire, broker, model, MakingSteps
<1>5. CASE AddUnbind
  BY <1>5, AddActionKeepsIInv DEF AddUnbind, wire, broker, model, MakingSteps
<1> QED BY <1>1, <1>2, <1>3, <1>4, <1>5

LEMMA BeAliveKeepsIInv == ASSUME IInv, BeAlive PROVE IInv'
<1>1. /\ Types /\ Announced /\ Used /\ Scheduled /\ step = "alive"
      /\ UNCHANGED <<connected, connection, ended, actions, terminating, received, subscription,
                     EditorModel, viewing, firing>>
      /\ SetAlive("true")
      /\ IF Told("true") THEN step' = "control" /\ UNCHANGED tasks ELSE Finish
  BY DEF IInv, BeAlive, wire, broker
<1>2. /\ tasks # <<>> /\ Head(tasks).kind = "connect" /\ RdIsModelAlive # "true"
      /\ viewing = "yes" => GameControl = 0
  BY <1>1, MadeForConnection DEF Used, MakingSteps
<1>3. /\ RdIsModelAlive' = "true" /\ GameControl' \in {0, GameControl}
      /\ viewing = "yes" => GameControl' = 0
  BY <1>1, <1>2 DEF SetAlive, Told
<1>4. GameControl' \in Nat /\ viewing' \in {"no", "yes", "ended"} /\ Used'
  BY <1>1, <1>2, <1>3 DEF Types, Used
<1>5. EndAnnounced
  BY <1>1 DEF Announced
<1>6. /\ viewing' = "no" => \A i \in 1..Len(tasks) : tasks[i].kind # "action"
      /\ viewing' = "yes" => \A i \in 1..Len(tasks) : ~Queued(i)
  BY <1>1, <1>2 DEF Scheduled
<1>7. CASE Told("true")
  BY <1>1, <1>2, <1>3, <1>4, <1>5, <1>6, <1>7, BegunWithControl DEF Told
<1>8. CASE ~Told("true")
  BY <1>1, <1>2, <1>3, <1>4, <1>5, <1>6, <1>8, FinishedWithControl
<1> QED BY <1>7, <1>8

\* The control is made for the model there is.
LEMMA MakeControlKeepsIInv == ASSUME IInv, MakeControl PROVE IInv'
<1>1. /\ Types /\ Making /\ Announced /\ Used /\ Scheduled /\ step = "control" /\ Finish
      /\ UNCHANGED <<connected, connection, ended, actions, terminating, received, subscription,
                     EditorModel, RdIsModelAlive, viewing, firing>>
      /\ GameControl' = EditorModel
  BY DEF IInv, MakeControl, wire, broker
<1>2. /\ tasks # <<>> /\ RdIsModelAlive = "true" /\ viewing # "no"
      /\ viewing = "yes" => GameControl = 0
  BY <1>1 DEF Making
<1>3. GameControl' \in Nat /\ viewing' \in {"no", "yes", "ended"} /\ Used'
  BY <1>1, <1>2 DEF Types, Used
<1>4. EndAnnounced /\ RdIsModelAlive' \in {"unset", "true", "false"}
  BY <1>1, <1>2 DEF Announced
<1>5. viewing' = "yes" => \A i \in 1..Len(tasks) : ~Queued(i)
  BY <1>1, <1>2 DEF Scheduled
<1> QED BY <1>1, <1>2, <1>3, <1>4, <1>5, FinishedWithControl

LEMMA GoneKeepsIInv == ASSUME IInv, Gone PROVE IInv'
<1>1. /\ Types /\ Used /\ Scheduled /\ step = "idle" /\ Finish
      /\ UNCHANGED <<connected, connection, ended, actions, terminating, received, subscription,
                     EditorModel, viewing, firing>>
      /\ SetAlive("false") /\ tasks # <<>> /\ Head(tasks).kind = "gone"
  BY DEF IInv, Gone, wire, broker, NextIs, Idle
<1>2. /\ RdIsModelAlive' = "false" /\ GameControl' \in {0, GameControl}
      /\ viewing # "ended" => GameControl' = 0
  <2>1. RdIsModelAlive = "false" /\ viewing = "yes" => GameControl = 0
    BY <1>1 DEF Used
  <2>2. viewing \in {"no", "yes", "ended"} /\ (viewing = "no" => GameControl = 0)
    BY <1>1 DEF Used, Types
  <2> QED BY <1>1, <2>1, <2>2 DEF SetAlive, Told
<1>3. Used' /\ GameControl' \in Nat
  BY <1>1, <1>2 DEF Used, Types
<1>4. Len(tasks) \in Nat /\ Head(tasks) = tasks[1]
  BY <1>1, HeadTask DEF Types
<1>5. ASSUME viewing' = "yes", NEW i \in 1..Len(tasks), Queued(i) PROVE FALSE
  <2>1. i # 1
    BY <1>1, <1>4, <1>5 DEF Queued
  <2>2. 1 \in 1..(i - 1)
    BY <1>4, <2>1
  <2> QED BY <1>1, <1>4, <1>5, <2>2 DEF Scheduled, OfConnection
<1>6. viewing' = "no" => \A i \in 1..Len(tasks) : tasks[i].kind # "action"
  BY <1>1 DEF Scheduled
<1>7. viewing' \in {"no", "yes", "ended"}
  BY <1>1 DEF Types
<1> QED BY <1>1, <1>2, <1>3, <1>5, <1>6, <1>7, FinishedWithControl

LEMMA ViewKeepsIInv == ASSUME IInv, View PROVE IInv'
<1>1. /\ Types /\ Announced /\ Used /\ Scheduled /\ step = "idle"
      /\ UNCHANGED <<connected, connection, ended, actions, terminating, received, subscription,
                     EditorModel, RdIsModelAlive, GameControl, firing>>
      /\ tasks # <<>> /\ Head(tasks).kind = "view"
      /\ viewing' = IF viewing = "no" THEN "yes" ELSE viewing
      /\ IF viewing = "no" /\ RdIsModelAlive = "true"
            THEN step' = "control" /\ UNCHANGED tasks
            ELSE Finish
  BY DEF IInv, View, wire, broker, NextIs, Idle
<1>2. subscription' \in Nat \cup {Absent}
  BY <1>1 DEF Types
<1>3. CASE viewing = "no"
  <2>1. viewing' = "yes" /\ GameControl' = 0
    BY <1>1, <1>3 DEF Used
  <2>2. Used' /\ GameControl' \in Nat
    BY <1>1, <2>1 DEF Used, Types
  <2>3. \A i \in 1..Len(tasks) : ~Queued(i)
    BY <1>1, <1>3 DEF Scheduled, Queued
  <2>4. RdIsModelAlive' = "true" => EndAnnounced
    BY <1>1 DEF Announced
  <2>5. RdIsModelAlive' \in {"unset", "true", "false"}
    BY <1>1 DEF Types
  <2>6. CASE RdIsModelAlive = "true"
    BY <1>1, <1>3, <2>1, <2>2, <2>3, <2>4, <2>6, BegunWithControl
  <2>7. CASE RdIsModelAlive # "true"
    BY <1>1, <2>1, <2>2, <2>3, <2>4, <2>5, <2>7, FinishedWithControl
  <2> QED BY <2>6, <2>7
<1>4. CASE viewing # "no"
  BY <1>1, <1>2, <1>4, PlainlyFinished DEF Finish, Removed
<1> QED BY <1>3, <1>4

LEMMA FinishingKeepsIInv ==
    ASSUME IInv, InvokeMessage \/ DoAction
    PROVE  IInv'
<1>1. Types /\ step = "idle"
  BY DEF IInv, InvokeMessage, DoAction, NextIs, Idle
<1>2. /\ UNCHANGED <<connected, connection, ended, actions, terminating, received, EditorModel,
                     subscription, RdIsModelAlive, viewing, GameControl, firing>>
      /\ tasks # <<>> /\ Head(tasks).kind # "gone" /\ Finish
  BY DEF InvokeMessage, DoAction, NextIs, wire, broker, model
<1>3. subscription' \in Nat \cup {Absent}
  BY <1>1, <1>2 DEF Types
<1> QED BY <1>2, <1>3, PlainlyFinished DEF Finish, Removed

\* The steps of a task that pops a message.
LEMMA PoppingKeepsIInv ==
    ASSUME IInv, PopMessage \/ TakeMessage \/ HandOver \/ TestEmpty \/ EraseQueue
    PROVE  IInv'
<1>1. Types /\ Making
  BY DEF IInv
<1>2. /\ UNCHANGED <<connected, connection, ended, actions, terminating, received, EditorModel,
                     RdIsModelAlive, viewing, GameControl, firing>>
      /\ subscription' \in {subscription, 0}
      /\ \/ step' \in PopSteps /\ UNCHANGED tasks
         \/ step' = "idle" /\ Removed
  BY DEF PopMessage, TakeMessage, HandOver, TestEmpty, EraseQueue, wire, broker, model, PopSteps,
         Finish, Removed
<1>3. /\ tasks # <<>> /\ Head(tasks).kind \in {"pop", "dangling"}
  <2>1. CASE PopMessage
    BY <2>1 DEF PopMessage, NextIs
  <2>2. CASE TakeMessage \/ HandOver \/ TestEmpty \/ EraseQueue
    <3>1. step \in PopSteps /\ step # "idle"
      BY <2>2 DEF TakeMessage, HandOver, TestEmpty, EraseQueue, PopSteps
    <3> QED BY <1>1, <3>1 DEF Making
  <2> QED BY <2>1, <2>2
<1>4. subscription' \in Nat \cup {Absent}
  BY <1>1, <1>2 DEF Types
<1>5. CASE step' \in PopSteps /\ UNCHANGED tasks
  BY <1>2, <1>3, <1>4, <1>5, PlainlyBegun
<1>6. CASE step' = "idle" /\ Removed
  BY <1>2, <1>3, <1>4, <1>6, PlainlyFinished
<1> QED BY <1>2, <1>5, <1>6

LEMMA ShutdownKeepsIInv == ASSUME IInv, Shutdown PROVE IInv'
<1> DEFINE over == IF GameControl \in ended THEN 1 ELSE 0
           t == Task("action", GameControl, <<GameControl, over>>)
<1>0. Types /\ Connections /\ Sorted /\ Known /\ Making /\ Announced
  BY DEF IInv
<1>1. /\ UNCHANGED <<connected, connection, ended, actions, terminating, received, subscription,
                     step, EditorModel, RdIsModelAlive, firing>>
      /\ viewing' = "ended" /\ GameControl' = 0
      /\ tasks' = tasks \/ tasks' = Append(tasks, t)
  BY DEF Shutdown, ScheduleModelAction, wire, broker
<1>2. t \in Tasks /\ t.kind = "action" /\ ~OfConnection(t)
  BY <1>0 DEF Task, Tasks, Messages, OfConnection, Types
<1> HIDE DEF t, over
<1>3. Types'
  <2>1. tasks' \in Seq(Tasks)
    BY <1>0, <1>1, <1>2, AppendedTasks DEF Types
  <2> QED BY <1>0, <1>1, <2>1 DEF Types
<1>4. Connections' /\ Used'
  BY <1>0, <1>1 DEF Connections, Used, IInv
<1>5. Making'
  <2>1. tasks # <<>> => tasks' # <<>> /\ Head(tasks') = Head(tasks)
    BY <1>0, <1>1 DEF Types
  <2> QED BY <1>0, <1>1, <2>1 DEF Making, MakingSteps, PopSteps
<1>6. Scheduled'
  BY <1>1 DEF Scheduled
<1>7. Sorted' /\ Known' /\ Announced'
  <2>1. CASE tasks' = tasks
    <3>1. First' = First
      BY <1>1 DEF First
    <3> QED BY <1>0, <1>1, <2>1, <3>1 DEF Sorted, Known, OfConnection, Announced, EndAnnounced
  <2>2. CASE tasks' = Append(tasks, t)
    <3>1. Sorted' /\ Known'
      BY <1>0, <1>1, <1>2, <2>2, AppendingKeepsOrder DEF OfConnection, Types, Connections
    <3>2. Announced'
      BY <1>0, <1>1, <1>2, <2>2, AppendingKeepsAnnounced
    <3> QED BY <3>1, <3>2
  <2> QED BY <1>1, <2>1, <2>2
<1> QED BY <1>3, <1>4, <1>5, <1>6, <1>7 DEF IInv

LEMMA FiringKeepsIInv ==
    ASSUME IInv, FireBegin \/ FireEnd \/ UNCHANGED vars
    PROVE  IInv'
<1>0. Types /\ Connections /\ Sorted /\ Known /\ Making /\ Announced /\ Used /\ Scheduled
  BY DEF IInv
<1>1. /\ UNCHANGED <<connected, connection, ended, actions, terminating, received, subscription,
                     tasks, step, EditorModel, RdIsModelAlive, viewing, GameControl>>
      /\ firing' \in {firing, EditorModel, 0}
  BY DEF FireBegin, FireEnd, vars, wire, broker, model
<1>2. Types' /\ Connections' /\ Making'
  <2>1. Types'
    BY <1>0, <1>1 DEF Types
  <2>2. Connections'
    BY <1>0, <1>1 DEF Connections
  <2> QED BY <1>0, <1>1, <2>1, <2>2 DEF Making
<1>3. First' = First
  BY <1>1 DEF First
<1>4. Sorted' /\ Known'
  BY <1>0, <1>1, <1>3 DEF Sorted, Known, OfConnection
<1>5. Announced' /\ Used'
  BY <1>0, <1>1, <1>3 DEF Announced, EndAnnounced, Used
<1>6. Scheduled'
  BY <1>0, <1>1 DEF Scheduled, Queued, OfConnection
<1> QED BY <1>2, <1>4, <1>5, <1>6 DEF IInv

LEMMA NextKeepsIInv == IInv /\ [Next]_vars => IInv'
<1> SUFFICES ASSUME IInv, [Next]_vars PROVE IInv'
  OBVIOUS
<1>1. CASE Connect
  BY <1>1, ConnectKeepsIInv
<1>2. CASE Receive
  BY <1>2, ReceiveKeepsIInv
<1>3. CASE Disconnect
  BY <1>3, DisconnectKeepsIInv
<1>4. CASE RunAction
  BY <1>4, RunActionKeepsIInv
<1>5. CASE Scheduler
  <2>1. CASE MakeModel
    BY <2>1, MakeModelKeepsIInv
  <2>2. CASE Bind \/ AddUnbind \/ Subscribe \/ AddUnsubscribe \/ AddGone
    BY <2>2, MakingKeepsIInv
  <2>3. CASE BeAlive
    BY <2>3, BeAliveKeepsIInv
  <2>4. CASE MakeControl
    BY <2>4, MakeControlKeepsIInv
  <2>5. CASE Gone
    BY <2>5, GoneKeepsIInv
  <2>6. CASE View
    BY <2>6, ViewKeepsIInv
  <2>7. CASE InvokeMessage \/ DoAction
    BY <2>7, FinishingKeepsIInv
  <2>8. CASE PopMessage \/ TakeMessage \/ HandOver \/ TestEmpty \/ EraseQueue
    BY <2>8, PoppingKeepsIInv
  <2> QED BY <1>5, <2>1, <2>2, <2>3, <2>4, <2>5, <2>6, <2>7, <2>8 DEF Scheduler
<1>6. CASE QueueView
  BY <1>6, QueueViewKeepsIInv
<1>7. CASE Schedule
  BY <1>7, ScheduleKeepsIInv
<1>8. CASE Shutdown
  BY <1>8, ShutdownKeepsIInv
<1>9. CASE FireBegin \/ FireEnd \/ UNCHANGED vars
  BY <1>9, FiringKeepsIInv
<1> QED BY <1>1, <1>2, <1>3, <1>4, <1>5, <1>6, <1>7, <1>8, <1>9 DEF Next

LEMMA IInvIsInvariant == Spec => []IInv
  BY InitEstablishesIInv, NextKeepsIInv, PTL DEF Spec

-----------------------------------------------------------------------------
(***************************************************************************)
(* Whoever views the model or fires into it has the one that exists.       *)
(***************************************************************************)
THEOREM NobodyUsesAnOldModel == Spec => []ModelOutlivesUse
<1>1. IInv => ModelOutlivesUse
  BY DEF IInv, Used, ModelOutlivesUse
<1> QED BY <1>1, IInvIsInvariant, PTL

(***************************************************************************)
(* RdIsModelAlive is changed before a new model is made: the end of a      *)
(* model that is alive is announced by a task ahead of the next model's.   *)
(***************************************************************************)
THEOREM EndIsAnnouncedFirst == Spec => ChangedBeforeNewModel
<1>1. ASSUME IInv, [Next]_vars
      PROVE  [EditorModel' # EditorModel => RdIsModelAlive # "true"]_EditorModel
  <2>1. CASE MakeModel
    <3>1. IInv'
      BY <1>1, NextKeepsIInv
    <3>2. step' = "bind" /\ UNCHANGED RdIsModelAlive
      BY <2>1 DEF MakeModel
    <3> QED BY <3>1, <3>2 DEF IInv, Making, MakingSteps
  <2>2. CASE ~MakeModel
    BY <1>1, <2>2 DEF Next, Scheduler, Connect, Receive, Disconnect, RunAction, Bind, AddUnbind,
       Subscribe, AddUnsubscribe, AddGone, BeAlive, MakeControl, Gone, PopMessage, TakeMessage,
       HandOver, TestEmpty, EraseQueue, InvokeMessage, View, DoAction, QueueView, Schedule,
       Shutdown, FireBegin, FireEnd, model, vars
  <2> QED BY <2>1, <2>2
<1> QED BY <1>1, IInvIsInvariant, PTL DEF Spec, ChangedBeforeNewModel

(***************************************************************************)
(* An action queued while the connection lasted is executed ahead of what  *)
(* ends the control that queued it.                                        *)
(***************************************************************************)
THEOREM QueuedActionsFindTheirControl == Spec => []ActionFindsItsControl
<1>1. IInv => ActionFindsItsControl
  <2> SUFFICES ASSUME IInv, tasks # <<>>, Head(tasks).kind = "action",
                      Head(tasks).message[2] = 0, viewing = "yes"
               PROVE  GameControl = Head(tasks).number
    BY DEF ActionFindsItsControl, NextIs
  <2>1. 1 \in 1..Len(tasks) /\ Head(tasks) = tasks[1]
    BY HeadTask DEF IInv, Types
  <2> QED BY <2>1 DEF IInv, Scheduled, Queued
<1> QED BY <1>1, IInvIsInvariant, PTL

-----------------------------------------------------------------------------
(***************************************************************************)
(* Messages.  The invariant of this part rests on the one above.           *)
(***************************************************************************)
IsMessage(task) == task.kind \in {"pop", "dangling", "invoke"}

\* Of the same connection or of a later one.
Before(m, n) ==
    \/ m[1] < n[1]
    \/ m[1] = n[1] /\ m[2] < n[2]

\* An entity was left behind, or is about to be.
Leaks ==
    \/ leaked
    \/ step = "unsubscribe" /\ EditorModel \in ended

\* The rest of the types.
MessageTypes ==
    /\ messages \in Seq(Messages) /\ handled \in Messages
    /\ listener \in Nat /\ popped \in Messages
    /\ bound \in Nat /\ firing \in Nat /\ leaked \in BOOLEAN /\ lost \in BOOLEAN

\* What a lifetime has to do, and while the model is made has already.
Progress ==
    /\ actions \in Actions /\ terminating \in Actions
    /\ EditorModel < connection => actions = <<>>
    /\ EditorModel \notin ended =>
          /\ step \in {"bind", "unbind"} => actions = <<>>
          /\ step \in {"subscribe", "unsubscribe"} => actions = <<"unbind">>
          /\ step = "watch" => actions = <<"unbind", "unsubscribe">>

\* An entity listens only while its removal is on its way, ...
Subscribed ==
    ~Leaks /\ subscription > 0 =>
        /\ subscription = EditorModel /\ EditorModel = connection
        /\ \/ step = "unsubscribe"
           \/ \E i \in 1..Len(actions) : actions[i] = "unsubscribe"
           \/ \E i \in 1..Len(terminating) : terminating[i] = "unsubscribe"

\* ... and a model that is made listens as long as its connection lasts.
Listening ==
    connected /\ EditorModel = connection =>
        /\ step # "bind" => bound = connection
        /\ step \notin {"bind", "unbind", "subscribe"} => subscription = connection

\* A listener to whom a message is handed over was found while it listened: if
\* it is bound still, no other connection was made since.
Handing ==
    step \in {"take", "hand"} /\ listener > 0 /\ ~Leaks =>
        /\ listener = EditorModel
        /\ bound = listener => EditorModel = connection /\ (actions # <<>> \/ terminating # <<>>)

\* default_scheduler_messages has messages of the tasks that pop them, and
\* while none was lost those of them all.
FirstPop == IF step \in {"hand", "test", "erase"} THEN 2 ELSE 1

PopsAre(f) ==
    /\ \A k \in 1..Len(messages) :
          tasks[f[k]].kind = "pop" /\ tasks[f[k]].message = messages[k]
    /\ \A k, l \in 1..Len(messages) : k < l => f[k] < f[l]
    /\ ~lost => \A i \in FirstPop..Len(tasks) :
          /\ tasks[i].kind # "dangling"
          /\ tasks[i].kind = "pop" => \E k \in 1..Len(messages) : f[k] = i

Pops == \E f \in [1..Len(messages) -> FirstPop..Len(tasks)] : PopsAre(f)

\* The message that is being handed over was the first of them.
Popped ==
    step = "hand" =>
        /\ popped = NoMessage \/ \E i \in 1..Len(tasks) :
              tasks[i].kind = "pop" /\ tasks[i].message = popped
        /\ ~lost => popped = tasks[1].message
        /\ popped # NoMessage => \A k \in 1..Len(messages) : Before(popped, messages[k])
        /\ popped # NoMessage /\ ~Leaks => Before(handled, popped)

\* A task that invokes the entity is for the model that there is, which listens
\* as long as its connection lasts: what is popped behind it is of a later one.
Invoked ==
    ~Leaks => \A i \in First..Len(tasks) : tasks[i].kind = "invoke" =>
        /\ tasks[i].number = EditorModel /\ tasks[i].message[1] = EditorModel
        /\ \A j \in First..i : tasks[j].kind # "connect"
        /\ connected /\ EditorModel = connection => subscription = connection
        /\ \A j \in (i + 1)..Len(tasks) :
              tasks[j].kind \in {"pop", "dangling"} => EditorModel < tasks[j].message[1]

\* Messages wait in their order, behind the task that makes their model, ...
Ordered ==
    /\ \A i \in 1..Len(tasks) : IsMessage(tasks[i]) =>
          /\ tasks[i].message[1] \in 1..connection /\ tasks[i].message[2] >= 1
          /\ tasks[i].message[1] = connection => tasks[i].message[2] <= received
    /\ \A i, j \in 1..Len(tasks) : IsMessage(tasks[i]) /\ i < j =>
          /\ IsMessage(tasks[j]) => Before(tasks[i].message, tasks[j].message)
          /\ tasks[j].kind = "connect" => tasks[i].message[1] < tasks[j].number

\* ... and those that can still be handled come after what was.
After ==
    /\ handled[1] <= connection
    /\ handled[1] = connection => handled[2] <= received
    /\ ~Leaks =>
          /\ \A k \in 1..Len(messages) : Before(handled, messages[k])
          /\ \A i \in First..Len(tasks) :
                tasks[i].kind = "invoke" => Before(handled, tasks[i].message)

\* The model of a connection that lasts is there or will be made, ...
Waiting ==
    connected /\ EditorModel < connection =>
        \E i \in First..Len(tasks) : tasks[i].kind = "connect" /\ tasks[i].number = connection

\* ... a message of it finds a listener, ...
Served ==
    step \in {"take", "hand"} /\ connected /\ tasks[1].message[1] = connection =>
        listener = connection

\* ... and each is handled or waits while none was lost.
FirstToHandle == IF step \in {"test", "erase"} THEN 2 ELSE 1

Complete ==
    ~Leaks /\ ~lost /\ connected => \A n \in 1..received :
        \/ handled[1] = connection /\ n <= handled[2]
        \/ \E i \in FirstToHandle..Len(tasks) :
              IsMessage(tasks[i]) /\ tasks[i].message = <<connection, n>>

QueueInv ==
    Pops /\ Popped /\ Invoked /\ Ordered /\ After /\ Waiting /\ Served /\ Complete

ModelInv == MessageTypes /\ Progress /\ Subscribed /\ Listening /\ Handing

LEMMA TaskFields ==
    ASSUME NEW t \in Tasks
    PROVE  t.number \in Nat /\ t.message \in Messages /\ t.message[1] \in Nat /\ t.message[2] \in Nat
  BY DEF Tasks, Messages

LEMMA FirstPopIs ==
    /\ FirstPop \in {1, 2} /\ FirstToHandle \in {1, 2}
    /\ step \in {"hand", "test", "erase"} => FirstPop = 2
    /\ step \notin {"hand", "test", "erase"} => FirstPop = 1
    /\ step \in {"test", "erase"} => FirstToHandle = 2
    /\ step \notin {"test", "erase"} => FirstToHandle = 1
  BY DEF FirstPop, FirstToHandle

\* What waits to be popped.
LEMMA PopsAfterAppend ==
    ASSUME IInv, Pops, messages \in Seq(Messages), UNCHANGED <<step, lost>>,
           NEW t \in Tasks, tasks' = Append(tasks, t), t.kind # "dangling",
           \/ t.kind # "pop" /\ messages' = messages
           \/ t.kind = "pop" /\ messages' = Append(messages, t.message)
    PROVE  Pops'
<1>1. /\ Len(tasks) \in Nat /\ Len(tasks') = Len(tasks) + 1
      /\ \A i \in 1..Len(tasks) : tasks'[i] = tasks[i]
      /\ \A i \in 1..Len(tasks') : \/ i \in 1..Len(tasks) /\ tasks'[i] = tasks[i]
                                   \/ i = Len(tasks) + 1 /\ tasks'[i] = t
      /\ tasks'[Len(tasks) + 1] = t
  BY AppendedTasks, AppendProperties DEF IInv, Types
<1>2. PICK f \in [1..Len(messages) -> FirstPop..Len(tasks)] : PopsAre(f)
  BY DEF Pops
<1>3. Len(messages) \in Nat
  OBVIOUS
<1> DEFINE from == FirstPop
<1>4. /\ from \in {1, 2} /\ FirstPop' = from /\ from <= Len(tasks) + 1
      /\ \A i \in from..Len(tasks) : i \in 1..Len(tasks)
      /\ \A i \in from..Len(tasks') : i \in from..Len(tasks) \/ i = Len(tasks) + 1
  <2>1. from \in {1, 2} /\ FirstPop' = from
    BY FirstPopIs DEF FirstPop
  <2>2. from <= Len(tasks) + 1
    <3>1. step # "idle" => Len(tasks) >= 1
      BY <1>1, HeadTask DEF IInv, Types, Making
    <3> QED BY <1>1, <2>1, <3>1, FirstPopIs
  <2> HIDE DEF from
  <2> QED BY <1>1, <2>1, <2>2
<1>5. /\ f \in [1..Len(messages) -> from..Len(tasks)]
      /\ \A k \in 1..Len(messages) :
            tasks[f[k]].kind = "pop" /\ tasks[f[k]].message = messages[k]
      /\ \A k, l \in 1..Len(messages) : k < l => f[k] < f[l]
      /\ ~lost => \A i \in from..Len(tasks) :
            /\ tasks[i].kind # "dangling"
            /\ tasks[i].kind = "pop" => \E k \in 1..Len(messages) : f[k] = i
  BY <1>2 DEF PopsAre
<1> HIDE DEF from
<1>6. CASE t.kind # "pop" /\ messages' = messages
  <2>1. f \in [1..Len(messages') -> from..Len(tasks')]
    BY <1>1, <1>4, <1>5, <1>6
  <2>2. \A k \in 1..Len(messages') :
            tasks'[f[k]].kind = "pop" /\ tasks'[f[k]].message = messages'[k]
    BY <1>1, <1>4, <1>5, <1>6
  <2>3. \A k, l \in 1..Len(messages') : k < l => f[k] < f[l]
    BY <1>5, <1>6
  <2>4. ~lost => \A i \in from..Len(tasks') :
            /\ tasks'[i].kind # "dangling"
            /\ tasks'[i].kind = "pop" => \E k \in 1..Len(messages') : f[k] = i
    BY <1>1, <1>4, <1>5, <1>6
  <2> QED BY <1>4, <2>1, <2>2, <2>3, <2>4 DEF Pops, PopsAre
<1>7. CASE t.kind = "pop" /\ messages' = Append(messages, t.message)
  <2> DEFINE n == Len(messages) + 1
             g == [k \in 1..n |-> IF k = n THEN Len(tasks) + 1 ELSE f[k]]
  <2>1. /\ n \in Nat /\ Len(messages') = n /\ messages'[n] = t.message
        /\ \A k \in 1..Len(messages) : messages'[k] = messages[k]
        /\ \A k \in 1..n : k = n \/ k \in 1..Len(messages)
    <3>1. t.message \in Messages
      BY TaskFields
    <3> QED BY <1>3, <1>7, <3>1, AppendProperties
  <2>2. /\ g \in [1..n -> from..Len(tasks')] /\ g[n] = Len(tasks) + 1
        /\ \A k \in 1..Len(messages) :
              k \in 1..n /\ k # n /\ g[k] = f[k] /\ f[k] \in 1..Len(tasks)
    <3>1. \A k \in 1..Len(messages) : f[k] \in from..Len(tasks) /\ k \in 1..n /\ k # n
      BY <1>3, <1>5
    <3>2. n \in 1..n
      BY <1>3
    <3> QED BY <1>1, <1>4, <2>1, <3>1, <3>2
  <2> HIDE DEF g, n
  <2>3. \A k \in 1..n : tasks'[g[k]].kind = "pop" /\ tasks'[g[k]].message = messages'[k]
    BY <1>1, <1>5, <1>7, <2>1, <2>2
  <2>4. \A k, l \in 1..n : k < l => g[k] < g[l]
    <3> SUFFICES ASSUME NEW k \in 1..n, NEW l \in 1..n, k < l PROVE g[k] < g[l]
      OBVIOUS
    <3>1. k \in 1..Len(messages)
      BY <2>1
    <3>2. CASE l = n
      BY <1>1, <2>2, <3>1, <3>2
    <3>3. CASE l \in 1..Len(messages)
      BY <1>5, <2>2, <3>1, <3>3
    <3> QED BY <2>1, <3>2, <3>3
  <2>5. ASSUME ~lost, NEW i \in from..Len(tasks')
        PROVE  /\ tasks'[i].kind # "dangling"
               /\ tasks'[i].kind = "pop" => \E k \in 1..n : g[k] = i
    <3>1. CASE i = Len(tasks) + 1
      <4>1. n \in 1..n
        BY <1>3 DEF n
      <4> QED BY <1>1, <1>7, <2>2, <3>1, <4>1
    <3>2. CASE i \in from..Len(tasks)
      <4>1. i \in 1..Len(tasks) /\ tasks'[i] = tasks[i]
        BY <1>1, <1>4, <3>2
      <4>2. tasks[i].kind # "dangling"
        BY <1>5, <2>5, <3>2
      <4>3. ASSUME tasks[i].kind = "pop" PROVE \E k \in 1..n : g[k] = i
        <5>1. PICK k \in 1..Len(messages) : f[k] = i
          BY <1>5, <2>5, <3>2, <4>3
        <5> QED BY <2>2, <5>1
      <4> QED BY <4>1, <4>2, <4>3
    <3> QED BY <1>4, <3>1, <3>2
  <2>6. ~lost' => \A i \in from..Len(tasks') :
            /\ tasks'[i].kind # "dangling"
            /\ tasks'[i].kind = "pop" => \E k \in 1..n : g[k] = i
    BY <2>5
  <2>7. n = Len(messages') /\ from = FirstPop'
    BY <1>4, <2>1
  <2>8. g \in [1..Len(messages') -> FirstPop'..Len(tasks')]
    BY <2>2, <2>7
  <2>9. PICK h \in [1..Len(messages') -> FirstPop'..Len(tasks')] : h = g
    BY <2>8
  <2>10. PopsAre(h)'
    BY <2>3, <2>4, <2>6, <2>7, <2>9 DEF PopsAre
  <2> QED BY <2>10 DEF Pops
<1> QED BY <1>6, <1>7

\* The first task is removed; that of a message was popped before.
LEMMA PopsAfterRemoval ==
    ASSUME Types, Pops, messages \in Seq(Messages), tasks # <<>>, step' = "idle",
           step \in {"hand", "test", "erase"} \/ Head(tasks).kind \notin {"pop", "dangling"},
           \/ tasks' = Tail(tasks) /\ UNCHANGED <<messages, lost>>
           \/ /\ tasks' = LeftDangling /\ step = "erase"
              /\ messages' = <<>> /\ lost' = (lost \/ messages # <<>>)
    PROVE  Pops'
<1>1. /\ Len(tasks) \in Nat /\ Len(tasks) >= 1 /\ Len(tasks') = Len(tasks) - 1
      /\ Head(tasks) = tasks[1] /\ 1 \in 1..Len(tasks)
      /\ \A i \in 1..Len(tasks') : i + 1 \in 2..Len(tasks) /\ Same(tasks'[i], tasks[i + 1])
      /\ tasks' = Tail(tasks) => \A i \in 1..Len(tasks') : tasks'[i] = tasks[i + 1]
  BY FinishedTasks DEF Types, Removed
<1>2. FirstPop' = 1 /\ FirstPop \in {1, 2}
  BY FirstPopIs DEF FirstPop
<1>3. PICK f \in [1..Len(messages) -> FirstPop..Len(tasks)] : PopsAre(f)
  BY DEF Pops
<1>4. Len(messages) \in Nat
  OBVIOUS
<1>5. /\ \A k \in 1..Len(messages) :
            /\ f[k] \in 2..Len(tasks)
            /\ tasks[f[k]].kind = "pop" /\ tasks[f[k]].message = messages[k]
      /\ \A k, l \in 1..Len(messages) : k < l => f[k] < f[l]
      /\ ~lost => \A i \in 2..Len(tasks) :
            /\ tasks[i].kind # "dangling"
            /\ tasks[i].kind = "pop" => \E k \in 1..Len(messages) : f[k] = i
  <2>1. ASSUME NEW k \in 1..Len(messages)
        PROVE  /\ f[k] \in 2..Len(tasks)
               /\ tasks[f[k]].kind = "pop" /\ tasks[f[k]].message = messages[k]
    <3>1. f[k] \in FirstPop..Len(tasks) /\ tasks[f[k]].kind = "pop"
      BY <1>3 DEF PopsAre
    <3>2. CASE FirstPop = 2
      BY <1>3, <3>1, <3>2 DEF PopsAre
    <3>3. CASE FirstPop = 1
      <4>1. tasks[1].kind # "pop"
        BY <1>1, <3>3, FirstPopIs
      <4>2. f[k] # 1
        BY <3>1, <4>1
      <4> QED BY <1>1, <1>3, <3>1, <3>3, <4>2 DEF PopsAre
    <3> QED BY <1>2, <3>2, <3>3
  <2>2. \A i \in 2..Len(tasks) : i \in FirstPop..Len(tasks)
    BY <1>1, <1>2
  <2> QED BY <1>3, <2>1, <2>2 DEF PopsAre
<1>6. CASE tasks' = Tail(tasks) /\ UNCHANGED <<messages, lost>>
  <2> DEFINE n == Len(messages)
             g == [k \in 1..n |-> f[k] - 1]
  <2>1. g \in [1..n -> 1..Len(tasks')]
    BY <1>1, <1>5
  <2>2. \A k \in 1..n : tasks'[g[k]] = tasks[f[k]]
    <3> SUFFICES ASSUME NEW k \in 1..n PROVE tasks'[g[k]] = tasks[f[k]]
      OBVIOUS
    <3>1. f[k] \in 2..Len(tasks) /\ g[k] = f[k] - 1 /\ g[k] \in 1..Len(tasks')
      BY <1>5, <2>1
    <3>2. g[k] + 1 = f[k]
      BY <3>1
    <3> QED BY <1>1, <1>6, <3>1, <3>2
  <2>3. \A k, l \in 1..n : k < l => g[k] < g[l]
    BY <1>5
  <2>4. ASSUME ~lost, NEW i \in 1..Len(tasks')
        PROVE  /\ tasks'[i].kind # "dangling"
               /\ tasks'[i].kind = "pop" => \E k \in 1..n : g[k] = i
    <3>1. i + 1 \in 2..Len(tasks) /\ tasks'[i] = tasks[i + 1]
      BY <1>1, <1>6
    <3>2. ASSUME tasks[i + 1].kind = "pop" PROVE \E k \in 1..n : g[k] = i
      <4>1. PICK k \in 1..n : f[k] = i + 1
        BY <1>5, <2>4, <3>1, <3>2
      <4> QED BY <4>1
    <3> QED BY <1>5, <2>4, <3>1, <3>2
  <2> HIDE DEF g
  <2>5. \A k \in 1..n : tasks'[g[k]].kind = "pop" /\ tasks'[g[k]].message = messages'[k]
    <3> SUFFICES ASSUME NEW k \in 1..n
                 PROVE  tasks'[g[k]].kind = "pop" /\ tasks'[g[k]].message = messages'[k]
      OBVIOUS
    <3>1. tasks[f[k]].kind = "pop" /\ tasks[f[k]].message = messages[k]
      BY <1>5
    <3>2. tasks'[g[k]] = tasks[f[k]] /\ messages'[k] = messages[k]
      BY <1>6, <2>2
    <3> QED BY <3>1, <3>2
  <2>6. ~lost' => \A i \in 1..Len(tasks') :
            /\ tasks'[i].kind # "dangling"
            /\ tasks'[i].kind = "pop" => \E k \in 1..n : g[k] = i
    BY <1>6, <2>4
  <2>7. n = Len(messages')
    BY <1>6
  <2> HIDE DEF n
  <2>8. g \in [1..Len(messages') -> FirstPop'..Len(tasks')]
    BY <1>2, <2>1, <2>7
  <2>9. PICK h \in [1..Len(messages') -> FirstPop'..Len(tasks')] : h = g
    BY <2>8
  <2>10. PopsAre(h)'
    BY <1>2, <2>3, <2>5, <2>6, <2>7, <2>9 DEF PopsAre
  <2> QED BY <2>10 DEF Pops
<1>7. CASE tasks' = LeftDangling /\ messages' = <<>> /\ lost' = (lost \/ messages # <<>>)
  <2> DEFINE g == [k \in 1..Len(messages') |-> 1]
  <2>1. Len(messages') = 0 /\ g \in [1..Len(messages') -> 1..Len(tasks')]
    BY <1>7
  <2>2. ASSUME ~lost', NEW i \in 1..Len(tasks')
        PROVE  tasks'[i].kind \notin {"pop", "dangling"}
    <3>1. ~lost /\ Len(messages) = 0
      BY <1>7, <2>2
    <3>2. i + 1 \in 2..Len(tasks) /\ Same(tasks'[i], tasks[i + 1])
      BY <1>1
    <3>3. tasks[i + 1].kind \notin {"pop", "dangling"}
      BY <1>5, <3>1, <3>2
    <3> QED BY <3>2, <3>3 DEF Same
  <2> HIDE DEF g
  <2>3. \A k \in 1..0 : FALSE
    OBVIOUS
  <2>4. ~lost' => \A i \in 1..Len(tasks') :
            /\ tasks'[i].kind # "dangling"
            /\ tasks'[i].kind = "pop" => \E k \in 1..0 : g[k] = i
    BY <2>2
  <2>5. PICK h \in [1..Len(messages') -> FirstPop'..Len(tasks')] : h = g
    BY <1>2, <2>1
  <2>6. PopsAre(h)'
    BY <1>2, <2>1, <2>3, <2>4 DEF PopsAre
  <2> QED BY <2>6 DEF Pops
<1> QED BY <1>6, <1>7

\* A message is taken: that of the task itself while none was lost, and one
\* that is ahead of all the others.
LEMMA PopsAfterTake ==
    ASSUME IInv, Pops, Ordered, messages \in Seq(Messages), TakeMessage
    PROVE  /\ Pops' /\ messages' \in Seq(Messages)
           /\ popped' = NoMessage \/ \E i \in 1..Len(tasks) :
                 tasks[i].kind = "pop" /\ tasks[i].message = popped'
           /\ ~lost => popped' = tasks[1].message
           /\ popped' # NoMessage => /\ 1 \in 1..Len(messages) /\ popped' = messages[1]
                                     /\ \A k \in 1..Len(messages') : Before(popped', messages'[k])
           /\ \A k \in 1..Len(messages') : \E l \in 1..Len(messages) : messages'[k] = messages[l]
<1>1. /\ step = "take" /\ step' = "hand" /\ UNCHANGED <<tasks, lost>>
      /\ \/ messages = <<>> /\ Head(tasks).kind = "pop" /\ popped' = NoMessage /\ messages' = messages
         \/ Head(tasks).kind # "pop" /\ popped' = NoMessage /\ messages' = messages
         \/ messages # <<>> /\ popped' = Head(messages) /\ messages' = Tail(messages)
  BY DEF TakeMessage, Shown, Rest, history
<1>2. /\ Len(tasks) \in Nat /\ 1 \in 1..Len(tasks) /\ Head(tasks) = tasks[1]
      /\ tasks[1].kind \in {"pop", "dangling"}
  BY <1>1, HeadTask DEF IInv, Types, Making, PopSteps
<1>3. FirstPop = 1 /\ FirstPop' = 2
  BY <1>1 DEF FirstPop
<1>4. PICK f \in [1..Len(messages) -> 1..Len(tasks)] : PopsAre(f)
  BY <1>3 DEF Pops
<1>5. Len(messages) \in Nat
  OBVIOUS
<1>6. /\ \A k \in 1..Len(messages) :
            tasks[f[k]].kind = "pop" /\ tasks[f[k]].message = messages[k]
      /\ \A k, l \in 1..Len(messages) : k < l => f[k] < f[l]
      /\ ~lost => \A i \in 1..Len(tasks) :
            /\ tasks[i].kind # "dangling"
            /\ tasks[i].kind = "pop" => \E k \in 1..Len(messages) : f[k] = i
  BY <1>3, <1>4 DEF PopsAre
<1>7. ASSUME ~lost PROVE 1 \in 1..Len(messages) /\ f[1] = 1
  <2>1. PICK one \in 1..Len(messages) : f[one] = 1
    BY <1>2, <1>6, <1>7
  <2>2. 1 \in 1..Len(messages)
    BY <1>5, <2>1
  <2>3. 1 < one => f[1] < f[one]
    BY <1>6, <2>2
  <2> QED BY <1>5, <2>1, <2>2, <2>3
<1>8. CASE popped' = NoMessage /\ messages' = messages /\ (messages = <<>> \/ tasks[1].kind # "pop")
  <2>1. lost
    BY <1>2, <1>5, <1>6, <1>7, <1>8
  <2>2. \A k \in 1..Len(messages) : f[k] \in 2..Len(tasks)
    <3> SUFFICES ASSUME NEW k \in 1..Len(messages) PROVE f[k] \in 2..Len(tasks)
      OBVIOUS
    <3>1. tasks[1].kind # "pop"
      BY <1>5, <1>8
    <3>2. f[k] # 1 /\ f[k] \in 1..Len(tasks)
      BY <1>6, <3>1
    <3> QED BY <1>2, <3>2
  <2>3. f \in [1..Len(messages') -> 2..Len(tasks')]
    BY <1>1, <1>8, <2>2
  <2>4. PopsAre(f)'
    BY <1>1, <1>6, <1>8, <2>1 DEF PopsAre
  <2> QED BY <1>3, <1>8, <2>1, <2>3, <2>4 DEF Pops
<1>9. CASE messages # <<>> /\ popped' = Head(messages) /\ messages' = Tail(messages)
  <2>1. /\ Len(messages) >= 1 /\ Head(messages) = messages[1] /\ 1 \in 1..Len(messages)
        /\ messages' \in Seq(Messages) /\ Len(messages') = Len(messages) - 1
        /\ \A k \in 1..Len(messages') : k + 1 \in 2..Len(messages) /\ messages'[k] = messages[k + 1]
    BY <1>5, <1>9, HeadTailProperties
  <2> DEFINE n == Len(messages')
             g == [k \in 1..n |-> f[k + 1]]
  <2>2. \A k \in 1..n : f[k + 1] \in 2..Len(tasks) /\ f[1] < f[k + 1]
    <3> SUFFICES ASSUME NEW k \in 1..n PROVE f[k + 1] \in 2..Len(tasks) /\ f[1] < f[k + 1]
      OBVIOUS
    <3>1. k + 1 \in 1..Len(messages) /\ 1 < k + 1
      BY <2>1
    <3>2. f[1] < f[k + 1] /\ f[1] \in 1..Len(tasks) /\ f[k + 1] \in 1..Len(tasks)
      BY <1>6, <2>1, <3>1
    <3> QED BY <1>2, <3>2
  <2>3. PICK h \in [1..n -> 2..Len(tasks)] : h = g
    BY <2>2
  <2>4. \A k \in 1..n : tasks[h[k]].kind = "pop" /\ tasks[h[k]].message = messages'[k]
    <3> SUFFICES ASSUME NEW k \in 1..n
                 PROVE  tasks[h[k]].kind = "pop" /\ tasks[h[k]].message = messages'[k]
      OBVIOUS
    <3>1. k + 1 \in 1..Len(messages) /\ messages'[k] = messages[k + 1] /\ h[k] = f[k + 1]
      BY <1>5, <2>1, <2>3
    <3> QED BY <1>6, <3>1
  <2>5. \A k, l \in 1..n : k < l => h[k] < h[l]
    <3> SUFFICES ASSUME NEW k \in 1..n, NEW l \in 1..n, k < l PROVE h[k] < h[l]
      OBVIOUS
    <3>1. k + 1 \in 1..Len(messages) /\ l + 1 \in 1..Len(messages) /\ k + 1 < l + 1
      BY <1>5, <2>1
    <3> QED BY <1>6, <2>3, <3>1
  <2>6. ASSUME ~lost, NEW i \in 2..Len(tasks)
        PROVE  /\ tasks[i].kind # "dangling"
               /\ tasks[i].kind = "pop" => \E k \in 1..n : h[k] = i
    <3>1. i \in 1..Len(tasks)
      BY <1>2
    <3>2. ASSUME tasks[i].kind = "pop" PROVE \E k \in 1..n : h[k] = i
      <4>1. PICK k \in 1..Len(messages) : f[k] = i
        BY <1>6, <2>6, <3>1, <3>2
      <4>2. k # 1
        BY <1>7, <2>6, <4>1
      <4>3. k - 1 \in 1..n /\ k - 1 + 1 = k
        BY <1>5, <2>1, <4>2
      <4>4. h[k - 1] = f[k]
        BY <2>3, <4>3
      <4> QED BY <4>1, <4>3, <4>4
    <3> QED BY <1>6, <2>6, <3>1, <3>2
  <2>7. \A k \in 1..n : Before(messages[1], messages'[k])
    <3> SUFFICES ASSUME NEW k \in 1..n PROVE Before(messages[1], messages'[k])
      OBVIOUS
    <3>1. /\ f[1] \in 1..Len(tasks) /\ h[k] \in 1..Len(tasks) /\ f[1] < h[k]
          /\ tasks[f[1]].kind = "pop" /\ tasks[f[1]].message = messages[1]
      <4>1. h[k] = f[k + 1] /\ h[k] \in 2..Len(tasks)
        BY <2>3
      <4>2. h[k] \in 1..Len(tasks) /\ f[1] < h[k]
        BY <1>2, <2>2, <4>1
      <4> QED BY <1>6, <2>1, <4>2
    <3> QED BY <2>4, <3>1 DEF Ordered, IsMessage
  <2>8. \A k \in 1..n : \E l \in 1..Len(messages) : messages'[k] = messages[l]
    <3> SUFFICES ASSUME NEW k \in 1..n PROVE \E l \in 1..Len(messages) : messages'[k] = messages[l]
      OBVIOUS
    <3>1. k + 1 \in 1..Len(messages) /\ messages'[k] = messages[k + 1]
      BY <1>5, <2>1
    <3> QED BY <3>1
  <2>9. Pops'
    <3>1. PopsAre(h)'
      BY <1>1, <1>3, <2>4, <2>5, <2>6 DEF PopsAre
    <3>2. h \in [1..Len(messages') -> FirstPop'..Len(tasks')]
      BY <1>1, <1>3, <2>3
    <3> QED BY <3>1, <3>2 DEF Pops
  <2>10. f[1] \in 1..Len(tasks) /\ tasks[f[1]].kind = "pop" /\ tasks[f[1]].message = messages[1]
    BY <1>6, <2>1
  <2>11. ~lost => popped' = tasks[1].message
    BY <1>7, <1>9, <2>1, <2>10
  <2> QED BY <1>9, <2>1, <2>7, <2>8, <2>9, <2>10, <2>11
<1> QED BY <1>1, <1>2, <1>8, <1>9

-----------------------------------------------------------------------------
\* What a step does to the queue of tasks: nothing, ...
LEMMA TasksUnchanged ==
    ASSUME IInv, QueueInv,
           UNCHANGED <<tasks, connection, received, EditorModel, messages, handled, popped, lost>>,
           UNCHANGED <<FirstPop, FirstToHandle>>, step' = "hand" => step = "hand",
           \/ First' = First
           \/ First = 1 /\ First' = 2 /\ tasks # <<>> /\ Head(tasks).kind # "connect",
           connected' => connected, Leaks => Leaks', Served',
           connected' /\ EditorModel = connection /\ subscription = connection =>
               subscription' = connection
    PROVE  QueueInv'
<1>1. Pops'
  BY DEF QueueInv, Pops, PopsAre
<1>2. Popped'
  BY DEF QueueInv, Popped, Before
<1>3. First \in {1, 2} /\ First' \in First..2 /\ Len(tasks) \in Nat
  BY FirstIs, TaskTypes DEF IInv, Types
<1>4. \A i \in First'..Len(tasks) : i \in First..Len(tasks)
  BY <1>3
<1>5. Invoked'
  <2> SUFFICES ASSUME ~Leaks', NEW i \in First'..Len(tasks), tasks[i].kind = "invoke"
               PROVE  /\ tasks[i].number = EditorModel /\ tasks[i].message[1] = EditorModel
                      /\ \A j \in First'..i : tasks[j].kind # "connect"
                      /\ connected' /\ EditorModel = connection => subscription' = connection
                      /\ \A j \in (i + 1)..Len(tasks) :
                            tasks[j].kind \in {"pop", "dangling"} => EditorModel < tasks[j].message[1]
    BY DEF Invoked
  <2>1. i \in First..Len(tasks) /\ \A j \in First'..i : j \in First..i
    BY <1>3, <1>4
  <2> QED BY <2>1 DEF QueueInv, Invoked
<1>6. Ordered'
  BY DEF QueueInv, Ordered, Before, IsMessage
<1>7. After'
  BY <1>4 DEF QueueInv, After, Before
<1>8. Waiting'
  <2> SUFFICES ASSUME connected, EditorModel < connection
               PROVE  \E i \in First'..Len(tasks) :
                          tasks[i].kind = "connect" /\ tasks[i].number = connection
    BY DEF Waiting
  <2>1. PICK i \in First..Len(tasks) : tasks[i].kind = "connect" /\ tasks[i].number = connection
    BY DEF QueueInv, Waiting
  <2>2. i \in First'..Len(tasks)
    <3>1. CASE First' = First
      BY <3>1
    <3>2. CASE First = 1 /\ First' = 2 /\ tasks # <<>> /\ Head(tasks).kind # "connect"
      <4>1. i # 1
        BY <2>1, <3>2, HeadTask DEF IInv, Types
      <4> QED BY <1>3, <3>2, <4>1
    <3> QED BY <3>1, <3>2
  <2> QED BY <2>1, <2>2
<1>9. Complete'
  BY DEF QueueInv, Complete, IsMessage
<1> QED BY <1>1, <1>2, <1>5, <1>6, <1>7, <1>8, <1>9 DEF QueueInv

\* ... it adds a task, ...
LEMMA TaskAdded ==
    ASSUME IInv, MessageTypes, QueueInv, NEW t \in Tasks, tasks' = Append(tasks, t),
           t.kind # "dangling",
           \/ t.kind # "pop" /\ messages' = messages
           \/ t.kind = "pop" /\ messages' = Append(messages, t.message),
           UNCHANGED <<step, EditorModel, handled, listener, popped, lost>>, Leaks => Leaks',
           \/ connection' = connection /\ (connected' => connected)
           \/ connection' = connection + 1 /\ t.kind = "connect" /\ t.number = connection',
           IsMessage(t) => t.message = <<connection, received + 1>>
    PROVE  /\ Pops' /\ Popped' /\ Waiting' /\ Served'
           /\ First' = First /\ First \in {1, 2} /\ FirstToHandle' = FirstToHandle
           /\ Len(tasks) \in Nat /\ Len(tasks') = Len(tasks) + 1
           /\ \A i \in 1..Len(tasks) : tasks'[i] = tasks[i]
           /\ \A i \in 1..Len(tasks') : \/ i \in 1..Len(tasks) /\ tasks'[i] = tasks[i]
                                        \/ i = Len(tasks) + 1 /\ tasks'[i] = t
           /\ First <= Len(tasks) + 1
           /\ \A i \in 1..Len(tasks) : IsMessage(tasks[i]) =>
                  Before(tasks[i].message, <<connection, received + 1>>)
<1>1. /\ tasks \in Seq(Tasks) /\ messages \in Seq(Messages) /\ connection \in Nat
      /\ received \in Nat /\ EditorModel \in Nat /\ EditorModel <= connection
  BY DEF IInv, Types, Connections, MessageTypes
<1>2. /\ Len(tasks) \in Nat /\ Len(tasks') = Len(tasks) + 1
      /\ \A i \in 1..Len(tasks) : tasks'[i] = tasks[i]
      /\ \A i \in 1..Len(tasks') : \/ i \in 1..Len(tasks) /\ tasks'[i] = tasks[i]
                                   \/ i = Len(tasks) + 1 /\ tasks'[i] = t
      /\ tasks'[Len(tasks) + 1] = t
  BY <1>1, AppendedTasks, AppendProperties
<1>3. First' = First /\ First \in {1, 2} /\ FirstToHandle' = FirstToHandle
  BY FirstIs DEF First, FirstToHandle
<1>4. First <= Len(tasks) + 1
  <2>1. step # "idle" => Len(tasks) >= 1
    BY <1>1, HeadTask DEF IInv, Making
  <2> QED BY <1>2, <2>1, FirstIs
<1>5. Pops'
  BY <1>1, PopsAfterAppend DEF QueueInv
<1>6. ASSUME NEW i \in 1..Len(tasks), IsMessage(tasks[i])
      PROVE  Before(tasks[i].message, <<connection, received + 1>>)
  <2>1. tasks[i].message[1] \in Nat /\ tasks[i].message[2] \in Nat
    BY <1>1, TaskFields, ElementOfSeq
  <2>2. /\ tasks[i].message[1] \in 1..connection
        /\ tasks[i].message[1] = connection => tasks[i].message[2] <= received
    BY <1>6 DEF QueueInv, Ordered
  <2> QED BY <1>1, <2>1, <2>2 DEF Before
<1>7. Popped'
  <2> SUFFICES ASSUME step = "hand"
               PROVE  /\ popped = NoMessage \/ \E i \in 1..Len(tasks') :
                            tasks'[i].kind = "pop" /\ tasks'[i].message = popped
                      /\ ~lost => popped = tasks'[1].message
                      /\ popped # NoMessage =>
                            \A k \in 1..Len(messages') : Before(popped, messages'[k])
                      /\ popped # NoMessage /\ ~Leaks => Before(handled, popped)
    BY DEF Popped, Before
  <2>1. 1 \in 1..Len(tasks)
    BY <1>1, HeadTask DEF IInv, Making
  <2>2. /\ popped = NoMessage \/ \E i \in 1..Len(tasks) :
              tasks[i].kind = "pop" /\ tasks[i].message = popped
        /\ ~lost => popped = tasks[1].message
        /\ popped # NoMessage => \A k \in 1..Len(messages) : Before(popped, messages[k])
        /\ popped # NoMessage /\ ~Leaks => Before(handled, popped)
    BY DEF QueueInv, Popped
  <2>3. \A i \in 1..Len(tasks) : i \in 1..Len(tasks') /\ tasks'[i] = tasks[i]
    BY <1>2
  <2>4. ASSUME popped # NoMessage, NEW k \in 1..Len(messages')
        PROVE  Before(popped, messages'[k])
    <3>1. CASE messages' = messages
      BY <2>2, <2>4, <3>1
    <3>2. CASE t.kind = "pop" /\ messages' = Append(messages, t.message)
      <4>1. t.message \in Messages /\ t.message = <<connection, received + 1>>
        BY <3>2, TaskFields DEF IsMessage
      <4>2. \/ k \in 1..Len(messages) /\ messages'[k] = messages[k]
            \/ messages'[k] = <<connection, received + 1>>
        <5>1. /\ Len(messages') = Len(messages) + 1 /\ Len(messages) \in Nat
              /\ messages'[Len(messages) + 1] = t.message
              /\ \A l \in 1..Len(messages) : messages'[l] = messages[l]
          BY <1>1, <3>2, <4>1, AppendProperties
        <5>2. k \in 1..Len(messages) \/ k = Len(messages) + 1
          BY <5>1
        <5> QED BY <4>1, <5>1, <5>2
      <4>3. Before(popped, <<connection, received + 1>>)
        BY <1>6, <2>2, <2>4 DEF IsMessage
      <4> QED BY <2>2, <2>4, <4>2, <4>3
    <3> QED BY <3>1, <3>2
  <2> QED BY <2>1, <2>2, <2>3, <2>4
<1>8. Waiting'
  <2>1. \A i \in First..Len(tasks) : i \in First..Len(tasks') /\ tasks'[i] = tasks[i]
    BY <1>2, <1>3
  <2>2. CASE connection' = connection /\ (connected' => connected)
    BY <1>3, <2>1, <2>2 DEF QueueInv, Waiting
  <2>3. CASE t.kind = "connect" /\ t.number = connection'
    <3>1. Len(tasks) + 1 \in First'..Len(tasks')
      BY <1>2, <1>3, <1>4
    <3> QED BY <1>2, <2>3, <3>1 DEF Waiting
  <2> QED BY <2>2, <2>3
<1>9. Served'
  <2> SUFFICES ASSUME step \in {"take", "hand"}, connected', tasks'[1].message[1] = connection'
               PROVE  listener = connection'
    BY DEF Served
  <2>1. 1 \in 1..Len(tasks) /\ IsMessage(tasks[1]) /\ tasks'[1] = tasks[1]
    BY <1>1, <1>2, HeadTask DEF IInv, Making, PopSteps, IsMessage
  <2>2. tasks[1].message[1] \in 1..connection
    BY <2>1 DEF QueueInv, Ordered
  <2>3. connection' = connection /\ connected
    BY <1>1, <2>1, <2>2
  <2> QED BY <2>1, <2>3 DEF QueueInv, Served
<1> QED BY <1>2, <1>3, <1>4, <1>5, <1>6, <1>7, <1>8, <1>9

\* ... one that is no message and makes no model, ...
LEMMA OtherTaskAppended ==
    ASSUME IInv, MessageTypes, QueueInv, NEW t \in Tasks, tasks' = Append(tasks, t),
           t.kind \notin {"pop", "dangling", "invoke", "connect"},
           UNCHANGED <<connected, connection, received, step, EditorModel, messages, handled,
                       subscription, listener, popped, lost>>,
           Leaks' = Leaks
    PROVE  QueueInv'
<1>1. /\ Pops' /\ Popped' /\ Waiting' /\ Served'
      /\ First' = First /\ First \in {1, 2} /\ FirstToHandle' = FirstToHandle
      /\ Len(tasks) \in Nat /\ Len(tasks') = Len(tasks) + 1
      /\ \A i \in 1..Len(tasks) : tasks'[i] = tasks[i]
      /\ \A i \in 1..Len(tasks') : \/ i \in 1..Len(tasks) /\ tasks'[i] = tasks[i]
                                   \/ i = Len(tasks) + 1 /\ tasks'[i] = t
  <2>1. t.kind # "dangling" /\ t.kind # "pop" /\ ~IsMessage(t)
    BY DEF IsMessage
  <2> QED BY <2>1, TaskAdded
<1>2. Invoked'
  <2> SUFFICES ASSUME ~Leaks, NEW i \in First..Len(tasks'), tasks'[i].kind = "invoke"
               PROVE  /\ tasks'[i].number = EditorModel /\ tasks'[i].message[1] = EditorModel
                      /\ \A j \in First..i : tasks'[j].kind # "connect"
                      /\ connected /\ EditorModel = connection => subscription = connection
                      /\ \A j \in (i + 1)..Len(tasks') :
                            tasks'[j].kind \in {"pop", "dangling"} => EditorModel < tasks'[j].message[1]
    BY <1>1 DEF Invoked
  <2>1. i \in First..Len(tasks) /\ tasks'[i] = tasks[i]
    BY <1>1
  <2>2. \A j \in First..i : j \in First..Len(tasks) /\ tasks'[j] = tasks[j]
    BY <1>1, <2>1
  <2>3. \A j \in (i + 1)..Len(tasks') : \/ j \in (i + 1)..Len(tasks) /\ tasks'[j] = tasks[j]
                                        \/ tasks'[j] = t
    BY <1>1, <2>1
  <2> QED BY <2>1, <2>2, <2>3 DEF QueueInv, Invoked
<1>3. Ordered'
  <2>1. ASSUME NEW i \in 1..Len(tasks'), IsMessage(tasks'[i])
        PROVE  /\ i \in 1..Len(tasks) /\ tasks'[i] = tasks[i]
               /\ tasks[i].message[1] \in 1..connection /\ tasks[i].message[2] >= 1
               /\ tasks[i].message[1] = connection => tasks[i].message[2] <= received
    <3>1. i \in 1..Len(tasks) /\ tasks'[i] = tasks[i]
      BY <1>1, <2>1 DEF IsMessage
    <3> QED BY <2>1, <3>1 DEF QueueInv, Ordered
  <2>2. ASSUME NEW i \in 1..Len(tasks'), NEW j \in 1..Len(tasks'), IsMessage(tasks'[i]), i < j
        PROVE  /\ IsMessage(tasks'[j]) => Before(tasks'[i].message, tasks'[j].message)
               /\ tasks'[j].kind = "connect" => tasks'[i].message[1] < tasks'[j].number
    <3>1. i \in 1..Len(tasks) /\ tasks'[i] = tasks[i]
      BY <2>1, <2>2
    <3>2. CASE j \in 1..Len(tasks) /\ tasks'[j] = tasks[j]
      BY <2>2, <3>1, <3>2 DEF QueueInv, Ordered
    <3>3. CASE tasks'[j] = t
      BY <3>3 DEF IsMessage
    <3> QED BY <1>1, <3>2, <3>3
  <2> QED BY <2>1, <2>2 DEF Ordered, Before, IsMessage
<1>4. After'
  <2>1. ASSUME NEW i \in First..Len(tasks'), tasks'[i].kind = "invoke"
        PROVE  i \in First..Len(tasks) /\ tasks'[i] = tasks[i]
    BY <1>1, <2>1
  <2> QED BY <1>1, <2>1 DEF QueueInv, After, Before
<1>5. Complete'
  <2>1. FirstToHandle \in {1, 2}
    BY FirstPopIs
  <2>2. \A i \in FirstToHandle..Len(tasks) : i \in FirstToHandle..Len(tasks') /\ tasks'[i] = tasks[i]
    BY <1>1, <2>1
  <2>3. ASSUME ~Leaks, ~lost, connected, NEW n \in 1..received
        PROVE  \/ handled[1] = connection /\ n <= handled[2]
               \/ \E i \in FirstToHandle..Len(tasks') :
                     IsMessage(tasks'[i]) /\ tasks'[i].message = <<connection, n>>
    <3>1. CASE handled[1] = connection /\ n <= handled[2]
      BY <3>1
    <3>2. CASE \E i \in FirstToHandle..Len(tasks) :
                  IsMessage(tasks[i]) /\ tasks[i].message = <<connection, n>>
      <4>1. PICK i \in FirstToHandle..Len(tasks) :
                    IsMessage(tasks[i]) /\ tasks[i].message = <<connection, n>>
        BY <3>2
      <4>2. i \in FirstToHandle..Len(tasks') /\ tasks'[i] = tasks[i]
        BY <2>2
      <4> QED BY <4>1, <4>2
    <3> QED BY <2>3, <3>1, <3>2 DEF QueueInv, Complete
  <2> QED BY <1>1, <2>3 DEF Complete, IsMessage
<1> QED BY <1>1, <1>2, <1>3, <1>4, <1>5 DEF QueueInv

\* ... a message, ...
LEMMA ReceiveKeepsQueue ==
    ASSUME IInv, ModelInv, QueueInv, Receive
    PROVE  QueueInv'
<1> DEFINE m == <<connection, received + 1>>
           t == IF subscription > 0 THEN Task("invoke", subscription, m) ELSE Task("pop", 0, m)
<1>1. /\ Types /\ Connections /\ Known /\ MessageTypes /\ Subscribed
  BY DEF IInv, ModelInv
<1>2. /\ UNCHANGED <<connected, connection, ended, step, EditorModel, handled, leaked, listener,
                     popped, lost>>
      /\ received' = received + 1 /\ connected /\ tasks' = Append(tasks, t)
      /\ messages' = IF t.kind = "pop" THEN Append(messages, t.message) ELSE messages
      /\ subscription' = IF subscription > 0 THEN subscription ELSE 0
  BY DEF Receive, Dispatch, DispatchToNobody, model, hand, history, Task
<1>3. /\ connection \in Nat /\ connection >= 1 /\ received \in Nat /\ EditorModel \in Nat
      /\ EditorModel <= connection
      /\ subscription \in Nat \cup {Absent} /\ tasks \in Seq(Tasks)
      /\ handled[1] \in Nat /\ handled[2] \in Nat
  BY <1>1, <1>2 DEF Types, Connections, MessageTypes, Messages
<1>4. /\ t \in Tasks /\ t.message = m /\ t.kind \in {"pop", "invoke"}
      /\ t.kind = "invoke" => subscription > 0 /\ t.number = subscription
      /\ t.kind = "pop" => ~(subscription > 0)
  BY <1>3 DEF Task, Tasks, Messages, Absent
<1>5. m[1] = connection /\ m[2] = received + 1
  OBVIOUS
<1> HIDE DEF t, m
<1>6. Leaks' = Leaks
  BY <1>2 DEF Leaks
<1>7. /\ Pops' /\ Popped' /\ Waiting' /\ Served'
      /\ First' = First /\ First \in {1, 2} /\ FirstToHandle' = FirstToHandle
      /\ Len(tasks) \in Nat /\ Len(tasks') = Len(tasks) + 1
      /\ \A i \in 1..Len(tasks) : tasks'[i] = tasks[i]
      /\ \A i \in 1..Len(tasks') : \/ i \in 1..Len(tasks) /\ tasks'[i] = tasks[i]
                                   \/ i = Len(tasks) + 1 /\ tasks'[i] = t
      /\ First <= Len(tasks) + 1
      /\ \A i \in 1..Len(tasks) : IsMessage(tasks[i]) => Before(tasks[i].message, m)
  <2>1. t.kind # "dangling" /\ t.message = <<connection, received + 1>>
    BY <1>4 DEF m
  <2>2. \/ t.kind # "pop" /\ messages' = messages
        \/ t.kind = "pop" /\ messages' = Append(messages, t.message)
    BY <1>2
  <2> QED BY <1>1, <1>2, <1>4, <1>6, <2>1, <2>2, TaskAdded DEF m
<1>8. Invoked'
  <2> SUFFICES ASSUME ~Leaks, NEW i \in First..Len(tasks'), tasks'[i].kind = "invoke"
               PROVE  /\ tasks'[i].number = EditorModel /\ tasks'[i].message[1] = EditorModel
                      /\ \A j \in First..i : tasks'[j].kind # "connect"
                      /\ EditorModel = connection => subscription' = connection
                      /\ \A j \in (i + 1)..Len(tasks') :
                            tasks'[j].kind \in {"pop", "dangling"} => EditorModel < tasks'[j].message[1]
    BY <1>2, <1>6, <1>7 DEF Invoked
  <2>1. CASE i \in First..Len(tasks)
    <3>1. \A j \in First..i : j \in 1..Len(tasks) /\ tasks'[j] = tasks[j]
      BY <1>7, <2>1
    <3>2. tasks'[i] = tasks[i]
      BY <1>7, <2>1
    <3>3. /\ tasks[i].number = EditorModel /\ tasks[i].message[1] = EditorModel
          /\ \A j \in First..i : tasks[j].kind # "connect"
          /\ EditorModel = connection => subscription = connection
          /\ \A j \in (i + 1)..Len(tasks) :
                tasks[j].kind \in {"pop", "dangling"} => EditorModel < tasks[j].message[1]
      BY <1>2, <2>1, <3>2 DEF QueueInv, Invoked
    <3>4. ASSUME NEW j \in (i + 1)..Len(tasks'), tasks'[j].kind \in {"pop", "dangling"}
          PROVE  EditorModel < tasks'[j].message[1]
      <4>1. CASE j \in (i + 1)..Len(tasks) /\ tasks'[j] = tasks[j]
        BY <3>3, <3>4, <4>1
      <4>2. CASE tasks'[j] = t
        <5>1. ~(subscription > 0)
          BY <1>4, <3>4, <4>2
        <5>2. EditorModel # connection
          BY <1>3, <3>3, <5>1
        <5> QED BY <1>3, <1>4, <1>5, <4>2, <5>2
      <4> QED BY <1>7, <2>1, <4>1, <4>2
    <3>5. EditorModel = connection => subscription' = connection
      BY <1>2, <1>3, <3>3
    <3> QED BY <3>1, <3>2, <3>3, <3>4, <3>5
  <2>2. CASE i \notin First..Len(tasks)
    <3>1. i = Len(tasks) + 1 /\ tasks'[i] = t
      BY <1>7, <2>2
    <3>2. subscription = EditorModel /\ EditorModel = connection
      BY <1>1, <1>4, <3>1 DEF Subscribed
    <3>3. ASSUME NEW j \in First..i PROVE tasks'[j].kind # "connect"
      <4>1. CASE j \in First..Len(tasks)
        <5>1. j \in 1..Len(tasks) /\ tasks'[j] = tasks[j]
          BY <1>7, <4>1
        <5>2. tasks[j].kind = "connect" => /\ tasks[j].number \in 1..connection
                                           /\ EditorModel < tasks[j].number
          BY <1>1, <4>1, <5>1 DEF Known, OfConnection
        <5> QED BY <1>3, <3>2, <5>1, <5>2
      <4>2. CASE j \notin First..Len(tasks)
        <5>1. j = i
          BY <1>7, <3>1, <4>2
        <5> QED BY <1>4, <3>1, <5>1
      <4> QED BY <4>1, <4>2
    <3>4. (i + 1)..Len(tasks') = {}
      BY <1>7, <3>1
    <3> QED BY <1>2, <1>3, <1>4, <1>5, <3>1, <3>2, <3>3, <3>4
  <2> QED BY <2>1, <2>2
<1>9. Ordered'
  <2>1. ASSUME NEW i \in 1..Len(tasks'), IsMessage(tasks'[i])
        PROVE  /\ tasks'[i].message[1] \in 1..connection /\ tasks'[i].message[2] >= 1
               /\ tasks'[i].message[1] = connection => tasks'[i].message[2] <= received + 1
    <3>1. CASE i \in 1..Len(tasks) /\ tasks'[i] = tasks[i]
      <4>1. tasks[i].message[2] \in Nat
        BY <1>3, <3>1, TaskFields, ElementOfSeq
      <4>2. /\ tasks[i].message[1] \in 1..connection /\ tasks[i].message[2] >= 1
            /\ tasks[i].message[1] = connection => tasks[i].message[2] <= received
        BY <2>1, <3>1 DEF QueueInv, Ordered
      <4> QED BY <1>3, <3>1, <4>1, <4>2
    <3>2. CASE tasks'[i] = t
      BY <1>3, <1>4, <1>5, <3>2
    <3> QED BY <1>7, <3>1, <3>2
  <2>2. ASSUME NEW i \in 1..Len(tasks'), NEW j \in 1..Len(tasks'), IsMessage(tasks'[i]), i < j
        PROVE  /\ IsMessage(tasks'[j]) => Before(tasks'[i].message, tasks'[j].message)
               /\ tasks'[j].kind = "connect" => tasks'[i].message[1] < tasks'[j].number
    <3>1. i \in 1..Len(tasks) /\ tasks'[i] = tasks[i]
      BY <1>7, <2>2
    <3>2. CASE j \in 1..Len(tasks) /\ tasks'[j] = tasks[j]
      BY <2>2, <3>1, <3>2 DEF QueueInv, Ordered
    <3>3. CASE tasks'[j] = t
      BY <1>4, <1>7, <2>2, <3>1, <3>3
    <3> QED BY <1>7, <3>2, <3>3
  <2> QED BY <1>2, <2>1, <2>2 DEF Ordered, Before, IsMessage
<1>10. After'
  <2>1. /\ handled[1] <= connection /\ (handled[1] = connection => handled[2] <= received + 1)
        /\ Before(handled, m)
    BY <1>3, <1>5 DEF QueueInv, After, Before
  <2>2. ASSUME ~Leaks, NEW i \in First..Len(tasks'), tasks'[i].kind = "invoke"
        PROVE  Before(handled, tasks'[i].message)
    <3>1. CASE i \in First..Len(tasks)
      <4>1. tasks'[i] = tasks[i]
        BY <1>7, <3>1
      <4> QED BY <2>2, <3>1, <4>1 DEF QueueInv, After
    <3>2. CASE tasks'[i] = t
      BY <1>4, <2>1, <3>2
    <3> QED BY <1>7, <3>1, <3>2
  <2>3. ASSUME ~Leaks, NEW k \in 1..Len(messages') PROVE Before(handled, messages'[k])
    <3>1. CASE messages' = messages
      BY <2>3, <3>1 DEF QueueInv, After
    <3>2. CASE messages' = Append(messages, m)
      <4>1. m \in Messages /\ messages \in Seq(Messages)
        BY <1>1, <1>4, TaskFields DEF MessageTypes
      <4>2. /\ Len(messages) \in Nat /\ Len(messages') = Len(messages) + 1
            /\ messages'[Len(messages) + 1] = m
            /\ \A l \in 1..Len(messages) : messages'[l] = messages[l]
        BY <3>2, <4>1, AppendProperties
      <4>3. k \in 1..Len(messages) \/ k = Len(messages) + 1
        BY <4>2
      <4> QED BY <2>1, <2>3, <4>2, <4>3 DEF QueueInv, After
    <3> QED BY <1>2, <1>4, <3>1, <3>2
  <2> QED BY <1>2, <1>6, <1>7, <2>1, <2>2, <2>3 DEF After, Before
<1>11. Complete'
  <2> SUFFICES ASSUME ~Leaks, ~lost, NEW n \in 1..(received + 1)
               PROVE  \/ handled[1] = connection /\ n <= handled[2]
                      \/ \E i \in FirstToHandle..Len(tasks') :
                             IsMessage(tasks'[i]) /\ tasks'[i].message = <<connection, n>>
    BY <1>2, <1>6, <1>7 DEF Complete, IsMessage
  <2>1. FirstToHandle \in {1, 2} /\ FirstToHandle <= First
    BY FirstPopIs, FirstIs
  <2>2. CASE n \in 1..received
    <3>1. \A i \in FirstToHandle..Len(tasks) :
              i \in FirstToHandle..Len(tasks') /\ tasks'[i] = tasks[i]
      BY <1>7, <2>1
    <3> QED BY <1>2, <2>2, <3>1 DEF QueueInv, Complete
  <2>3. CASE n = received + 1
    <3>1. Len(tasks) + 1 \in FirstToHandle..Len(tasks') /\ tasks'[Len(tasks) + 1] = t
      BY <1>7, <2>1
    <3>2. IsMessage(t) /\ t.message = <<connection, n>>
      BY <1>4, <2>3 DEF IsMessage, m
    <3> QED BY <3>1, <3>2
  <2> QED BY <1>3, <2>2, <2>3
<1> QED BY <1>7, <1>8, <1>9, <1>10, <1>11 DEF QueueInv

\* ... or the task that makes the model of a connection, ...
LEMMA ConnectKeepsQueue ==
    ASSUME IInv, ModelInv, QueueInv, Connect
    PROVE  QueueInv'
<1> DEFINE t == Task("connect", connection + 1, NoMessage)
<1>1. /\ Types /\ Connections /\ Making /\ MessageTypes
  BY DEF IInv, ModelInv
<1>2. /\ UNCHANGED <<ended, step, EditorModel, messages, handled, leaked, subscription, listener,
                     popped, lost>>
      /\ ~connected
      /\ connection' = connection + 1 /\ received' = 0 /\ tasks' = Append(tasks, t)
  BY DEF Connect, model, broker, hand, history
<1>3. /\ connection \in Nat /\ EditorModel \in Nat /\ EditorModel <= connection
      /\ tasks \in Seq(Tasks) /\ handled[1] \in Nat /\ handled[2] \in Nat
  BY <1>1 DEF Types, Connections, MessageTypes, Messages
<1>4. t \in Tasks /\ t.kind = "connect" /\ t.number = connection + 1
  BY <1>3 DEF Task, Tasks, Messages, NoMessage
<1> HIDE DEF t
<1>5. Leaks' = Leaks
  BY <1>2 DEF Leaks
<1>6. /\ Pops' /\ Popped' /\ Waiting' /\ Served'
      /\ First' = First /\ First \in {1, 2} /\ FirstToHandle' = FirstToHandle
      /\ Len(tasks) \in Nat /\ Len(tasks') = Len(tasks) + 1
      /\ \A i \in 1..Len(tasks) : tasks'[i] = tasks[i]
      /\ \A i \in 1..Len(tasks') : \/ i \in 1..Len(tasks) /\ tasks'[i] = tasks[i]
                                   \/ i = Len(tasks) + 1 /\ tasks'[i] = t
  <2>1. t.kind # "dangling" /\ t.kind # "pop" /\ ~IsMessage(t)
    BY <1>4 DEF IsMessage
  <2> QED BY <1>1, <1>2, <1>4, <1>5, <2>1, TaskAdded
<1>7. Invoked'
  <2> SUFFICES ASSUME ~Leaks, NEW i \in First..Len(tasks'), tasks'[i].kind = "invoke"
               PROVE  /\ tasks'[i].number = EditorModel /\ tasks'[i].message[1] = EditorModel
                      /\ \A j \in First..i : tasks'[j].kind # "connect"
                      /\ EditorModel # connection + 1
                      /\ \A j \in (i + 1)..Len(tasks') :
                            tasks'[j].kind \in {"pop", "dangling"} => EditorModel < tasks'[j].message[1]
    BY <1>2, <1>5, <1>6 DEF Invoked
  <2>1. i \in First..Len(tasks) /\ tasks'[i] = tasks[i]
    BY <1>4, <1>6
  <2>2. \A j \in First..i : j \in First..Len(tasks) /\ tasks'[j] = tasks[j]
    BY <1>6, <2>1
  <2>3. \A j \in (i + 1)..Len(tasks') : \/ j \in (i + 1)..Len(tasks) /\ tasks'[j] = tasks[j]
                                        \/ tasks'[j] = t
    BY <1>6, <2>1
  <2>4. EditorModel # connection + 1
    BY <1>3
  <2> QED BY <1>4, <2>1, <2>2, <2>3, <2>4 DEF QueueInv, Invoked
<1>8. Ordered'
  <2>1. ASSUME NEW i \in 1..Len(tasks'), IsMessage(tasks'[i])
        PROVE  /\ i \in 1..Len(tasks) /\ tasks'[i] = tasks[i]
               /\ tasks'[i].message[1] \in 1..(connection + 1) /\ tasks'[i].message[2] >= 1
               /\ tasks'[i].message[1] < connection + 1
    <3>1. i \in 1..Len(tasks) /\ tasks'[i] = tasks[i]
      BY <1>4, <1>6, <2>1 DEF IsMessage
    <3>2. tasks[i].message[1] \in 1..connection /\ tasks[i].message[2] >= 1
      BY <2>1, <3>1 DEF QueueInv, Ordered
    <3> QED BY <1>3, <3>1, <3>2
  <2>2. ASSUME NEW i \in 1..Len(tasks'), NEW j \in 1..Len(tasks'), IsMessage(tasks'[i]), i < j
        PROVE  /\ IsMessage(tasks'[j]) => Before(tasks'[i].message, tasks'[j].message)
               /\ tasks'[j].kind = "connect" => tasks'[i].message[1] < tasks'[j].number
    <3>1. i \in 1..Len(tasks) /\ tasks'[i] = tasks[i]
      BY <2>1, <2>2
    <3>2. CASE j \in 1..Len(tasks) /\ tasks'[j] = tasks[j]
      BY <2>2, <3>1, <3>2 DEF QueueInv, Ordered
    <3>3. CASE tasks'[j] = t
      <4>1. tasks'[i].message[1] < connection + 1
        BY <2>1, <2>2
      <4> QED BY <1>4, <3>3, <4>1 DEF IsMessage
    <3> QED BY <1>6, <3>2, <3>3
  <2>3. ASSUME NEW i \in 1..Len(tasks'), IsMessage(tasks'[i]),
               tasks'[i].message[1] = connection + 1
        PROVE  FALSE
    BY <1>3, <2>1, <2>3
  <2> QED BY <1>2, <2>1, <2>2, <2>3 DEF Ordered, Before, IsMessage
<1>9. After'
  <2>1. handled[1] <= connection + 1 /\ handled[1] # connection + 1
    BY <1>3 DEF QueueInv, After
  <2>2. ASSUME NEW i \in First..Len(tasks'), tasks'[i].kind = "invoke"
        PROVE  i \in First..Len(tasks) /\ tasks'[i] = tasks[i]
    BY <1>4, <1>6, <2>2
  <2> QED BY <1>2, <1>5, <1>6, <2>1, <2>2 DEF QueueInv, After, Before
<1>10. Complete'
  BY <1>2 DEF Complete
<1> QED BY <1>6, <1>7, <1>8, <1>9, <1>10 DEF QueueInv

\* ... it removes the first task, that makes no model and was popped, ...
LEMMA TaskRemoved ==
    ASSUME IInv, MessageTypes, QueueInv, tasks # <<>>, step' = "idle",
           step = "idle" => Head(tasks).kind # "connect",
           step \in {"hand", "test", "erase"} \/ Head(tasks).kind \notin {"pop", "dangling"},
           \/ tasks' = Tail(tasks) /\ UNCHANGED <<messages, lost>>
           \/ /\ tasks' = LeftDangling /\ step = "erase"
              /\ messages' = <<>> /\ lost' = (lost \/ messages # <<>>),
           UNCHANGED <<connected, connection, received, EditorModel, subscription>>,
           Leaks => Leaks'
    PROVE  /\ Pops' /\ Popped' /\ Invoked' /\ Ordered' /\ Waiting' /\ Served'
           /\ Len(tasks) \in Nat /\ Len(tasks') = Len(tasks) - 1
           /\ \A i \in 1..Len(tasks') : i + 1 \in 2..Len(tasks) /\ Same(tasks'[i], tasks[i + 1])
           /\ UNCHANGED handled /\ (connected /\ ~lost' /\ ~Leaks' /\ IsMessage(tasks[1]) =>
                  FirstToHandle = 2 \/ tasks[1].message[1] # connection)
              => QueueInv'
<1>1. /\ Len(tasks) \in Nat /\ Len(tasks) >= 1 /\ Len(tasks') = Len(tasks) - 1
      /\ Head(tasks) = tasks[1] /\ 1 \in 1..Len(tasks)
      /\ \A i \in 1..Len(tasks') : i + 1 \in 2..Len(tasks) /\ Same(tasks'[i], tasks[i + 1])
  BY FinishedTasks DEF IInv, Types, Removed
<1>2. /\ First' = 1 /\ First \in {1, 2} /\ (First = 1 => step = "idle")
      /\ FirstToHandle' = 1 /\ FirstToHandle \in {1, 2}
  BY FirstPopIs DEF First, FirstToHandle
<1>3. Pops' /\ Popped' /\ Served'
  <2>1. Pops'
    BY PopsAfterRemoval DEF IInv, MessageTypes, QueueInv
  <2> QED BY <2>1 DEF Popped, Served
<1>4. Invoked'
  <2> SUFFICES ASSUME ~Leaks, NEW i \in 1..Len(tasks'), tasks'[i].kind = "invoke"
               PROVE  /\ tasks'[i].number = EditorModel /\ tasks'[i].message[1] = EditorModel
                      /\ \A j \in 1..i : tasks'[j].kind # "connect"
                      /\ connected /\ EditorModel = connection => subscription = connection
                      /\ \A j \in (i + 1)..Len(tasks') :
                            tasks'[j].kind \in {"pop", "dangling"} => EditorModel < tasks'[j].message[1]
    BY <1>2 DEF Invoked
  <2>1. i + 1 \in First..Len(tasks) /\ Same(tasks'[i], tasks[i + 1]) /\ tasks[i + 1].kind = "invoke"
    <3>1. i + 1 \in First..Len(tasks) /\ Same(tasks'[i], tasks[i + 1])
      BY <1>1, <1>2
    <3> QED BY <3>1 DEF Same
  <2>2. \A j \in 1..i : j + 1 \in First..(i + 1) /\ Same(tasks'[j], tasks[j + 1])
    BY <1>1, <1>2
  <2>3. \A j \in (i + 1)..Len(tasks') :
            j + 1 \in (i + 1 + 1)..Len(tasks) /\ Same(tasks'[j], tasks[j + 1])
    BY <1>1, <1>2
  <2>4. /\ tasks[i + 1].number = EditorModel /\ tasks[i + 1].message[1] = EditorModel
        /\ \A j \in First..(i + 1) : tasks[j].kind # "connect"
        /\ connected /\ EditorModel = connection => subscription = connection
        /\ \A j \in (i + 1 + 1)..Len(tasks) :
              tasks[j].kind \in {"pop", "dangling"} => EditorModel < tasks[j].message[1]
    BY <2>1 DEF QueueInv, Invoked
  <2>5. \A j \in 1..i : tasks'[j].kind # "connect"
    BY <2>2, <2>4 DEF Same
  <2>6. \A j \in (i + 1)..Len(tasks') :
            tasks'[j].kind \in {"pop", "dangling"} => EditorModel < tasks'[j].message[1]
    BY <2>3, <2>4 DEF Same
  <2> QED BY <2>1, <2>4, <2>5, <2>6 DEF Same
<1>5. Ordered'
  <2>1. ASSUME NEW i \in 1..Len(tasks'), IsMessage(tasks'[i])
        PROVE  /\ i + 1 \in 1..Len(tasks) /\ IsMessage(tasks[i + 1])
               /\ tasks'[i].message = tasks[i + 1].message
    BY <1>1, <2>1 DEF Same, IsMessage
  <2>2. ASSUME NEW i \in 1..Len(tasks'), IsMessage(tasks'[i])
        PROVE  /\ tasks'[i].message[1] \in 1..connection /\ tasks'[i].message[2] >= 1
               /\ tasks'[i].message[1] = connection => tasks'[i].message[2] <= received
    BY <2>1, <2>2 DEF QueueInv, Ordered
  <2>3. ASSUME NEW i \in 1..Len(tasks'), NEW j \in 1..Len(tasks'), IsMessage(tasks'[i]), i < j
        PROVE  /\ IsMessage(tasks'[j]) => Before(tasks'[i].message, tasks'[j].message)
               /\ tasks'[j].kind = "connect" => tasks'[i].message[1] < tasks'[j].number
    <3>1. /\ i + 1 \in 1..Len(tasks) /\ IsMessage(tasks[i + 1])
          /\ tasks'[i].message = tasks[i + 1].message
      BY <2>1, <2>3
    <3>2. j + 1 \in 1..Len(tasks) /\ i + 1 < j + 1 /\ Same(tasks'[j], tasks[j + 1])
      BY <1>1, <2>3
    <3>3. /\ IsMessage(tasks[j + 1]) => Before(tasks[i + 1].message, tasks[j + 1].message)
          /\ tasks[j + 1].kind = "connect" => tasks[i + 1].message[1] < tasks[j + 1].number
      BY <3>1, <3>2 DEF QueueInv, Ordered
    <3> QED BY <3>1, <3>2, <3>3 DEF Same, IsMessage
  <2> QED BY <2>2, <2>3 DEF Ordered, Before, IsMessage
<1>6. Waiting'
  <2> SUFFICES ASSUME connected, EditorModel < connection
               PROVE  \E i \in 1..Len(tasks') :
                          tasks'[i].kind = "connect" /\ tasks'[i].number = connection
    BY <1>2 DEF Waiting
  <2>1. PICK i \in First..Len(tasks) : tasks[i].kind = "connect" /\ tasks[i].number = connection
    BY DEF QueueInv, Waiting
  <2>2. i # 1
    BY <1>1, <1>2, <2>1
  <2>3. i - 1 \in 1..Len(tasks') /\ i - 1 + 1 = i
    BY <1>1, <1>2, <2>2
  <2>4. Same(tasks'[i - 1], tasks[i])
    BY <1>1, <2>3
  <2> QED BY <2>1, <2>3, <2>4 DEF Same
<1>7. ASSUME UNCHANGED handled,
             connected /\ ~lost' /\ ~Leaks' /\ IsMessage(tasks[1]) =>
                 FirstToHandle = 2 \/ tasks[1].message[1] # connection
      PROVE  After' /\ Complete'
  <2>1. After'
    <3>1. ASSUME ~Leaks, NEW i \in 1..Len(tasks'), tasks'[i].kind = "invoke"
          PROVE  Before(handled, tasks'[i].message)
      <4>1. i + 1 \in First..Len(tasks) /\ Same(tasks'[i], tasks[i + 1]) /\ tasks[i + 1].kind = "invoke"
        BY <1>1, <1>2, <3>1 DEF Same
      <4> QED BY <3>1, <4>1 DEF QueueInv, After, Same
    <3>2. messages' = messages \/ Len(messages') = 0
      OBVIOUS
    <3>3. \A k \in 1..Len(messages') : k \in 1..Len(messages) /\ messages'[k] = messages[k]
      BY <3>2
    <3> QED BY <1>2, <1>7, <3>1, <3>3 DEF QueueInv, After, Before
  <2>2. Complete'
    <3> SUFFICES ASSUME ~Leaks', ~lost', connected, NEW n \in 1..received,
                        ~(handled[1] = connection /\ n <= handled[2])
                 PROVE  \E i \in 1..Len(tasks') :
                            IsMessage(tasks'[i]) /\ tasks'[i].message = <<connection, n>>
      BY <1>2, <1>7 DEF Complete, IsMessage
    <3>1. ~Leaks /\ ~lost
      <4>1. lost => lost'
        OBVIOUS
      <4> QED BY <4>1
    <3>2. PICK i \in FirstToHandle..Len(tasks) :
              IsMessage(tasks[i]) /\ tasks[i].message = <<connection, n>>
      BY <3>1 DEF QueueInv, Complete
    <3>3. i # 1
      <4>1. ASSUME i = 1 PROVE FALSE
        <5>1. FirstToHandle # 2 /\ tasks[1].message[1] = connection /\ IsMessage(tasks[1])
          BY <1>2, <3>2, <4>1
        <5> QED BY <1>7, <5>1
      <4> QED BY <4>1
    <3>4. i - 1 \in 1..Len(tasks') /\ i - 1 + 1 = i
      BY <1>1, <1>2, <3>3
    <3>5. Same(tasks'[i - 1], tasks[i])
      BY <1>1, <3>4
    <3> QED BY <3>2, <3>4, <3>5 DEF Same, IsMessage
  <2> QED BY <2>1, <2>2
<1> QED BY <1>1, <1>3, <1>4, <1>5, <1>6, <1>7 DEF QueueInv

\* ... or it begins to make a model.
LEMMA MakeModelKeepsQueue ==
    ASSUME IInv, ModelInv, QueueInv, MakeModel
    PROVE  QueueInv'
<1>1. Types /\ Connections /\ Known /\ leaked \in BOOLEAN
  BY DEF IInv, ModelInv, MessageTypes
<1>2. /\ UNCHANGED <<connected, connection, received, tasks, messages, handled, leaked, lost>>
      /\ step = "idle" /\ step' = "bind" /\ tasks # <<>> /\ Head(tasks).kind = "connect"
      /\ EditorModel' = Head(tasks).number
  BY DEF MakeModel, NextIs, Idle, Current, wire, broker, history
<1>3. 1 \in 1..Len(tasks) /\ Head(tasks) = tasks[1] /\ Len(tasks) \in Nat
  BY <1>1, <1>2, HeadTask DEF Types
<1>4. /\ First = 1 /\ First' = 2 /\ (Leaks => Leaks')
      /\ FirstPop = 1 /\ FirstPop' = 1 /\ FirstToHandle = 1 /\ FirstToHandle' = 1
  BY <1>2 DEF First, Leaks, FirstPop, FirstToHandle
<1>5. EditorModel < EditorModel' /\ EditorModel \in Nat /\ EditorModel' \in Nat /\ connection \in Nat
  <2>1. /\ tasks[1].kind = "connect" => EditorModel < tasks[1].number
        /\ tasks[1].number \in Nat
    BY <1>1, <1>3, <1>4, TaskTypes DEF Known, Types
  <2> QED BY <1>1, <1>2, <1>3, <2>1 DEF Types
<1>6. Pops' /\ Popped' /\ Ordered' /\ Served'
  BY <1>2, <1>4 DEF QueueInv, Pops, PopsAre, Popped, Ordered, Served, Before, IsMessage
<1>7. ASSUME ~Leaks, NEW i \in 1..Len(tasks) PROVE tasks[i].kind # "invoke"
  <2>1. 1 \in First..i /\ i \in First..Len(tasks)
    BY <1>3, <1>4
  <2> QED BY <1>2, <1>3, <1>7, <2>1 DEF QueueInv, Invoked
<1>8. Invoked' /\ After'
  <2>1. \A i \in 2..Len(tasks) : i \in 1..Len(tasks)
    BY <1>3
  <2>2. Invoked'
    BY <1>2, <1>4, <1>7, <2>1 DEF Invoked
  <2>3. After'
    BY <1>2, <1>4, <1>7, <2>1 DEF QueueInv, After, Before
  <2> QED BY <2>2, <2>3
<1>9. Waiting'
  <2> SUFFICES ASSUME connected, EditorModel' < connection
               PROVE  \E i \in 2..Len(tasks) :
                          tasks[i].kind = "connect" /\ tasks[i].number = connection
    BY <1>2, <1>4 DEF Waiting
  <2>1. EditorModel < connection
    BY <1>5
  <2>2. PICK i \in 1..Len(tasks) : tasks[i].kind = "connect" /\ tasks[i].number = connection
    BY <1>4, <2>1 DEF QueueInv, Waiting
  <2>3. i # 1
    BY <1>2, <1>3, <1>5, <2>2
  <2> QED BY <1>3, <2>2, <2>3
<1>10. Complete'
  BY <1>2, <1>4 DEF QueueInv, Complete, IsMessage
<1> QED BY <1>6, <1>8, <1>9, <1>10 DEF QueueInv

-----------------------------------------------------------------------------
LEMMA InitEstablishesMessages == Init => ModelInv /\ QueueInv
<1> SUFFICES ASSUME Init PROVE ModelInv /\ QueueInv
  OBVIOUS
<1>1. /\ tasks = <<>> /\ Len(tasks) = 0 /\ messages = <<>> /\ Len(messages) = 0
      /\ handled = <<0, 0>> /\ popped = <<0, 0>> /\ step = "idle" /\ FirstPop = 1
  BY DEF Init, NoMessage, FirstPop
<1>2. ModelInv
  <2>1. MessageTypes
    <3>1. messages \in Seq(Messages)
      BY <1>1
    <3>2. <<0, 0>> \in Messages
      BY DEF Messages
    <3> QED BY <1>1, <3>1, <3>2 DEF Init, MessageTypes
  <2>2. Progress /\ Subscribed /\ Listening /\ Handing
    BY DEF Init, Progress, Subscribed, Listening, Handing, Actions, Absent
  <2> QED BY <2>1, <2>2 DEF ModelInv
<1>3. Pops
  <2> DEFINE f == [k \in 1..Len(messages) |-> 1]
  <2>1. f \in [1..Len(messages) -> FirstPop..Len(tasks)]
    BY <1>1
  <2>2. PopsAre(f)
    BY <1>1 DEF PopsAre
  <2> QED BY <2>1, <2>2 DEF Pops
<1>4. Invoked
  <2>1. First..Len(tasks) = {}
    BY <1>1, FirstIs
  <2> QED BY <2>1 DEF Invoked
<1>5. Popped /\ Ordered /\ Waiting /\ Served /\ Complete
  BY <1>1 DEF Init, Popped, Ordered, Waiting, Served, Complete
<1>6. After
  <2>1. First..Len(tasks) = {}
    BY <1>1, FirstIs
  <2> QED BY <1>1, <2>1 DEF Init, After
<1> QED BY <1>2, <1>3, <1>4, <1>5, <1>6 DEF QueueInv

\* While a model is made the first task is the one that makes it.
LEMMA WhileMaking ==
    ASSUME IInv, step \in MakingSteps
    PROVE  /\ tasks # <<>> /\ ~IsMessage(Head(tasks)) /\ Current = EditorModel
           /\ EditorModel \in 1..connection /\ EditorModel \in Nat /\ connection \in Nat
           /\ EditorModel \notin ended => EditorModel = connection /\ connected
           /\ connected => connection \notin ended
<1>1. Types /\ Connections /\ Known /\ Making /\ step # "idle"
  BY DEF IInv, MakingSteps
<1>2. tasks # <<>> /\ Head(tasks).kind = "connect" /\ Head(tasks).number = EditorModel
  BY <1>1 DEF Making
<1>3. 1 \in 1..Len(tasks) /\ Head(tasks) = tasks[1]
  BY <1>1, <1>2, HeadTask DEF Types
<1>4. EditorModel \in 1..connection
  BY <1>1, <1>2, <1>3 DEF Known, OfConnection
<1> QED BY <1>1, <1>2, <1>4 DEF Types, Connections, IsMessage, Current

\* The steps at which a model is not made yet.
NotMade == {"bind", "unbind", "subscribe", "unsubscribe", "watch"}

\* Steps of others leave the model and the lifetime as they are.
LEMMA ModelUnchanged ==
    ASSUME IInv, ModelInv, MessageTypes',
           UNCHANGED <<connected, connection, ended, actions, terminating, EditorModel, bound, leaked>>,
           step' = step \/ (step \notin NotMade /\ step' \notin NotMade),
           subscription > 0 => subscription' = subscription,
           subscription' > 0 => subscription > 0,
           \/ Handing'
           \/ listener' = listener /\ (step' \in {"take", "hand"} => step \in {"take", "hand"})
    PROVE  ModelInv'
<1>1. Leaks' = Leaks
  BY DEF Leaks, NotMade
<1>2. Progress'
  BY DEF ModelInv, Progress, NotMade
<1>3. Subscribed'
  BY <1>1 DEF ModelInv, Subscribed, NotMade
<1>4. Listening'
  <2>1. connected => connection >= 1 /\ connection \in Nat
    BY DEF IInv, Connections, Types
  <2> QED BY <2>1 DEF ModelInv, Listening, NotMade
<1>5. Handing'
  BY <1>1 DEF ModelInv, Handing
<1> QED BY <1>2, <1>3, <1>4, <1>5 DEF ModelInv

LEMMA ConnectKeepsModel ==
    ASSUME IInv, ModelInv, Connect
    PROVE  ModelInv'
<1>1. /\ UNCHANGED <<ended, step, EditorModel, bound, firing, messages, handled, leaked, lost,
                     terminating, subscription, listener, popped>>
      /\ ~connected /\ connection' = connection + 1 /\ terminating = <<>> /\ actions' = <<>>
  BY DEF Connect, model, broker, hand, history
<1>2. /\ Types /\ Connections /\ MessageTypes /\ Progress /\ Subscribed /\ Handing
  BY DEF IInv, ModelInv
<1>3. connection \in Nat /\ EditorModel \in Nat /\ EditorModel <= connection
  BY <1>2 DEF Types, Connections
<1>4. actions = <<>> /\ Len(actions) = 0 /\ Len(terminating) = 0
  BY <1>1, <1>2 DEF Connections
<1>5. step \in MakingSteps => EditorModel \in ended
  BY <1>1, WhileMaking
<1>6. Progress'
  BY <1>1, <1>2, <1>5 DEF Progress, Actions, MakingSteps
<1>7. ~Leaks => ~(subscription > 0)
  BY <1>4, <1>5, <1>2 DEF Subscribed, Leaks, MakingSteps
<1>8. Subscribed'
  BY <1>1, <1>7 DEF Subscribed, Leaks
<1>9. Listening'
  BY <1>1, <1>3 DEF Listening
<1>10. Handing'
  BY <1>1, <1>2, <1>4 DEF Handing, Leaks
<1> QED BY <1>1, <1>2, <1>6, <1>8, <1>9, <1>10 DEF ModelInv, MessageTypes

LEMMA DisconnectKeepsMessages ==
    ASSUME IInv, ModelInv, QueueInv, Disconnect
    PROVE  ModelInv' /\ QueueInv'
<1>1. /\ UNCHANGED <<connection, received, tasks, step, EditorModel, bound, firing, messages,
                     handled, leaked, lost, subscription, listener, popped>>
      /\ connected /\ connected' = FALSE /\ ended' = ended \cup {connection}
      /\ terminating' = actions /\ actions' = <<>>
  BY DEF Disconnect, model, broker, hand, history
<1>2. /\ MessageTypes /\ Progress /\ Subscribed /\ Handing
  BY DEF ModelInv
<1>3. step \in MakingSteps => EditorModel \in ended'
  BY <1>1, WhileMaking
<1>4. Leaks => Leaks'
  BY <1>1 DEF Leaks
<1>5. Progress'
  <2>1. actions' \in Actions /\ terminating' \in Actions
    BY <1>1, <1>2 DEF Progress, Actions
  <2> QED BY <1>1, <1>3, <2>1 DEF Progress, MakingSteps
<1>6. terminating = <<>> /\ Len(terminating) = 0
  BY <1>1 DEF IInv, Connections
<1>7. Subscribed'
  <2> SUFFICES ASSUME ~Leaks', subscription > 0
               PROVE  /\ subscription = EditorModel /\ EditorModel = connection
                      /\ \E i \in 1..Len(actions) : actions[i] = "unsubscribe"
    BY <1>1 DEF Subscribed
  <2>1. step # "unsubscribe"
    BY <1>1, <1>3 DEF Leaks, MakingSteps
  <2> QED BY <1>2, <1>4, <1>6, <2>1 DEF Subscribed
<1>8. Listening'
  BY <1>1 DEF Listening
<1>9. Handing'
  BY <1>1, <1>2, <1>4, <1>6 DEF Handing
<1>10. QueueInv'
  <2>1. First' = First /\ UNCHANGED <<FirstPop, FirstToHandle>>
    BY <1>1 DEF First, FirstPop, FirstToHandle
  <2>2. Served'
    BY <1>1 DEF Served
  <2> QED BY <1>1, <1>4, <2>1, <2>2, TasksUnchanged
<1> QED BY <1>1, <1>2, <1>5, <1>7, <1>8, <1>9, <1>10 DEF ModelInv, MessageTypes

\* A lifetime's actions without the last.
LEMMA ActionsButTheLast ==
    ASSUME NEW s \in Actions, s # <<>>
    PROVE  /\ SubSeq(s, 1, Len(s) - 1) \in Actions
           /\ \A i \in 1..Len(s) : i # Len(s) =>
                  /\ i \in 1..Len(SubSeq(s, 1, Len(s) - 1))
                  /\ SubSeq(s, 1, Len(s) - 1)[i] = s[i]
<1> DEFINE All == {"unbind", "unsubscribe", "gone"}
           last == Len(s) - 1
           rest == SubSeq(s, 1, last)
<1>1. s \in Seq(All) /\ Len(s) \in 1..3
  <2>1. CASE s = <<"unbind">>
    BY <2>1
  <2>2. CASE s = <<"unbind", "unsubscribe">>
    BY <2>2
  <2>3. CASE s = <<"unbind", "unsubscribe", "gone">>
    BY <2>3
  <2> HIDE DEF All
  <2> QED BY <2>1, <2>2, <2>3, Zenon DEF Actions
<1>2. last \in Nat /\ Len(s) = last + 1
  BY <1>1
<1> HIDE DEF last
<1>3. rest \in Seq(All) /\ Len(rest) = last /\ \A i \in 1..last : rest[i] = s[i]
  <2>1. \A i \in 1..last : s[i] \in All
    BY <1>1, <1>2
  <2>2. /\ rest \in Seq(All) /\ Len(rest) = IF 1 <= last THEN last - 1 + 1 ELSE 0
        /\ \A i \in 1..(last - 1 + 1) : rest[i] = s[1 + i - 1]
    BY <1>2, <2>1, SubSeqProperties
  <2>3. last - 1 + 1 = last /\ \A i \in 1..last : 1 + i - 1 = i
    BY <1>2
  <2>4. (IF 1 <= last THEN last - 1 + 1 ELSE 0) = last
    BY <1>2
  <2> QED BY <2>2, <2>3, <2>4
<1> HIDE DEF rest
<1>4. rest \in Actions
  <2>1. CASE s = <<"unbind">>
    <3>1. last = 0
      BY <1>2, <2>1
    <3> QED BY <1>3, <3>1, EmptySeq DEF Actions
  <2>2. CASE s = <<"unbind", "unsubscribe">>
    <3>1. last = 1 /\ rest[1] = "unbind"
      BY <1>2, <1>3, <2>2
    <3>2. rest = <<"unbind">>
      BY <1>3, <3>1, SeqEqual
    <3> QED BY <3>2 DEF Actions
  <2>3. CASE s = <<"unbind", "unsubscribe", "gone">>
    <3>1. last = 2 /\ rest[1] = "unbind" /\ rest[2] = "unsubscribe"
      BY <1>2, <1>3, <2>3
    <3>2. rest = <<"unbind", "unsubscribe">>
      BY <1>3, <3>1, SeqEqual
    <3> QED BY <3>2 DEF Actions
  <2> QED BY <2>1, <2>2, <2>3 DEF Actions
<1>5. ASSUME NEW i \in 1..Len(s), i # Len(s)
      PROVE  i \in 1..Len(rest) /\ rest[i] = s[i]
  <2>1. i \in 1..last
    BY <1>2, <1>5
  <2> QED BY <1>3, <2>1
<1> QED BY <1>4, <1>5 DEF rest, last

LEMMA RunActionKeepsMessages ==
    ASSUME IInv, ModelInv, QueueInv, RunAction
    PROVE  ModelInv' /\ QueueInv'
<1> DEFINE t == Task("gone", connection, NoMessage)
<1>1. /\ UNCHANGED <<connected, connection, ended, received, actions, step, EditorModel, firing,
                     messages, handled, leaked, lost, listener, popped>>
      /\ terminating # <<>> /\ terminating' = SubSeq(terminating, 1, Len(terminating) - 1)
      /\ tasks' = IF LastAction = "gone" THEN Append(tasks, t) ELSE tasks
      /\ subscription' = IF LastAction = "unsubscribe" THEN Absent ELSE subscription
      /\ bound' = IF LastAction = "unbind" THEN 0 ELSE bound
  BY DEF RunAction, GoneQueued, model, hand, history
<1>2. /\ Types /\ Connections /\ MessageTypes /\ Progress /\ Subscribed /\ Handing
  BY DEF IInv, ModelInv
<1>3. ~connected /\ connection \in Nat
  BY <1>1, <1>2 DEF Connections, Types
<1>4. Leaks' = Leaks
  BY <1>1 DEF Leaks
<1>5. Progress'
  <2>1. terminating' \in Actions
    BY <1>1, <1>2, ActionsButTheLast DEF Progress
  <2> QED BY <1>1, <1>2, <2>1 DEF Progress
<1>6. Subscribed'
  <2> SUFFICES ASSUME ~Leaks, subscription' > 0
               PROVE  /\ subscription' = EditorModel /\ EditorModel = connection
                      /\ \/ step = "unsubscribe"
                         \/ \E i \in 1..Len(actions) : actions[i] = "unsubscribe"
                         \/ \E i \in 1..Len(terminating') : terminating'[i] = "unsubscribe"
    BY <1>1, <1>4 DEF Subscribed
  <2>1. subscription' = subscription /\ LastAction # "unsubscribe"
    BY <1>1 DEF Absent
  <2>2. ASSUME NEW i \in 1..Len(terminating), terminating[i] = "unsubscribe"
        PROVE  \E k \in 1..Len(terminating') : terminating'[k] = "unsubscribe"
    <3>1. terminating \in Actions
      BY <1>2 DEF Progress
    <3>2. i # Len(terminating)
      BY <2>1, <2>2 DEF LastAction
    <3>3. i \in 1..Len(terminating') /\ terminating'[i] = terminating[i]
      BY <1>1, <3>1, <3>2, ActionsButTheLast
    <3> QED BY <2>2, <3>3
  <2> QED BY <1>2, <2>1, <2>2 DEF Subscribed
<1>7. Listening'
  BY <1>1, <1>3 DEF Listening
<1>8. Handing'
  <2> SUFFICES ASSUME step \in {"take", "hand"}, listener > 0, ~Leaks
               PROVE  /\ listener = EditorModel
                      /\ bound' = listener =>
                             EditorModel = connection /\ (actions # <<>> \/ terminating' # <<>>)
    BY <1>1, <1>4 DEF Handing
  <2>1. LastAction # "unbind" => terminating' # <<>>
    <3>1. terminating \in Actions
      BY <1>2 DEF Progress
    <3>2. terminating = <<"unbind">> => LastAction = "unbind"
      BY DEF LastAction
    <3>3. terminating # <<"unbind">> => 1 \in 1..Len(terminating) /\ 1 # Len(terminating)
      BY <1>1, <3>1 DEF Actions
    <3>4. terminating # <<"unbind">> => 1 \in 1..Len(terminating')
      BY <1>1, <3>1, <3>3, ActionsButTheLast
    <3>5. terminating' = <<>> => 1 \notin 1..Len(terminating')
      OBVIOUS
    <3> QED BY <3>2, <3>4, <3>5
  <2>2. LastAction = "unbind" => bound' # listener
    BY <1>1
  <2> QED BY <1>1, <1>2, <2>1, <2>2 DEF Handing
<1>9. MessageTypes'
  BY <1>1, <1>2 DEF MessageTypes
<1>10. QueueInv'
  <2>1. CASE LastAction = "gone"
    <3>1. t \in Tasks /\ t.kind = "gone"
      BY <1>3 DEF Task, Tasks, Messages, NoMessage
    <3> HIDE DEF t
    <3>2. tasks' = Append(tasks, t) /\ subscription' = subscription
      BY <1>1, <2>1
    <3>3. t.kind \notin {"pop", "dangling", "invoke", "connect"}
      BY <3>1
    <3> QED BY <1>1, <1>2, <1>4, <3>1, <3>2, <3>3, OtherTaskAppended
  <2>2. CASE LastAction # "gone"
    <3>1. tasks' = tasks /\ First' = First /\ UNCHANGED <<FirstPop, FirstToHandle>>
      BY <1>1, <2>2 DEF First, FirstPop, FirstToHandle
    <3>2. Served'
      BY <1>1, <1>3 DEF Served
    <3> QED BY <1>1, <1>3, <1>4, <3>1, <3>2, TasksUnchanged
  <2> QED BY <2>1, <2>2
<1> QED BY <1>5, <1>6, <1>7, <1>8, <1>9, <1>10 DEF ModelInv

LEMMA MakeModelKeepsModel ==
    ASSUME IInv, ModelInv, MakeModel
    PROVE  ModelInv'
<1>1. /\ UNCHANGED <<connected, connection, ended, actions, terminating, subscription, messages,
                     bound, firing, handled, leaked, lost, listener, popped>>
      /\ step = "idle" /\ step' = "bind" /\ tasks # <<>> /\ Head(tasks).kind = "connect"
      /\ EditorModel' = Head(tasks).number
  BY DEF MakeModel, NextIs, Idle, Current, wire, broker, hand, history
<1>2. Types /\ Connections /\ Known /\ MessageTypes /\ Progress /\ Subscribed
  BY DEF IInv, ModelInv
<1>3. 1 \in First..Len(tasks) /\ 1 \in 1..Len(tasks) /\ Head(tasks) = tasks[1]
  BY <1>1, <1>2, HeadTask DEF Types, First
<1>4. EditorModel < EditorModel' /\ EditorModel' \in 1..connection
  BY <1>1, <1>2, <1>3 DEF Known, OfConnection
<1>5. EditorModel \in Nat /\ EditorModel' \in Nat /\ connection \in Nat /\ EditorModel < connection
  BY <1>2, <1>4 DEF Types
<1>6. actions = <<>>
  BY <1>2, <1>5 DEF Progress
<1>7. Progress' /\ Listening' /\ Handing'
  BY <1>1, <1>2, <1>6 DEF Progress, Listening, Handing
<1>8. Subscribed'
  <2>1. Leaks' => leaked
    BY <1>1 DEF Leaks
  <2>2. ~Leaks => ~(subscription > 0)
    BY <1>2, <1>5 DEF Subscribed
  <2> QED BY <1>1, <2>1, <2>2 DEF Subscribed, Leaks
<1> QED BY <1>1, <1>2, <1>7, <1>8 DEF ModelInv, MessageTypes

\* A step of the making of a model goes on ...
LEMMA MakingGoesOn ==
    ASSUME IInv, ModelInv, QueueInv, step \in MakingSteps, step' \in MakingSteps,
           UNCHANGED <<connected, connection, ended, received, terminating, tasks, EditorModel,
                       firing, messages, handled, leaked, lost, listener, popped>>,
           subscription' \in {subscription, EditorModel},
           bound' \in Nat, Progress', Listening',
           Leaks => Leaks', Subscribed'
    PROVE  ModelInv' /\ QueueInv'
<1>1. First' = First /\ UNCHANGED <<FirstPop, FirstToHandle>>
  BY DEF First, FirstPop, FirstToHandle, MakingSteps
<1>2. Served' /\ Handing' /\ step' # "hand"
  BY DEF Served, Handing, MakingSteps
<1>3. QueueInv'
  BY <1>1, <1>2, TasksUnchanged
<1> QED BY <1>2, <1>3 DEF ModelInv, MessageTypes

\* ... or is the last one.
LEMMA MakingEnds ==
    ASSUME IInv, ModelInv, QueueInv, step \in MakingSteps, Finish,
           UNCHANGED <<connected, connection, ended, received, actions, terminating, EditorModel,
                       firing, messages, handled, bound, subscription, lost, listener, popped>>,
           leaked' = (leaked \/ step = "unsubscribe"),
           step = "alive" \/ EditorModel \in ended
    PROVE  ModelInv' /\ QueueInv'
<1>1. /\ tasks # <<>> /\ ~IsMessage(Head(tasks))
      /\ EditorModel \in ended => ~(connected /\ EditorModel = connection)
  BY WhileMaking
<1>2. /\ step' = "idle" /\ tasks' = Tail(tasks) /\ MessageTypes /\ Types
      /\ step # "idle" /\ Head(tasks).kind \notin {"pop", "dangling"} /\ Head(tasks) = tasks[1]
  BY <1>1, HeadTask DEF Finish, IInv, ModelInv, MakingSteps, IsMessage, Types
<1>3. Leaks => Leaks'
  BY DEF Leaks
<1>4. QueueInv'
  BY <1>1, <1>2, <1>3, TaskRemoved
<1>5. MessageTypes' /\ Progress'
  BY <1>2 DEF ModelInv, MessageTypes, Progress
<1>6. Subscribed'
  BY <1>3 DEF ModelInv, Subscribed, Leaks
<1>7. Listening' /\ Handing'
  BY <1>1, <1>2 DEF ModelInv, Listening, Handing
<1> QED BY <1>4, <1>5, <1>6, <1>7 DEF ModelInv

LEMMA BindKeepsMessages == ASSUME IInv, ModelInv, QueueInv, Bind PROVE ModelInv' /\ QueueInv'
<1>1. /\ UNCHANGED <<connected, connection, ended, received, actions, terminating, EditorModel,
                     firing, messages, handled, leaked, lost, subscription, listener, popped>>
      /\ step = "bind" /\ step \in MakingSteps
      /\ IF Current \in ended
            THEN Finish /\ UNCHANGED bound
            ELSE bound' = Current /\ step' = "unbind" /\ UNCHANGED tasks
  BY DEF Bind, wire, broker, model, hand, history, MakingSteps
<1>2. /\ Current = EditorModel /\ EditorModel \in Nat
      /\ EditorModel \notin ended => EditorModel = connection /\ connected
  BY <1>1, WhileMaking
<1>3. CASE EditorModel \notin ended
  <2>1. bound' = EditorModel /\ step' = "unbind" /\ UNCHANGED tasks
    BY <1>1, <1>2, <1>3
  <2>2. Progress'
    BY <1>1, <2>1 DEF ModelInv, Progress
  <2>3. Listening'
    BY <1>1, <1>2, <1>3, <2>1 DEF Listening
  <2>4. Subscribed'
    <3>1. ~(step = "unsubscribe")
      BY <1>1
    <3> QED BY <1>1, <2>1, <3>1 DEF ModelInv, Subscribed, Leaks
  <2>5. (Leaks' <=> leaked) /\ (Leaks <=> leaked)
    BY <1>1, <2>1 DEF Leaks
  <2>6. step' \in MakingSteps
    BY <2>1 DEF MakingSteps
  <2> QED BY <1>1, <1>2, <2>1, <2>2, <2>3, <2>4, <2>5, <2>6, MakingGoesOn
<1>4. CASE EditorModel \in ended
  <2>1. Finish /\ UNCHANGED bound /\ leaked' = (leaked \/ step = "unsubscribe")
    BY <1>1, <1>2, <1>4 DEF ModelInv, MessageTypes
  <2> QED BY <1>1, <1>4, <2>1, MakingEnds
<1> QED BY <1>3, <1>4

LEMMA AddUnbindKeepsMessages ==
    ASSUME IInv, ModelInv, QueueInv, AddUnbind
    PROVE  ModelInv' /\ QueueInv'
<1>1. /\ UNCHANGED <<connected, connection, ended, received, terminating, EditorModel, firing,
                     messages, handled, leaked, lost, subscription, bound, listener, popped>>
      /\ step = "unbind" /\ step \in MakingSteps /\ AddAction("unbind", "subscribe")
  BY DEF AddUnbind, wire, broker, model, hand, history, MakingSteps
<1>2. /\ Current = EditorModel /\ EditorModel \in Nat
      /\ EditorModel \notin ended => EditorModel = connection /\ connected
  BY <1>1, WhileMaking
<1>3. CASE EditorModel \notin ended
  <2>1. actions' = Append(actions, "unbind") /\ step' = "subscribe" /\ UNCHANGED tasks
    BY <1>1, <1>2, <1>3 DEF AddAction
  <2>2. actions = <<>>
    BY <1>1, <1>3 DEF ModelInv, Progress
  <2>3. actions' = <<"unbind">>
    BY <2>1, <2>2
  <2>4. Progress'
    BY <1>1, <1>2, <1>3, <2>1, <2>3 DEF ModelInv, Progress, Actions
  <2>5. Listening'
    BY <1>1, <2>1 DEF ModelInv, Listening
  <2>6. Subscribed'
    <3>1. Len(actions) = 0 /\ ~(step = "unsubscribe")
      BY <1>1, <2>2
    <3> QED BY <1>1, <2>1, <3>1 DEF ModelInv, Subscribed, Leaks
  <2>7. (Leaks' <=> leaked) /\ (Leaks <=> leaked)
    BY <1>1, <2>1 DEF Leaks
  <2>8. step' \in MakingSteps /\ bound' \in Nat
    BY <1>1, <2>1 DEF MakingSteps, ModelInv, MessageTypes
  <2> QED BY <1>1, <1>3, <2>1, <2>4, <2>5, <2>6, <2>7, <2>8, MakingGoesOn
<1>4. CASE EditorModel \in ended
  <2>1. Finish /\ UNCHANGED actions /\ leaked' = (leaked \/ step = "unsubscribe")
    BY <1>1, <1>2, <1>4 DEF AddAction, ModelInv, MessageTypes
  <2> QED BY <1>1, <1>4, <2>1, MakingEnds
<1> QED BY <1>3, <1>4

LEMMA SubscribeKeepsMessages ==
    ASSUME IInv, ModelInv, QueueInv, Subscribe
    PROVE  ModelInv' /\ QueueInv'
<1>1. /\ UNCHANGED <<connected, connection, ended, received, actions, terminating, tasks,
                     EditorModel, firing, messages, handled, leaked, lost, bound, listener, popped>>
      /\ step = "subscribe" /\ step \in MakingSteps
      /\ IF Current \in ended THEN step' = "watch" /\ UNCHANGED subscription
                              ELSE step' = "unsubscribe" /\ subscription' = Current
  BY DEF Subscribe, wire, model, hand, history, MakingSteps
<1>2. /\ Current = EditorModel /\ EditorModel \in Nat
      /\ EditorModel \notin ended => EditorModel = connection /\ connected
      /\ connected => connection \notin ended
  BY <1>1, WhileMaking
<1>3. Progress'
  BY <1>1, <1>2 DEF ModelInv, Progress
<1>4. Listening'
  BY <1>1, <1>2 DEF ModelInv, Listening
<1>5. (Leaks' <=> leaked) /\ (Leaks <=> leaked)
  BY <1>1, <1>2 DEF Leaks
<1>6. Subscribed'
  BY <1>1, <1>2, <1>5 DEF ModelInv, Subscribed
<1>7. /\ bound' \in Nat /\ step' \in MakingSteps
      /\ subscription' \in {subscription, EditorModel}
  BY <1>1, <1>2 DEF ModelInv, MessageTypes, MakingSteps
<1> QED BY <1>1, <1>3, <1>4, <1>5, <1>6, <1>7, MakingGoesOn

LEMMA AppendedIs ==
    ASSUME NEW S, NEW s \in Seq(S), NEW e \in S, NEW t \in Seq(S),
           Len(t) = Len(s) + 1, \A i \in 1..Len(s) : t[i] = s[i], t[Len(s) + 1] = e
    PROVE  Append(s, e) = t
<1>1. /\ Append(s, e) \in Seq(S) /\ Len(Append(s, e)) = Len(t)
      /\ \A i \in 1..Len(s) : Append(s, e)[i] = t[i]
      /\ Append(s, e)[Len(s) + 1] = t[Len(s) + 1]
  BY AppendProperties
<1>2. \A i \in 1..Len(t) : i \in 1..Len(s) \/ i = Len(s) + 1
  OBVIOUS
<1>3. \A i \in 1..Len(Append(s, e)) : Append(s, e)[i] = t[i]
  BY <1>1, <1>2
<1> QED BY <1>1, <1>3, SeqEqual, Zenon

LEMMA AppendedActions ==
    /\ Append(<<"unbind">>, "unsubscribe") = <<"unbind", "unsubscribe">>
    /\ Append(<<"unbind", "unsubscribe">>, "gone") = <<"unbind", "unsubscribe", "gone">>
<1> DEFINE All == {"unbind", "unsubscribe", "gone"}
           s == <<"unbind">>
           t == <<"unbind", "unsubscribe">>
           u == <<"unbind", "unsubscribe", "gone">>
<1>1. /\ s \in Seq(All) /\ t \in Seq(All) /\ "unsubscribe" \in All
      /\ Len(t) = Len(s) + 1 /\ t[Len(s) + 1] = "unsubscribe"
      /\ \A i \in 1..Len(s) : t[i] = s[i]
  OBVIOUS
<1>2. /\ u \in Seq(All) /\ "gone" \in All
      /\ Len(u) = Len(t) + 1 /\ u[Len(t) + 1] = "gone"
      /\ \A i \in 1..Len(t) : u[i] = t[i]
  <2>1. u \in Seq(All) /\ "gone" \in All /\ Len(u) = 3 /\ Len(t) = 2 /\ u[3] = "gone"
    OBVIOUS
  <2>2. u[1] = t[1] /\ u[2] = t[2] /\ \A i \in 1..2 : i = 1 \/ i = 2
    OBVIOUS
  <2> QED BY <2>1, <2>2
<1> HIDE DEF All, s, t, u
<1>3. Append(s, "unsubscribe") = t
  BY <1>1, AppendedIs, Zenon
<1>4. Append(t, "gone") = u
  BY <1>1, <1>2, AppendedIs, Zenon
<1> QED BY <1>3, <1>4 DEF s, t, u

LEMMA AddUnsubscribeKeepsMessages ==
    ASSUME IInv, ModelInv, QueueInv, AddUnsubscribe
    PROVE  ModelInv' /\ QueueInv'
<1>1. /\ UNCHANGED <<connected, connection, ended, received, terminating, EditorModel, firing,
                     messages, handled, lost, bound, subscription, listener, popped>>
      /\ step = "unsubscribe" /\ step \in MakingSteps /\ AddAction("unsubscribe", "watch")
      /\ leaked' = (leaked \/ Current \in ended) /\ leaked \in BOOLEAN
  BY DEF AddUnsubscribe, RemoveLater, wire, broker, model, hand, MakingSteps, ModelInv, MessageTypes
<1>2. /\ Current = EditorModel /\ EditorModel \in Nat /\ connection \in Nat
      /\ EditorModel \notin ended => EditorModel = connection /\ connected
  BY <1>1, WhileMaking
<1>3. CASE EditorModel \notin ended
  <2>1. /\ actions' = Append(actions, "unsubscribe") /\ step' = "watch" /\ UNCHANGED tasks
        /\ leaked' = leaked
    BY <1>1, <1>2, <1>3 DEF AddAction
  <2>2. actions = <<"unbind">>
    BY <1>1, <1>3 DEF ModelInv, Progress
  <2>3. actions' = <<"unbind", "unsubscribe">> /\ Len(actions') = 2 /\ actions'[2] = "unsubscribe"
    <3>1. actions' = <<"unbind", "unsubscribe">>
      BY <2>1, <2>2, AppendedActions
    <3> QED BY <3>1
  <2>4. Progress'
    <3>1. actions' \in Actions /\ terminating' \in Actions
      BY <1>1, <2>3 DEF Actions, ModelInv, Progress
    <3>2. ~(EditorModel' < connection')
      BY <1>1, <1>2, <1>3
    <3>3. step' = "watch" /\ actions' = <<"unbind", "unsubscribe">>
      BY <2>1, <2>3
    <3> QED BY <3>1, <3>2, <3>3 DEF Progress
  <2>5. Listening'
    BY <1>1, <2>1 DEF ModelInv, Listening
  <2>6. (Leaks' <=> leaked) /\ (Leaks <=> leaked)
    BY <1>1, <1>3, <2>1 DEF Leaks
  <2>7. Subscribed'
    <3>1. \E i \in 1..Len(actions') : actions'[i] = "unsubscribe"
      BY <2>3
    <3> QED BY <1>1, <2>6, <3>1 DEF ModelInv, Subscribed
  <2>8. bound' \in Nat /\ step' \in MakingSteps
    BY <1>1, <2>1 DEF ModelInv, MessageTypes, MakingSteps
  <2> QED BY <1>1, <1>2, <1>3, <2>1, <2>4, <2>5, <2>6, <2>7, <2>8, MakingGoesOn
<1>4. CASE EditorModel \in ended
  <2>1. Finish /\ UNCHANGED actions /\ leaked' = (leaked \/ step = "unsubscribe")
    BY <1>1, <1>2, <1>4 DEF AddAction
  <2> QED BY <1>1, <1>4, <2>1, MakingEnds
<1> QED BY <1>3, <1>4

LEMMA AddGoneKeepsMessages ==
    ASSUME IInv, ModelInv, QueueInv, AddGone
    PROVE  ModelInv' /\ QueueInv'
<1>1. /\ UNCHANGED <<connected, connection, ended, received, terminating, EditorModel, firing,
                     messages, handled, leaked, lost, bound, subscription, listener, popped>>
      /\ step = "watch" /\ step \in MakingSteps /\ AddAction("gone", "alive") /\ leaked \in BOOLEAN
  BY DEF AddGone, Watch, wire, broker, model, history, hand, MakingSteps, ModelInv, MessageTypes
<1>2. /\ Current = EditorModel /\ EditorModel \in Nat /\ connection \in Nat
      /\ EditorModel \notin ended => EditorModel = connection /\ connected
  BY <1>1, WhileMaking
<1>3. CASE EditorModel \notin ended
  <2>1. actions' = Append(actions, "gone") /\ step' = "alive" /\ UNCHANGED tasks
    BY <1>1, <1>2, <1>3 DEF AddAction
  <2>2. actions = <<"unbind", "unsubscribe">>
    BY <1>1, <1>3 DEF ModelInv, Progress
  <2>3. /\ actions' = <<"unbind", "unsubscribe", "gone">>
        /\ Len(actions') = 3 /\ actions'[2] = "unsubscribe"
    <3>1. actions' = <<"unbind", "unsubscribe", "gone">>
      BY <2>1, <2>2, AppendedActions
    <3> QED BY <3>1
  <2>4. Progress'
    <3>1. actions' \in Actions
      BY <2>3 DEF Actions
    <3> QED BY <1>1, <1>2, <1>3, <2>1, <2>3, <3>1 DEF ModelInv, Progress
  <2>5. Listening'
    BY <1>1, <2>1 DEF ModelInv, Listening
  <2>6. (Leaks' <=> leaked) /\ (Leaks <=> leaked)
    BY <1>1, <2>1 DEF Leaks
  <2>7. Subscribed'
    <3>1. \E i \in 1..Len(actions') : actions'[i] = "unsubscribe"
      BY <2>3
    <3> QED BY <1>1, <2>6, <3>1 DEF ModelInv, Subscribed
  <2>8. bound' \in Nat /\ step' \in MakingSteps
    BY <1>1, <2>1 DEF ModelInv, MessageTypes, MakingSteps
  <2> QED BY <1>1, <1>2, <1>3, <2>1, <2>4, <2>5, <2>6, <2>7, <2>8, MakingGoesOn
<1>4. CASE EditorModel \in ended
  <2>1. Finish /\ UNCHANGED actions /\ leaked' = (leaked \/ step = "unsubscribe")
    BY <1>1, <1>2, <1>4 DEF AddAction
  <2> QED BY <1>1, <1>4, <2>1, MakingEnds
<1> QED BY <1>3, <1>4

-----------------------------------------------------------------------------
\* The other tasks of the scheduler that are no messages.
LEMMA BeAliveKeepsMessages ==
    ASSUME IInv, ModelInv, QueueInv, BeAlive
    PROVE  ModelInv' /\ QueueInv'
<1>1. /\ UNCHANGED <<connected, connection, ended, received, actions, terminating, EditorModel,
                     messages, handled, leaked, lost, bound, subscription, firing, listener, popped>>
      /\ step = "alive" /\ (Finish \/ (step' = "control" /\ UNCHANGED tasks))
  BY DEF BeAlive, SetAlive, wire, broker, hand, history
<1>2. leaked \in BOOLEAN /\ MessageTypes'
  BY <1>1 DEF ModelInv, MessageTypes
<1>3. CASE Finish
  BY <1>1, <1>2, <1>3, MakingEnds DEF MakingSteps
<1>4. CASE step' = "control" /\ UNCHANGED tasks
  <2>1. First' = First /\ UNCHANGED <<FirstPop, FirstToHandle>>
    BY <1>1, <1>4 DEF First, FirstPop, FirstToHandle
  <2>2. Served' /\ Leaks' = Leaks
    BY <1>1, <1>4 DEF Served, Leaks
  <2>3. ModelInv'
    BY <1>1, <1>2, <1>4, ModelUnchanged DEF NotMade
  <2> QED BY <1>1, <1>4, <2>1, <2>2, <2>3, TasksUnchanged
<1> QED BY <1>1, <1>3, <1>4

LEMMA FinishingKeepsMessages ==
    ASSUME IInv, ModelInv, QueueInv, MakeControl \/ Gone \/ View \/ DoAction
    PROVE  ModelInv' /\ QueueInv'
<1>1. /\ UNCHANGED <<connected, connection, ended, received, actions, terminating, EditorModel,
                     messages, handled, leaked, lost, bound, subscription, firing, listener, popped>>
      /\ \/ step = "control" /\ Finish
         \/ /\ step = "idle" /\ tasks # <<>> /\ Head(tasks).kind \in {"gone", "view", "action"}
            /\ Finish \/ (step' = "control" /\ UNCHANGED tasks)
  BY DEF MakeControl, Gone, View, DoAction, SetAlive, NextIs, Idle, wire, broker, model, hand, history
<1>2. MessageTypes' /\ MessageTypes /\ Leaks' = Leaks /\ step \notin NotMade /\ step' \notin NotMade
  BY <1>1 DEF ModelInv, MessageTypes, Leaks, NotMade, Finish
<1>3. ModelInv'
  <2>1. step' \notin {"take", "hand"}
    BY <1>1 DEF Finish
  <2> QED BY <1>1, <1>2, <2>1, ModelUnchanged
<1>4. CASE Finish
  <2>1. /\ tasks # <<>> /\ Head(tasks) = tasks[1] /\ step' = "idle" /\ tasks' = Tail(tasks)
        /\ Head(tasks).kind \in {"connect", "gone", "view", "action"}
        /\ step = "idle" => Head(tasks).kind # "connect"
    BY <1>1, <1>4, HeadTask DEF Finish, IInv, Types, Making
  <2>2. Head(tasks).kind \notin {"pop", "dangling"} /\ ~IsMessage(tasks[1])
    BY <2>1 DEF IsMessage
  <2> QED BY <1>1, <1>2, <1>3, <2>1, <2>2, TaskRemoved
<1>5. CASE step = "idle" /\ step' = "control" /\ UNCHANGED tasks
  <2>1. First = 1 /\ First' = 2 /\ UNCHANGED <<FirstPop, FirstToHandle>>
    BY <1>5 DEF First, FirstPop, FirstToHandle
  <2>2. Served' /\ tasks # <<>> /\ Head(tasks).kind # "connect"
    BY <1>1, <1>5 DEF Served
  <2> QED BY <1>1, <1>2, <1>3, <1>5, <2>1, <2>2, TasksUnchanged
<1> QED BY <1>1, <1>4, <1>5

-----------------------------------------------------------------------------
\* Messages are popped.
LEMMA PopMessageKeepsMessages ==
    ASSUME IInv, ModelInv, QueueInv, PopMessage
    PROVE  ModelInv' /\ QueueInv'
<1>1. /\ UNCHANGED <<connected, connection, ended, received, actions, terminating, tasks, EditorModel,
                     messages, handled, leaked, lost, bound, firing, popped>>
      /\ step = "idle" /\ step' = "take" /\ tasks # <<>> /\ Head(tasks).kind \in {"pop", "dangling"}
      /\ listener' = (IF subscription = Absent THEN 0 ELSE subscription)
      /\ subscription' = listener'
  BY DEF PopMessage, NextIs, Idle, wire, model, history
<1>2. Types /\ Connections /\ MessageTypes /\ Subscribed /\ Listening
  BY DEF IInv, ModelInv
<1>3. /\ 1 \in 1..Len(tasks) /\ Head(tasks) = tasks[1] /\ Len(tasks) \in Nat /\ IsMessage(tasks[1])
      /\ connection \in Nat /\ EditorModel \in Nat /\ EditorModel <= connection
  BY <1>1, <1>2, HeadTask DEF Types, Connections, IsMessage
<1>4. /\ listener' \in Nat /\ (subscription > 0 => listener' = subscription)
      /\ listener' > 0 => listener' = subscription
  BY <1>1, <1>2 DEF Types, Absent
<1>5. Leaks' = Leaks /\ MessageTypes'
  BY <1>1, <1>2, <1>4 DEF Leaks, MessageTypes
<1>6. Handing'
  <2> SUFFICES ASSUME listener' > 0, ~Leaks
               PROVE  /\ listener' = EditorModel /\ EditorModel = connection
                      /\ actions # <<>> \/ terminating # <<>>
    BY <1>1, <1>5 DEF Handing
  <2>1. actions = <<>> => Len(actions) = 0
    OBVIOUS
  <2>2. terminating = <<>> => Len(terminating) = 0
    OBVIOUS
  <2> QED BY <1>1, <1>2, <1>4, <2>1, <2>2 DEF Subscribed
<1>7. ModelInv'
  BY <1>1, <1>4, <1>5, <1>6, ModelUnchanged DEF NotMade
<1>8. Served'
  <2> SUFFICES ASSUME connected, tasks[1].message[1] = connection PROVE listener' = connection
    BY <1>1 DEF Served
  <2>1. EditorModel = connection
    <3> SUFFICES ASSUME EditorModel < connection PROVE FALSE
      BY <1>3
    <3>1. PICK i \in 1..Len(tasks) : tasks[i].kind = "connect" /\ tasks[i].number = connection
      BY <1>1 DEF QueueInv, Waiting, First
    <3>2. 1 < i
      BY <1>3, <3>1 DEF IsMessage
    <3>3. tasks[1].message[1] < connection
      BY <1>3, <3>1, <3>2 DEF QueueInv, Ordered
    <3> QED BY <1>3, <3>3
  <2>2. subscription = connection /\ connection >= 1
    BY <1>1, <1>2, <2>1 DEF Listening, Connections
  <2> QED BY <1>3, <1>4, <2>2
<1>9. First = 1 /\ First' = 2 /\ UNCHANGED <<FirstPop, FirstToHandle>>
  BY <1>1 DEF First, FirstPop, FirstToHandle
<1>10. Head(tasks).kind # "connect" /\ step' # "hand"
  BY <1>1
<1>11. connected /\ subscription = connection => subscription' = connection
  BY <1>1, <1>2, <1>3, <1>4 DEF Connections
<1> QED BY <1>1, <1>5, <1>7, <1>8, <1>9, <1>10, <1>11, TasksUnchanged

LEMMA TakeMessageKeepsMessages ==
    ASSUME IInv, ModelInv, QueueInv, TakeMessage
    PROVE  ModelInv' /\ QueueInv'
<1>1. /\ UNCHANGED <<connected, connection, ended, received, actions, terminating, tasks, EditorModel,
                     handled, leaked, lost, bound, firing, listener, subscription>>
      /\ step = "take" /\ step' = "hand"
  BY DEF TakeMessage, wire, model, history
<1>2. MessageTypes
  BY DEF ModelInv
<1>3. /\ Pops' /\ messages' \in Seq(Messages)
      /\ popped' = NoMessage \/ \E i \in 1..Len(tasks) :
            tasks[i].kind = "pop" /\ tasks[i].message = popped'
      /\ ~lost => popped' = tasks[1].message
      /\ popped' # NoMessage => /\ 1 \in 1..Len(messages) /\ popped' = messages[1]
                                /\ \A k \in 1..Len(messages') : Before(popped', messages'[k])
      /\ \A k \in 1..Len(messages') : \E l \in 1..Len(messages) : messages'[k] = messages[l]
  BY <1>2, PopsAfterTake DEF QueueInv, MessageTypes
<1>4. Leaks' = Leaks /\ First' = First /\ FirstToHandle' = FirstToHandle
  BY <1>1 DEF Leaks, First, FirstToHandle
<1>5. popped' \in Messages
  <2>1. NoMessage \in Messages
    BY DEF NoMessage, Messages
  <2>2. \A k \in 1..Len(messages) : messages[k] \in Messages
    BY <1>2, ElementOfSeq DEF MessageTypes
  <2> QED BY <1>3, <2>1, <2>2
<1>6. ModelInv'
  <2>1. MessageTypes'
    BY <1>1, <1>2, <1>3, <1>5 DEF MessageTypes
  <2> QED BY <1>1, <2>1, ModelUnchanged DEF NotMade
<1>7. Popped'
  <2>1. popped' # NoMessage /\ ~Leaks => Before(handled, popped')
    BY <1>3 DEF QueueInv, After
  <2> QED BY <1>1, <1>3, <1>4, <2>1 DEF Popped, Before
<1>8. Invoked' /\ Ordered' /\ Waiting'
  BY <1>1, <1>4 DEF QueueInv, Invoked, Ordered, Waiting, Before, IsMessage
<1>9. After'
  <2>1. ASSUME ~Leaks, NEW k \in 1..Len(messages') PROVE Before(handled, messages'[k])
    BY <1>3, <2>1 DEF QueueInv, After
  <2> QED BY <1>1, <1>4, <2>1 DEF QueueInv, After, Before
<1>10. Served' /\ Complete'
  BY <1>1, <1>4 DEF QueueInv, Served, Complete, IsMessage
<1> QED BY <1>3, <1>6, <1>7, <1>8, <1>9, <1>10 DEF QueueInv

\* What was not handled yet waits behind the first task when that was handled,
\* or was of an earlier connection.
LEMMA StillWaits ==
    ASSUME IInv, MessageTypes, QueueInv, ~Leaks, ~lost, connected, FirstToHandle = 1,
           NEW n \in 1..received, NEW h \in Messages,
           \/ h = handled /\ (IsMessage(tasks[1]) => tasks[1].message[1] # connection)
           \/ h = tasks[1].message /\ Before(handled, h) /\ h[1] <= connection
    PROVE  \/ h[1] = connection /\ n <= h[2]
           \/ \E i \in 2..Len(tasks) : IsMessage(tasks[i]) /\ tasks[i].message = <<connection, n>>
<1>1. /\ connection \in Nat /\ received \in Nat /\ handled[1] \in Nat /\ handled[2] \in Nat
      /\ h[1] \in Nat /\ h[2] \in Nat /\ Len(tasks) \in Nat
  BY TaskTypes DEF IInv, Types, MessageTypes, Messages
<1>2. CASE handled[1] = connection /\ n <= handled[2]
  BY <1>1, <1>2 DEF Before
<1>3. CASE ~(handled[1] = connection /\ n <= handled[2])
  <2>1. PICK i \in 1..Len(tasks) : IsMessage(tasks[i]) /\ tasks[i].message = <<connection, n>>
    BY <1>3 DEF QueueInv, Complete
  <2>2. CASE i = 1
    <3>1. tasks[1].message[1] = connection /\ tasks[1].message[2] = n
      BY <2>1, <2>2
    <3> QED BY <1>1, <2>1, <2>2, <3>1
  <2>3. CASE i # 1
    BY <1>1, <2>1, <2>3
  <2> QED BY <2>2, <2>3
<1> QED BY <1>2, <1>3

\* The message that is being handed over was of a task.
LEMMA PoppedIs ==
    ASSUME IInv, ModelInv, QueueInv, step = "hand", popped # NoMessage
    PROVE  /\ popped[1] \in Nat /\ popped[2] \in Nat /\ popped[1] \in 1..connection
           /\ popped[2] >= 1 /\ (popped[1] = connection => popped[2] <= received)
<1>1. PICK i \in 1..Len(tasks) : tasks[i].kind = "pop" /\ tasks[i].message = popped
  BY DEF QueueInv, Popped
<1>2. /\ popped[1] \in 1..connection /\ popped[2] >= 1
      /\ popped[1] = connection => popped[2] <= received
  BY <1>1 DEF QueueInv, Ordered, IsMessage
<1> QED BY <1>2 DEF ModelInv, MessageTypes, Messages

\* A listener that is bound still is of the last connection: the messages that
\* it is to be invoked with come after the one that is handed over to it.
LEMMA HandedBeforeInvoked ==
    ASSUME IInv, ModelInv, QueueInv, step = "hand", listener # 0, bound = listener, ~Leaks,
           popped # NoMessage, NEW i \in 2..Len(tasks), tasks[i].kind = "invoke"
    PROVE  Before(popped, tasks[i].message)
<1>1. EditorModel = connection /\ connection \in Nat /\ Len(tasks) \in Nat
  <2>1. listener > 0
    BY DEF ModelInv, MessageTypes
  <2> QED BY <2>1, TaskTypes DEF ModelInv, Handing, IInv, Types
<1>2. First = 2
  BY DEF First
<1>3. /\ tasks[i].message[1] = EditorModel
      /\ \A j \in (i + 1)..Len(tasks) :
            tasks[j].kind \in {"pop", "dangling"} => EditorModel < tasks[j].message[1]
  BY <1>2 DEF QueueInv, Invoked
<1>4. PICK p \in 1..Len(tasks) : tasks[p].kind = "pop" /\ tasks[p].message = popped
  BY DEF QueueInv, Popped
<1>5. p # i
  BY <1>4
<1>6. CASE p < i
  <2>1. i \in 1..Len(tasks)
    BY <1>1
  <2> QED BY <1>4, <1>6, <2>1 DEF QueueInv, Ordered, IsMessage
<1>7. CASE i < p
  <2>1. p \in (i + 1)..Len(tasks)
    BY <1>1, <1>7
  <2>2. connection < popped[1]
    BY <1>1, <1>3, <1>4, <2>1
  <2> QED BY <1>1, <2>2, PoppedIs
<1> QED BY <1>1, <1>5, <1>6, <1>7

LEMMA HandOverKeepsMessages ==
    ASSUME IInv, ModelInv, QueueInv, HandOver
    PROVE  ModelInv' /\ QueueInv'
<1>1. /\ UNCHANGED <<connected, connection, ended, received, actions, terminating, EditorModel,
                     messages, leaked, lost, bound, firing, subscription>>
      /\ step = "hand" /\ listener' = 0 /\ popped' = NoMessage
      /\ \/ /\ listener = 0 \/ popped = NoMessage \/ listener # EditorModel
            /\ step' = "test" /\ UNCHANGED <<tasks, handled>>
         \/ /\ listener # 0 /\ popped # NoMessage /\ bound = listener
            /\ step' = "test" /\ handled' = popped /\ UNCHANGED tasks
         \/ /\ listener # 0 /\ popped # NoMessage /\ bound # listener
            /\ Finish /\ UNCHANGED handled
  BY DEF HandOver, Destroyed, wire, broker, model
<1>2. Types /\ Connections /\ MessageTypes /\ Listening
  BY DEF IInv, ModelInv
<1>3. /\ 1 \in 1..Len(tasks) /\ Head(tasks) = tasks[1] /\ Len(tasks) \in Nat /\ tasks # <<>>
      /\ IsMessage(tasks[1]) /\ tasks[1].message[1] \in 1..connection
      /\ connection \in Nat /\ EditorModel \in Nat /\ EditorModel <= connection
  <2>1. tasks # <<>> /\ Head(tasks).kind \in {"pop", "dangling"}
    BY <1>1 DEF IInv, Making, PopSteps
  <2> QED BY <1>2, <2>1, HeadTask DEF Types, Connections, IsMessage, QueueInv, Ordered
<1>4. Leaks' = Leaks /\ FirstToHandle = 1 /\ First = 2 /\ FirstPop = 2
  BY <1>1 DEF Leaks, First, FirstPop, FirstToHandle, Finish
<1>5. ModelInv'
  <2>1. NoMessage \in Messages /\ 0 \in Nat
    BY DEF NoMessage, Messages
  <2>2. MessageTypes'
    BY <1>1, <1>2, <2>1 DEF MessageTypes
  <2>3. Handing' /\ step' \notin NotMade
    BY <1>1 DEF Handing, Finish, NotMade
  <2> QED BY <1>1, <2>2, <2>3, ModelUnchanged DEF NotMade
\* While the connection lasts its messages find a listener that is bound.
<1>6. ASSUME connected, tasks[1].message[1] = connection PROVE listener = connection /\ connection # 0
  BY <1>1, <1>3, <1>6 DEF QueueInv, Served
<1>7. ASSUME connected, listener = connection, ~Leaks PROVE bound = listener
  <2>1. listener = EditorModel
    BY <1>1, <1>3, <1>7 DEF ModelInv, Handing, IInv, Connections
  <2> QED BY <1>1, <1>2, <1>7, <2>1 DEF Listening
<1>8. ~lost => popped # NoMessage /\ popped = tasks[1].message
  <2>1. ~lost => popped = tasks[1].message
    BY <1>1 DEF QueueInv, Popped
  <2>2. tasks[1].message # NoMessage
    BY <1>3 DEF NoMessage
  <2> QED BY <2>1, <2>2
<1>9. CASE step' = "test"
  <2>1. UNCHANGED tasks
    BY <1>1, <1>9 DEF Finish
  <2>2. First' = 2 /\ FirstPop' = 2 /\ FirstToHandle' = 2
    BY <1>9 DEF First, FirstPop, FirstToHandle
  <2>3. \/ handled' = handled /\ (listener = 0 \/ popped = NoMessage \/ listener # EditorModel)
        \/ handled' = popped /\ listener # 0 /\ popped # NoMessage /\ bound = listener
    BY <1>1, <1>9 DEF Finish
  <2>4. Pops'
    BY <1>1, <1>4, <2>1, <2>2 DEF QueueInv, Pops, PopsAre
  <2>5. Popped' /\ Served'
    BY <1>9 DEF Popped, Served
  <2>6. Invoked' /\ Ordered' /\ Waiting'
    BY <1>1, <1>4, <2>1, <2>2 DEF QueueInv, Invoked, Ordered, Waiting, Before, IsMessage
  <2>7. After'
    <3>1. CASE handled' = handled
      BY <1>1, <1>4, <2>1, <2>2, <3>1 DEF QueueInv, After, Before
    <3>2. CASE handled' = popped /\ listener # 0 /\ popped # NoMessage /\ bound = listener
      <4>1. popped[1] <= connection /\ (popped[1] = connection => popped[2] <= received)
        BY <1>1, <1>3, <3>2, PoppedIs
      <4>2. \A k \in 1..Len(messages) : Before(popped, messages[k])
        BY <1>1, <3>2 DEF QueueInv, Popped
      <4>3. ~Leaks => \A i \in 2..Len(tasks) :
                tasks[i].kind = "invoke" => Before(popped, tasks[i].message)
        BY <1>1, <3>2, HandedBeforeInvoked
      <4> QED BY <1>1, <1>4, <2>1, <2>2, <3>2, <4>1, <4>2, <4>3 DEF After, Before
    <3> QED BY <2>3, <3>1, <3>2
  <2>8. Complete'
    <3> SUFFICES ASSUME ~Leaks, ~lost, connected, NEW n \in 1..received
                 PROVE  \/ handled'[1] = connection /\ n <= handled'[2]
                        \/ \E i \in 2..Len(tasks) :
                               IsMessage(tasks[i]) /\ tasks[i].message = <<connection, n>>
      BY <1>1, <1>4, <2>1, <2>2 DEF Complete, IsMessage
    <3>1. handled' \in Messages
      BY <1>2, <2>3 DEF MessageTypes
    <3>2. CASE handled' = handled /\ (listener = 0 \/ popped = NoMessage \/ listener # EditorModel)
      <4>1. listener = connection /\ connection # 0 => listener = EditorModel
        BY <1>1, <1>3 DEF ModelInv, Handing
      <4>2. tasks[1].message[1] # connection
        BY <1>6, <1>8, <3>2, <4>1
      <4> QED BY <1>2, <1>4, <3>1, <3>2, <4>2, StillWaits
    <3>3. CASE handled' = popped /\ popped # NoMessage
      <4>1. Before(handled, popped) /\ popped[1] <= connection
        BY <1>1, <1>3, <3>3, PoppedIs DEF QueueInv, Popped
      <4> QED BY <1>2, <1>4, <1>8, <3>1, <3>3, <4>1, StillWaits
    <3> QED BY <2>3, <3>2, <3>3
  <2> QED BY <1>5, <2>4, <2>5, <2>6, <2>7, <2>8 DEF QueueInv
<1>10. CASE Finish
  <2>1. listener # 0 /\ bound # listener /\ UNCHANGED handled /\ step' = "idle" /\ tasks' = Tail(tasks)
    BY <1>1, <1>10 DEF Finish
  <2>2. connected /\ ~Leaks => tasks[1].message[1] # connection
    BY <1>6, <1>7, <2>1
  <2> QED BY <1>1, <1>2, <1>3, <1>4, <1>5, <2>1, <2>2, TaskRemoved
<1> QED BY <1>1, <1>9, <1>10

LEMMA TestAndEraseKeepMessages ==
    ASSUME IInv, ModelInv, QueueInv, TestEmpty \/ EraseQueue
    PROVE  ModelInv' /\ QueueInv'
<1>1. /\ UNCHANGED <<connected, connection, ended, received, actions, terminating, EditorModel,
                     handled, leaked, bound, firing, subscription, listener, popped>>
      /\ \/ /\ step = "test" /\ step' = "erase" /\ UNCHANGED <<tasks, messages, lost>>
         \/ /\ step = "test" /\ step' = "idle" /\ tasks' = Tail(tasks) /\ UNCHANGED <<messages, lost>>
         \/ /\ step = "erase" /\ step' = "idle" /\ tasks' = LeftDangling
            /\ messages' = <<>> /\ lost' = (lost \/ messages # <<>>)
  BY DEF TestEmpty, EraseQueue, Finish, wire, broker, model, hand, history
<1>2. Types /\ MessageTypes
  BY DEF IInv, ModelInv
<1>3. tasks # <<>> /\ Leaks' = Leaks /\ FirstToHandle = 2
  BY <1>1 DEF IInv, Making, Leaks, FirstToHandle
<1>4. ModelInv'
  <2>1. messages' \in Seq(Messages) /\ lost' \in BOOLEAN
    <3>1. CASE UNCHANGED <<messages, lost>>
      BY <1>2, <3>1 DEF MessageTypes
    <3>2. CASE messages' = <<>> /\ lost' = (lost \/ messages # <<>>)
      <4>1. messages' \in Seq(Messages)
        BY <3>2
      <4>2. lost' \in BOOLEAN
        BY <3>2, Zenon
      <4> QED BY <4>1, <4>2
    <3> QED BY <1>1, <3>1, <3>2
  <2>2. MessageTypes'
    BY <1>1, <1>2, <2>1 DEF MessageTypes
  <2>3. step \notin NotMade /\ step' \notin NotMade /\ step' \notin {"take", "hand"}
    BY <1>1 DEF NotMade
  <2> QED BY <1>1, <2>2, <2>3, ModelUnchanged
<1>5. CASE step = "test" /\ step' = "erase" /\ UNCHANGED <<tasks, messages, lost>>
  <2>1. First' = First /\ UNCHANGED <<FirstPop, FirstToHandle>> /\ Served'
    BY <1>5 DEF First, FirstPop, FirstToHandle, Served
  <2> QED BY <1>1, <1>3, <1>4, <1>5, <2>1, TasksUnchanged
<1>6. CASE step' = "idle"
  BY <1>1, <1>2, <1>3, <1>4, <1>6, TaskRemoved
<1> QED BY <1>1, <1>5, <1>6

\* A message that the entity is invoked with is handled while it listens.
LEMMA InvokedIs ==
    ASSUME IInv, ModelInv, QueueInv, InvokeMessage
    PROVE  /\ step = "idle" /\ 1 \in 1..Len(tasks) /\ Head(tasks) = tasks[1] /\ tasks # <<>>
           /\ tasks[1].kind = "invoke" /\ tasks[1].message \in Messages
           /\ tasks[1].message[1] \in 1..connection /\ tasks[1].message[2] >= 1
           /\ tasks[1].message[1] = connection => tasks[1].message[2] <= received
           /\ ~Leaks => Before(handled, tasks[1].message)
           /\ handled' \in {handled, tasks[1].message}
           /\ ~Leaks /\ connected /\ tasks[1].message[1] = connection =>
                  handled' = tasks[1].message
<1>1. /\ step = "idle" /\ tasks # <<>> /\ Head(tasks).kind = "invoke"
      /\ handled' = IF bound = Head(tasks).number /\ subscription # Absent
                       THEN Head(tasks).message ELSE handled
  BY DEF InvokeMessage, NextIs, Idle
<1>2. /\ 1 \in First..Len(tasks) /\ 1 \in 1..Len(tasks) /\ Head(tasks) = tasks[1]
      /\ tasks[1] \in Tasks
  BY <1>1, HeadTask DEF IInv, Types, First
<1>3. /\ tasks[1].message[1] \in 1..connection /\ tasks[1].message[2] >= 1
      /\ tasks[1].message[1] = connection => tasks[1].message[2] <= received
  BY <1>1, <1>2 DEF QueueInv, Ordered, IsMessage
<1>4. ~Leaks => Before(handled, tasks[1].message)
  BY <1>1, <1>2 DEF QueueInv, After
<1>5. ASSUME ~Leaks, connected, tasks[1].message[1] = connection
      PROVE  handled' = tasks[1].message
  <2>1. tasks[1].number = EditorModel /\ EditorModel = connection /\ subscription = connection
    BY <1>1, <1>2, <1>5 DEF QueueInv, Invoked
  <2>2. bound = connection /\ connection \in Nat
    BY <1>1, <1>5, <2>1 DEF ModelInv, Listening, IInv, Types
  <2> QED BY <1>1, <1>2, <2>1, <2>2 DEF Absent
<1> QED BY <1>1, <1>2, <1>3, <1>4, <1>5, TaskFields

LEMMA InvokeMessageKeepsMessages ==
    ASSUME IInv, ModelInv, QueueInv, InvokeMessage
    PROVE  ModelInv' /\ QueueInv'
<1> DEFINE m == tasks[1].message
<1>1. /\ UNCHANGED <<connected, connection, ended, received, actions, terminating, EditorModel,
                     messages, leaked, lost, bound, firing, subscription, listener, popped>>
      /\ step' = "idle" /\ tasks' = Tail(tasks)
  BY DEF InvokeMessage, Finish, wire, broker, model, hand
<1>2. /\ step = "idle" /\ 1 \in 1..Len(tasks) /\ Head(tasks) = tasks[1] /\ tasks # <<>>
      /\ tasks[1].kind = "invoke" /\ m \in Messages /\ m[1] \in 1..connection
      /\ m[1] = connection => m[2] <= received
      /\ ~Leaks => Before(handled, m)
      /\ handled' \in {handled, m}
      /\ ~Leaks /\ connected /\ m[1] = connection => handled' = m
  BY InvokedIs
<1>3. MessageTypes /\ Types /\ connection \in Nat
  BY DEF IInv, ModelInv, Types
<1>4. Leaks' = Leaks /\ First = 1 /\ First' = 1 /\ FirstToHandle = 1 /\ FirstToHandle' = 1 /\ FirstPop = 1
  BY <1>1, <1>2 DEF Leaks, First, FirstToHandle, FirstPop
<1>5. ModelInv'
  <2>1. MessageTypes'
    BY <1>1, <1>2, <1>3 DEF MessageTypes
  <2> QED BY <1>1, <1>2, <2>1, ModelUnchanged
<1>6. /\ Pops' /\ Popped' /\ Invoked' /\ Ordered' /\ Waiting' /\ Served'
      /\ Len(tasks) \in Nat /\ Len(tasks') = Len(tasks) - 1
      /\ \A i \in 1..Len(tasks') : i + 1 \in 2..Len(tasks) /\ tasks'[i] = tasks[i + 1]
  <2>1. Head(tasks).kind # "connect" /\ Head(tasks).kind \notin {"pop", "dangling"}
    BY <1>2
  <2>2. \A i \in 1..Len(tasks') : tasks'[i] = tasks[i + 1]
    BY <1>1, <1>2, <1>3, FinishedTasks DEF Types, Removed
  <2> QED BY <1>1, <1>2, <1>3, <1>4, <2>1, <2>2, TaskRemoved
<1>7. After'
  <2>1. handled'[1] <= connection /\ (handled'[1] = connection => handled'[2] <= received)
    BY <1>2, <1>3 DEF QueueInv, After
  <2>2. ASSUME ~Leaks, NEW i \in 1..Len(tasks'), tasks'[i].kind = "invoke"
        PROVE  Before(handled', tasks'[i].message)
    <3>1. i + 1 \in 1..Len(tasks) /\ 1 < i + 1 /\ tasks'[i] = tasks[i + 1]
      BY <1>6
    <3>2. Before(handled, tasks[i + 1].message)
      BY <1>4, <2>2, <3>1 DEF QueueInv, After
    <3>3. Before(m, tasks[i + 1].message)
      BY <1>2, <2>2, <3>1 DEF QueueInv, Ordered, IsMessage
    <3> QED BY <1>2, <3>1, <3>2, <3>3
  <2>3. ASSUME ~Leaks, NEW k \in 1..Len(messages) PROVE Before(handled', messages[k])
    <3>1. PICK f \in [1..Len(messages) -> 1..Len(tasks)] : PopsAre(f)
      BY <1>4 DEF QueueInv, Pops
    <3>2. tasks[f[k]].kind = "pop" /\ tasks[f[k]].message = messages[k] /\ f[k] \in 1..Len(tasks)
      BY <3>1 DEF PopsAre
    <3>3. f[k] # 1
      BY <1>2, <3>2
    <3>4. 1 < f[k]
      BY <3>2, <3>3
    <3>5. Before(m, messages[k])
      BY <1>2, <3>2, <3>4 DEF QueueInv, Ordered, IsMessage
    <3>6. Before(handled, messages[k])
      BY <2>3 DEF QueueInv, After
    <3> QED BY <1>2, <3>5, <3>6
  <2> QED BY <1>1, <1>4, <2>1, <2>2, <2>3 DEF After, Before
<1>8. Complete'
  <2> SUFFICES ASSUME ~Leaks, ~lost, connected, NEW n \in 1..received
               PROVE  \/ handled'[1] = connection /\ n <= handled'[2]
                      \/ \E i \in 1..Len(tasks') :
                             IsMessage(tasks'[i]) /\ tasks'[i].message = <<connection, n>>
    BY <1>1, <1>4 DEF Complete, IsMessage
  <2>1. handled' \in Messages
    BY <1>2, <1>3 DEF MessageTypes
  <2>2. \/ handled' = handled /\ m[1] # connection
        \/ handled' = m /\ Before(handled, m) /\ m[1] <= connection
    BY <1>2, <1>3
  <2>3. \/ handled'[1] = connection /\ n <= handled'[2]
        \/ \E i \in 2..Len(tasks) : IsMessage(tasks[i]) /\ tasks[i].message = <<connection, n>>
    BY <1>3, <1>4, <2>1, <2>2, StillWaits
  <2>4. ASSUME NEW i \in 2..Len(tasks) PROVE i - 1 \in 1..Len(tasks') /\ tasks'[i - 1] = tasks[i]
    <3>1. i - 1 \in 1..Len(tasks') /\ i - 1 + 1 = i
      BY <1>6
    <3> QED BY <1>6, <3>1
  <2> QED BY <2>3, <2>4
<1> QED BY <1>5, <1>6, <1>7, <1>8 DEF QueueInv

\* What is handled comes after what was, and next to it unless messages were
\* lost or its connection is over.
LEMMA HandledComesNext ==
    ASSUME IInv, ModelInv, QueueInv, HandOver \/ InvokeMessage, handled' # handled, ~leaked
    PROVE  LET next == IF handled'[1] = handled[1] THEN handled[2] + 1 ELSE 1
           IN  /\ handled'[1] >= handled[1] /\ handled'[2] >= next
               /\ lost \/ handled'[1] \in ended \/ handled'[2] = next
<1> DEFINE m == handled'
           next == IF m[1] = handled[1] THEN handled[2] + 1 ELSE 1
<1>1. /\ Types /\ Connections /\ MessageTypes
      /\ Len(tasks) \in Nat /\ connection \in Nat /\ received \in Nat
      /\ handled[1] \in Nat /\ handled[2] \in Nat
  BY TaskTypes DEF IInv, ModelInv, Types, MessageTypes, Messages
<1>2. ~Leaks /\ FirstToHandle = 1
  BY DEF HandOver, InvokeMessage, NextIs, Idle, Leaks, FirstToHandle
<1>3. /\ m[1] \in Nat /\ m[2] \in Nat /\ m[1] \in 1..connection /\ m[2] >= 1
      /\ m[1] = connection => m[2] <= received
      /\ Before(handled, m)
      /\ ~lost => m = tasks[1].message /\ IsMessage(tasks[1]) /\ 1 \in 1..Len(tasks)
  <2>1. CASE HandOver
    <3>1. step = "hand" /\ popped # NoMessage /\ handled' = popped
      BY <2>1 DEF HandOver
    <3>2. Before(handled, popped) /\ (~lost => popped = tasks[1].message)
      BY <1>2, <3>1 DEF QueueInv, Popped
    <3>3. IsMessage(tasks[1]) /\ 1 \in 1..Len(tasks)
      <4>1. tasks # <<>> /\ Head(tasks).kind \in {"pop", "dangling"}
        BY <3>1 DEF IInv, Making, PopSteps
      <4> QED BY <1>1, <4>1, HeadTask DEF Types, IsMessage
    <3> QED BY <3>1, <3>2, <3>3, PoppedIs
  <2>2. CASE InvokeMessage
    <3>1. /\ 1 \in 1..Len(tasks) /\ tasks[1].kind = "invoke" /\ tasks[1].message \in Messages
          /\ tasks[1].message[1] \in 1..connection /\ tasks[1].message[2] >= 1
          /\ tasks[1].message[1] = connection => tasks[1].message[2] <= received
          /\ Before(handled, tasks[1].message) /\ handled' = tasks[1].message
      BY <1>2, <2>2, InvokedIs
    <3>2. tasks[1].message[1] \in Nat /\ tasks[1].message[2] \in Nat
      BY <3>1 DEF Messages
    <3> QED BY <3>1, <3>2 DEF IsMessage
  <2> QED BY <2>1, <2>2
<1>4. m[1] >= handled[1] /\ m[2] >= next /\ next \in Nat /\ next >= 1
  BY <1>1, <1>3 DEF Before
<1>5. ASSUME ~lost, m[1] \notin ended PROVE m[2] = next
  <2>1. m[1] = connection /\ connected
    BY <1>1, <1>3, <1>5 DEF Connections
  <2> SUFFICES ASSUME next < m[2] PROVE FALSE
    BY <1>3, <1>4
  <2>2. next \in 1..received
    BY <1>1, <1>3, <1>4, <2>1
  <2>3. ~(handled[1] = connection /\ next <= handled[2])
    BY <1>1, <1>3, <2>1
  <2>4. PICK i \in 1..Len(tasks) : IsMessage(tasks[i]) /\ tasks[i].message = <<connection, next>>
    BY <1>2, <1>5, <2>1, <2>2, <2>3 DEF QueueInv, Complete
  <2>5. tasks[i].message[1] = connection /\ tasks[i].message[2] = next
    BY <2>4
  <2> HIDE DEF next
  <2>6. m = tasks[1].message /\ IsMessage(tasks[1]) /\ 1 \in 1..Len(tasks)
    BY <1>3, <1>5
  <2> HIDE DEF m
  <2>7. 1 < i
    BY <1>1, <1>3, <1>4, <2>5, <2>6
  <2>8. Before(m, tasks[i].message)
    BY <2>4, <2>6, <2>7 DEF QueueInv, Ordered
  <2> QED BY <1>3, <1>4, <2>1, <2>5, <2>8 DEF Before
<1> QED BY <1>4, <1>5

-----------------------------------------------------------------------------
LEMMA ReceiveKeepsModel ==
    ASSUME IInv, ModelInv, Receive
    PROVE  ModelInv'
<1>1. /\ UNCHANGED <<connected, connection, ended, actions, terminating, step, EditorModel, bound,
                     leaked, lost, firing, handled, listener, popped>>
      /\ subscription' = IF subscription > 0 THEN subscription ELSE 0
  BY DEF Receive, model, hand, history
<1>2. Types /\ MessageTypes
  BY DEF IInv, ModelInv
<1>3. MessageTypes'
  <2>1. <<connection, received + 1>> \in Messages
    BY <1>2 DEF Types, Messages
  <2>2. messages' \in {messages, Append(messages, <<connection, received + 1>>)}
    BY DEF Receive, Dispatch, DispatchToNobody
  <2>3. messages' \in Seq(Messages)
    BY <1>2, <2>1, <2>2, AppendProperties DEF MessageTypes
  <2> QED BY <1>1, <1>2, <2>3 DEF MessageTypes
<1> QED BY <1>1, <1>3, ModelUnchanged

\* The game thread and the threads that fire.
LEMMA OthersKeepMessages ==
    ASSUME IInv, ModelInv, QueueInv,
           QueueView \/ Schedule \/ Shutdown \/ FireBegin \/ FireEnd \/ UNCHANGED vars
    PROVE  ModelInv' /\ QueueInv'
<1>1. UNCHANGED <<connected, connection, ended, received, actions, terminating, step, EditorModel,
                  messages, handled, leaked, lost, bound, subscription, listener, popped>>
  BY DEF QueueView, Schedule, Shutdown, FireBegin, FireEnd, wire, broker, model, hand, history, vars
<1>2. Types /\ MessageTypes
  BY DEF IInv, ModelInv
<1>3. Leaks' = Leaks /\ First' = First /\ UNCHANGED <<FirstPop, FirstToHandle>>
  BY <1>1 DEF Leaks, First, FirstPop, FirstToHandle
<1>4. ModelInv'
  <2>1. firing' \in {firing, EditorModel, 0}
    BY DEF QueueView, Schedule, Shutdown, FireBegin, FireEnd, vars
  <2>2. MessageTypes'
    BY <1>1, <1>2, <2>1 DEF MessageTypes, Types
  <2> QED BY <1>1, <2>2, ModelUnchanged
<1>5. \/ tasks' = tasks
      \/ \E t \in Tasks : t.kind \in {"view", "action"} /\ tasks' = Append(tasks, t)
  <2> DEFINE view == Task("view", 0, NoMessage)
             action == Task("action", GameControl, <<GameControl, IF GameControl \in ended THEN 1 ELSE 0>>)
  <2>1. /\ view \in Tasks /\ view.kind = "view"
        /\ action \in Tasks /\ action.kind = "action"
    BY <1>2 DEF Task, Tasks, Messages, NoMessage, Types
  <2>2. tasks' \in {tasks, Append(tasks, view), Append(tasks, action)}
    BY DEF QueueView, Schedule, Shutdown, ScheduleModelAction, FireBegin, FireEnd, vars
  <2> HIDE DEF view, action
  <2> QED BY <2>1, <2>2
<1>6. QueueInv'
  <2>1. CASE tasks' = tasks
    <3>1. Served'
      BY <1>1, <2>1 DEF QueueInv, Served
    <3> QED BY <1>1, <1>3, <2>1, <3>1, TasksUnchanged
  <2>2. ASSUME NEW t \in Tasks, t.kind \in {"view", "action"}, tasks' = Append(tasks, t)
        PROVE  QueueInv'
    <3>1. t.kind \notin {"pop", "dangling", "invoke", "connect"}
      BY <2>2
    <3> QED BY <1>1, <1>2, <1>3, <2>2, <3>1, OtherTaskAppended
  <2> QED BY <1>5, <2>1, <2>2
<1> QED BY <1>4, <1>6

MInv == IInv /\ ModelInv /\ QueueInv

LEMMA NextKeepsMInv == MInv /\ [Next]_vars => MInv'
<1> SUFFICES ASSUME IInv, ModelInv, QueueInv, [Next]_vars
             PROVE  ModelInv' /\ QueueInv'
  BY NextKeepsIInv DEF MInv
<1>1. CASE Connect
  BY <1>1, ConnectKeepsModel, ConnectKeepsQueue
<1>2. CASE Receive
  BY <1>2, ReceiveKeepsModel, ReceiveKeepsQueue
<1>3. CASE Disconnect
  BY <1>3, DisconnectKeepsMessages
<1>4. CASE RunAction
  BY <1>4, RunActionKeepsMessages
<1>5. CASE Scheduler
  <2>1. CASE MakeModel
    BY <2>1, MakeModelKeepsModel, MakeModelKeepsQueue
  <2>2. CASE Bind
    BY <2>2, BindKeepsMessages
  <2>3. CASE AddUnbind
    BY <2>3, AddUnbindKeepsMessages
  <2>4. CASE Subscribe
    BY <2>4, SubscribeKeepsMessages
  <2>5. CASE AddUnsubscribe
    BY <2>5, AddUnsubscribeKeepsMessages
  <2>6. CASE AddGone
    BY <2>6, AddGoneKeepsMessages
  <2>7. CASE BeAlive
    BY <2>7, BeAliveKeepsMessages
  <2>8. CASE MakeControl \/ Gone \/ View \/ DoAction
    BY <2>8, FinishingKeepsMessages
  <2>9. CASE PopMessage
    BY <2>9, PopMessageKeepsMessages
  <2>10. CASE TakeMessage
    BY <2>10, TakeMessageKeepsMessages
  <2>11. CASE HandOver
    BY <2>11, HandOverKeepsMessages
  <2>12. CASE TestEmpty \/ EraseQueue
    BY <2>12, TestAndEraseKeepMessages
  <2>13. CASE InvokeMessage
    BY <2>13, InvokeMessageKeepsMessages
  <2> QED BY <1>5, <2>1, <2>2, <2>3, <2>4, <2>5, <2>6, <2>7, <2>8, <2>9, <2>10, <2>11, <2>12, <2>13
       DEF Scheduler
<1>6. CASE QueueView \/ Schedule \/ Shutdown \/ FireBegin \/ FireEnd \/ UNCHANGED vars
  BY <1>6, OthersKeepMessages
<1> QED BY <1>1, <1>2, <1>3, <1>4, <1>5, <1>6 DEF Next

LEMMA MInvIsInvariant == Spec => []MInv
<1>1. Init => MInv
  BY InitEstablishesIInv, InitEstablishesMessages DEF MInv
<1> QED BY <1>1, NextKeepsMInv, PTL DEF Spec

-----------------------------------------------------------------------------
(***************************************************************************)
(* Type correctness: a lifetime's actions are those of a model as far as   *)
(* it is made, and each task that pops a message finds one.                *)
(***************************************************************************)
THEOREM TypeCorrect == Spec => []TypeOK
<1>1. ASSUME MInv PROVE TypeOK
  <2>1. Types /\ Connections /\ MessageTypes /\ Progress
    BY <1>1 DEF MInv, IInv, ModelInv
  <2>2. ended \subseteq Nat
    BY <2>1 DEF Connections
  <2> QED BY <2>1, <2>2 DEF TypeOK, Types, MessageTypes, Progress
<1> QED BY <1>1, MInvIsInvariant, PTL

(***************************************************************************)
(* A task that holds a pointer to an entity is executed before the model   *)
(* the entity is a part of is destroyed: it is for the model there is.     *)
(***************************************************************************)
THEOREM MessagesFindTheirModel == Spec => []MessageFindsItsModel
<1>1. ASSUME MInv PROVE MessageFindsItsModel
  <2> SUFFICES ASSUME NextIs("invoke"), ~leaked
               PROVE  Head(tasks).number = EditorModel
    BY DEF MessageFindsItsModel
  <2>1. step = "idle" /\ tasks # <<>> /\ Head(tasks).kind = "invoke"
    BY DEF NextIs, Idle
  <2>2. 1 \in First..Len(tasks) /\ Head(tasks) = tasks[1]
    BY <1>1, <2>1, HeadTask DEF MInv, IInv, Types, First
  <2>3. ~Leaks
    BY <2>1 DEF Leaks
  <2> QED BY <1>1, <2>1, <2>2, <2>3 DEF MInv, QueueInv, Invoked
<1> QED BY <1>1, MInvIsInvariant, PTL

(***************************************************************************)
(* Messages are handled in their order, whether they arrive before, while  *)
(* or after the model is bound; and none of a connection that lasts is     *)
(* skipped unless a queue was erased with messages in it.                  *)
(***************************************************************************)
THEOREM MessagesAreHandledInOrder == Spec => HandledInOrder
<1> DEFINE Step == LET was == handled
                       is == handled'
                       next == IF is[1] = was[1] THEN was[2] + 1 ELSE 1
                   IN  leaked \/ /\ is[1] >= was[1] /\ is[2] >= next
                                 /\ lost \/ is[1] \in ended \/ is[2] = next
<1>1. ASSUME MInv, [Next]_vars PROVE [Step]_handled
  <2>1. CASE HandOver \/ InvokeMessage
    BY <1>1, <2>1, HandledComesNext DEF MInv
  <2>2. CASE ~(HandOver \/ InvokeMessage)
    <3>1. UNCHANGED handled
      BY <1>1, <2>2 DEF Next, Scheduler, Connect, Receive, Disconnect, RunAction, MakeModel, Bind,
         AddUnbind, Subscribe, AddUnsubscribe, AddGone, BeAlive, MakeControl, Gone, View, DoAction,
         PopMessage, TakeMessage, TestEmpty, EraseQueue, QueueView, Schedule, Shutdown, FireBegin,
         FireEnd, history, vars
    <3> QED BY <3>1
  <2> QED BY <2>1, <2>2
<1> QED BY <1>1, MInvIsInvariant, PTL DEF Spec, HandledInOrder
=============================================================================
