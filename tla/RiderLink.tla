------------------------------ MODULE RiderLink ------------------------------
(***************************************************************************)
(* FRiderLinkModule: how the editor's model follows a connection that      *)
(* comes and goes, and how MessageBroker hands messages to the model.      *)
(*                                                                         *)
(* The wire's thread connects, receives and disconnects; the scheduler's   *)
(* thread takes its tasks one after the other; a logging thread uses the   *)
(* model under a read lock; FRiderGameControlModule, on the game thread,   *)
(* views the model and queues actions that use it.  A connection, the      *)
(* model made for it, the model's one entity that listens to the wire and  *)
(* the FRiderGameControl made for the model have the same number; 0 is     *)
(* none.                                                                   *)
(***************************************************************************)
EXTENDS Integers, Sequences

CONSTANTS
    MaxConnections,     \* bound: connections made
    MaxMessages,        \* bound: messages received on a connection
    MaxTasks            \* bound: tasks waiting when the game thread adds one

ASSUME RiderLinkAssumption ==
    MaxConnections \in Nat /\ MaxMessages \in Nat /\ MaxTasks \in Nat

Absent == -1            \* an id that is no key of subscriptions

VARIABLES
    \* the wire's thread
    connected,
    connection,         \* the number of the last connection
    ended,              \* the connections whose lifetime is over
    actions,            \* of the lifetime of the last connection
    terminating,        \* its actions that are still to run
    received,           \* messages received on it
    \* MessageBroker
    subscription,       \* whose the id is; Absent, or 0 for a null pointer
    messages,           \* default_scheduler_messages of the id
    \* the scheduler's thread
    tasks, step,
    listener, popped,   \* what the task that pops a message has read
    EditorModel, RdIsModelAlive,
    bound,              \* the model that has a parent
    \* other threads and modules
    viewing,            \* "no", "yes", "ended": the control's module views the model
    GameControl,
    firing,             \* the model a FireAsyncAction is using
    \* history
    handled,            \* <<connection, number>> of the last message handled
    leaked,             \* a subscription was left without its removal
    lost                \* messages were destroyed with their queue

wire == <<connected, connection, ended, terminating, received>>
broker == <<subscription, messages>>
hand == <<listener, popped>>
model == <<EditorModel, RdIsModelAlive, viewing, GameControl>>
history == <<handled, leaked, lost>>
vars == <<wire, actions, broker, tasks, step, hand, model, bound, firing, history>>

NoMessage == <<0, 0>>

Init ==
    /\ connected = FALSE /\ connection = 0 /\ ended = {}
    /\ actions = <<>> /\ terminating = <<>> /\ received = 0
    /\ subscription = Absent /\ messages = <<>>
    /\ tasks = <<>> /\ step = "idle" /\ listener = 0 /\ popped = NoMessage
    /\ EditorModel = 0 /\ RdIsModelAlive = "unset" /\ bound = 0
    /\ viewing = "no" /\ GameControl = 0 /\ firing = 0
    /\ handled = NoMessage /\ leaked = FALSE /\ lost = FALSE

Task(kind, number, message) == [kind |-> kind, number |-> number, message |-> message]

-----------------------------------------------------------------------------
\* connected.set(true): view gives the handler a lifetime, and the handler
\* queues the making of a model.
Connect ==
    /\ ~connected /\ terminating = <<>>
    /\ connection < MaxConnections
    /\ connected' = TRUE
    /\ connection' = connection + 1
    /\ actions' = <<>> /\ received' = 0
    /\ tasks' = Append(tasks, Task("connect", connection + 1, NoMessage))
    /\ UNCHANGED <<ended, terminating, broker, step, model, bound, firing, hand, history>>

\* The slip of throwing a message away that nobody listens to yet.
DispatchToNobodyDrops(message) == UNCHANGED <<messages, tasks>>

\* dispatch of a message nobody listens to yet, ...
DispatchToNobody(message) ==
    /\ messages' = Append(messages, message)
    /\ tasks' = Append(tasks, Task("pop", 0, message))

\* What is left of an entity whose model was destroyed may show anything.
Destroyed(entity) == entity # EditorModel

\* ... and of one that is somebody's.  An entity that is not bound (any more)
\* has no scheduler to be found, and receiverProc ends with the connection.
Dispatch(message) ==
    /\ bound = subscription \/ Destroyed(subscription)
    /\ tasks' = Append(tasks, Task("invoke", subscription, message))
    /\ UNCHANGED messages

\* receiverProc.  Looking an id up makes it a key.
Receive ==
    /\ connected /\ received < MaxMessages
    /\ received' = received + 1
    /\ IF subscription > 0
          THEN Dispatch(<<connection, received + 1>>) /\ UNCHANGED subscription
          ELSE DispatchToNobody(<<connection, received + 1>>) /\ subscription' = 0
    /\ UNCHANGED <<connected, connection, ended, actions, terminating, step, model, bound, firing,
                   hand, history>>

\* connected.set(false) terminates the lifetime: no action can be added any
\* more, and those that were are taken to be run ...
Disconnect ==
    /\ connected
    /\ connected' = FALSE
    /\ ended' = ended \cup {connection}
    /\ terminating' = actions
    /\ actions' = <<>>
    /\ UNCHANGED <<connection, received, broker, tasks, step, model, bound, firing, hand, history>>

\* ... by this thread, the last first.
LastAction == terminating[Len(terminating)]

\* The slip of overtaking what is queued already.
GoneQueuedFirst ==
    LET gone == <<Task("gone", connection, NoMessage)>>
    IN  IF tasks = <<>> \/ step = "idle" THEN gone \o tasks ELSE <<Head(tasks)>> \o gone \o Tail(tasks)

GoneQueued == Append(tasks, Task("gone", connection, NoMessage))

RunAction ==
    /\ terminating # <<>>
    /\ terminating' = SubSeq(terminating, 1, Len(terminating) - 1)
    /\ tasks' = IF LastAction = "gone" THEN GoneQueued ELSE tasks
    /\ subscription' = IF LastAction = "unsubscribe" THEN Absent ELSE subscription
    /\ bound' = IF LastAction = "unbind" THEN 0 ELSE bound
    /\ UNCHANGED <<connected, connection, ended, actions, received, messages, step, model,
                   firing, hand, history>>

-----------------------------------------------------------------------------
\* The scheduler's thread.
Idle == step = "idle"

NextIs(kind) == Idle /\ tasks # <<>> /\ Head(tasks).kind = kind

\* The connection whose task is being executed.
Current == Head(tasks).number

\* The task is done, or an exception has left it; PoolTask catches that.
Finish == step' = "idle" /\ tasks' = Tail(tasks)

\* add_action throws when the lifetime is over.
AddAction(action, next) ==
    \/ /\ Current \notin ended
       /\ actions' = Append(actions, action)
       /\ step' = next
       /\ UNCHANGED tasks
    \/ /\ Current \in ended
       /\ Finish
       /\ UNCHANGED actions

\* The slip of not waiting for those who use the model.
UnusedNot == TRUE

\* ModelLock can be taken for writing.
Unused == firing = 0

\* The model of the last connection is replaced, under the lock.
MakeModel ==
    /\ NextIs("connect") /\ Unused
    /\ EditorModel' = Current
    /\ step' = "bind"
    /\ UNCHANGED <<wire, actions, broker, tasks, RdIsModelAlive, viewing, GameControl, bound, firing,
                   hand, history>>

\* bind: the model gets its parent unless the lifetime is over; then there is
\* no protocol to be found ...
Bind ==
    /\ step = "bind"
    /\ IF Current \in ended
          THEN Finish /\ UNCHANGED bound
          ELSE bound' = Current /\ step' = "unbind" /\ UNCHANGED tasks
    /\ UNCHANGED <<wire, actions, broker, model, firing, hand, history>>

\* ... and is to lose it with the lifetime.  If that has ended meanwhile the
\* parent stays.
AddUnbind ==
    /\ step = "unbind"
    /\ AddAction("unbind", "subscribe")
    /\ UNCHANGED <<wire, broker, model, bound, firing, hand, history>>

\* advise_on: the entity gets the id ...
Subscribe ==
    /\ step = "subscribe"
    /\ IF Current \in ended
          THEN step' = "watch" /\ UNCHANGED subscription
          ELSE step' = "unsubscribe" /\ subscription' = Current
    /\ UNCHANGED <<wire, actions, messages, tasks, model, bound, firing, hand, history>>

\* The slip of not having the entity removed.
RemoveLaterNot ==
    /\ step' = "watch"
    /\ UNCHANGED <<actions, tasks>>

\* ... to be removed with the lifetime.  If that has ended meanwhile the
\* entity stays.
RemoveLater == AddAction("unsubscribe", "watch")

AddUnsubscribe ==
    /\ step = "unsubscribe"
    /\ RemoveLater
    /\ leaked' = (leaked \/ Current \in ended)
    /\ UNCHANGED <<wire, broker, model, bound, firing, hand, handled, lost>>

\* The slip of not watching for the end of the connection.
WatchNot ==
    /\ step' = "alive"
    /\ UNCHANGED <<actions, tasks>>

\* ConnectionLifetime->add_action
Watch == AddAction("gone", "alive")

AddGone ==
    /\ step = "watch"
    /\ Watch
    /\ UNCHANGED <<wire, broker, model, bound, firing, hand, history>>

\* The control's module views the model and is told of a change.
Told(value) == viewing = "yes" /\ RdIsModelAlive # value

\* RdIsModelAlive.set: the control made for the last model is reset first;
\* nothing happens if nothing changes.
SetAlive(value) ==
    /\ RdIsModelAlive' = value
    /\ GameControl' = IF Told(value) THEN 0 ELSE GameControl

BeAlive ==
    /\ step = "alive"
    /\ SetAlive("true")
    /\ IF Told("true") THEN step' = "control" /\ UNCHANGED tasks ELSE Finish
    /\ UNCHANGED <<wire, actions, broker, EditorModel, viewing, bound, firing, hand, history>>

\* The handler of the view: the control's Reset was added to the lifetime of
\* the view, and now it is made.  If that lifetime has ended in between, the
\* Reset was done already and this control is not reset.
MakeControl ==
    /\ step = "control"
    /\ GameControl' = EditorModel
    /\ Finish
    /\ UNCHANGED <<wire, actions, broker, EditorModel, RdIsModelAlive, viewing, bound, firing,
                   hand, history>>

\* The task that the end of a connection queued, under the lock.
Gone ==
    /\ NextIs("gone") /\ Unused
    /\ SetAlive("false")
    /\ Finish
    /\ UNCHANGED <<wire, actions, broker, EditorModel, viewing, bound, firing, hand, history>>

\* The task of a message that nobody listened to reads without the lock if
\* somebody does now, ...
PopMessage ==
    /\ NextIs("pop") \/ NextIs("dangling")
    /\ listener' = IF subscription = Absent THEN 0 ELSE subscription
    /\ subscription' = listener'
    /\ step' = "take"
    /\ UNCHANGED <<wire, actions, messages, tasks, popped, model, bound, firing, history>>

\* The queue its iterator shows.  One that was freed shows what it held last,
\* nothing, or the queue that was made in its place.
Shown == IF Head(tasks).kind = "pop" THEN {messages} ELSE {<<>>, messages}

\* The slip of leaving the message in the queue.
RestIsAll(queue) == queue

Rest(queue) == Tail(queue)

\* ... takes the first message, with it, ...
TakeMessage ==
    /\ step = "take"
    /\ \E queue \in Shown :
          \/ queue = <<>> /\ popped' = NoMessage /\ UNCHANGED messages
          \/ queue # <<>> /\ popped' = Head(queue) /\ messages' = Rest(queue)
    /\ step' = "hand"
    /\ UNCHANGED <<wire, actions, subscription, tasks, listener, model, bound, firing, history>>

\* ... hands it over, without, unless the listener was unbound meanwhile: that
\* throws; ...
HandOver ==
    /\ step = "hand"
    /\ \/ /\ listener = 0 \/ popped = NoMessage \/ Destroyed(listener)
          /\ step' = "test"
          /\ UNCHANGED <<tasks, handled>>
       \/ /\ listener # 0 /\ popped # NoMessage /\ bound = listener
          /\ handled' = popped
          /\ step' = "test"
          /\ UNCHANGED tasks
       \/ /\ listener # 0 /\ popped # NoMessage /\ bound # listener
          /\ Finish
          /\ UNCHANGED handled
    /\ listener' = 0 /\ popped' = NoMessage
    /\ UNCHANGED <<wire, actions, broker, model, bound, firing, leaked, lost>>

\* ... sees if that was the last message ...
TestEmpty ==
    /\ step = "test"
    /\ \E queue \in Shown :
          IF queue = <<>> THEN step' = "erase" /\ UNCHANGED tasks ELSE Finish
    /\ UNCHANGED <<wire, actions, broker, model, bound, firing, hand, history>>

\* ... and erases the queue of the id, whatever has got into it meanwhile.
\* The iterators of other tasks are left dangling.
LeftDangling ==
    [i \in 1..(Len(tasks) - 1) |->
        IF tasks[i + 1].kind = "pop" THEN [tasks[i + 1] EXCEPT !.kind = "dangling"]
                                     ELSE tasks[i + 1]]

EraseQueue ==
    /\ step = "erase"
    /\ messages' = <<>>
    /\ lost' = (lost \/ messages # <<>>)
    /\ step' = "idle"
    /\ tasks' = LeftDangling
    /\ UNCHANGED <<wire, actions, subscription, model, bound, firing, hand, handled, leaked>>

\* One that somebody listened to, if its id is a key still.
InvokeMessage ==
    /\ NextIs("invoke")
    /\ handled' = IF bound = Head(tasks).number /\ subscription # Absent
                     THEN Head(tasks).message ELSE handled
    /\ Finish
    /\ UNCHANGED <<wire, actions, broker, model, bound, firing, hand, leaked, lost>>

-----------------------------------------------------------------------------
\* FRiderGameControlModule starts up: ViewModel, whose action the scheduler
\* executes.  With a lifetime that is over by then nothing is viewed.
QueueView ==
    /\ viewing = "no" /\ Len(tasks) < MaxTasks
    /\ \A i \in 1..Len(tasks) : tasks[i].kind # "view"
    /\ tasks' = Append(tasks, Task("view", 0, NoMessage))
    /\ UNCHANGED <<wire, actions, broker, step, model, bound, firing, hand, history>>

View ==
    /\ NextIs("view")
    /\ viewing' = IF viewing = "no" THEN "yes" ELSE viewing
    /\ IF viewing = "no" /\ RdIsModelAlive = "true"
          THEN step' = "control" /\ UNCHANGED tasks
          ELSE Finish
    /\ UNCHANGED <<wire, actions, broker, EditorModel, RdIsModelAlive, GameControl, bound, firing,
                   hand, history>>

\* ScheduleModelAction on another thread than the scheduler's: a task that has
\* the control's address.  The message says if the connection was over by then.
ScheduleModelAction ==
    Append(tasks, Task("action", GameControl, <<GameControl, IF GameControl \in ended THEN 1 ELSE 0>>))

\* An event of the editor that the control listens to; one that is made after
\* the lifetime has ended does not begin to.
Schedule ==
    /\ GameControl # 0 /\ viewing = "yes" /\ Len(tasks) < MaxTasks
    /\ tasks' = ScheduleModelAction
    /\ UNCHANGED <<wire, actions, broker, step, model, bound, firing, hand, history>>

\* The action uses the control's model.
DoAction ==
    /\ NextIs("action")
    /\ Finish
    /\ UNCHANGED <<wire, actions, broker, model, bound, firing, hand, history>>

\* It shuts down: the game thread terminates the lifetimes of the views.  The
\* control's schedules a last action, and then the control is reset.
Shutdown ==
    /\ viewing # "ended"
    /\ viewing' = "ended" /\ GameControl' = 0
    /\ tasks' = IF GameControl = 0 THEN tasks ELSE ScheduleModelAction
    /\ UNCHANGED <<wire, actions, broker, step, EditorModel, RdIsModelAlive, bound, firing,
                   hand, history>>

\* ModelLock is held for writing until the model is taken to be alive and
\* those who view it were told.
Locked ==
    \/ step \in {"bind", "unbind", "subscribe", "unsubscribe", "watch", "alive"}
    \/ step = "control" /\ Head(tasks).kind = "connect"

\* FireAsyncAction holds the lock for reading while the handler runs.
FireBegin ==
    /\ firing = 0 /\ ~Locked
    /\ RdIsModelAlive = "true"
    /\ firing' = EditorModel
    /\ UNCHANGED <<wire, actions, broker, tasks, step, model, bound, hand, history>>

FireEnd ==
    /\ firing # 0
    /\ firing' = 0
    /\ UNCHANGED <<wire, actions, broker, tasks, step, model, bound, hand, history>>

Scheduler ==
    \/ MakeModel \/ Bind \/ AddUnbind \/ Subscribe \/ AddUnsubscribe \/ AddGone \/ BeAlive
    \/ MakeControl \/ Gone \/ View \/ DoAction \/ InvokeMessage
    \/ PopMessage \/ TakeMessage \/ HandOver \/ TestEmpty \/ EraseQueue

Next ==
    \/ Connect \/ Receive \/ Disconnect \/ RunAction
    \/ Scheduler
    \/ QueueView \/ Schedule \/ Shutdown \/ FireBegin \/ FireEnd

Spec == Init /\ [][Next]_vars

\* Nobody need connect, send, fire or view; but a lifetime's actions are run,
\* the scheduler does its tasks, and no handler fires for ever.  One that
\* begins to again and again might keep a writer out, unless the lock is fair.
Fairness ==
    /\ WF_vars(RunAction) /\ WF_vars(FireEnd)
    /\ SF_vars(MakeModel) /\ SF_vars(Gone)
    /\ WF_vars(Bind \/ AddUnbind \/ Subscribe \/ AddUnsubscribe \/ AddGone \/ BeAlive
               \/ MakeControl \/ View \/ DoAction \/ InvokeMessage
               \/ PopMessage \/ TakeMessage \/ HandOver \/ TestEmpty \/ EraseQueue)

FairSpec == Spec /\ Fairness

-----------------------------------------------------------------------------
Messages == Nat \X Nat

Tasks ==
    [kind : {"connect", "gone", "pop", "dangling", "invoke", "view", "action"},
     number : Nat, message : Messages]

\* What a lifetime can have to do, as far as the scheduler has come.
Actions == {<<>>, <<"unbind">>, <<"unbind", "unsubscribe">>, <<"unbind", "unsubscribe", "gone">>}

Steps ==
    {"idle", "bind", "unbind", "subscribe", "unsubscribe", "watch", "alive", "control",
     "take", "hand", "test", "erase"}

TypeOK ==
    /\ connected \in BOOLEAN /\ connection \in Nat /\ ended \subseteq Nat
    /\ actions \in Actions /\ terminating \in Actions
    /\ received \in Nat
    /\ subscription \in Nat \cup {Absent} /\ messages \in Seq(Messages)
    /\ tasks \in Seq(Tasks) /\ step \in Steps
    /\ listener \in Nat /\ popped \in Messages
    /\ EditorModel \in Nat /\ RdIsModelAlive \in {"unset", "true", "false"} /\ bound \in Nat
    /\ viewing \in {"no", "yes", "ended"} /\ GameControl \in Nat /\ firing \in Nat
    /\ handled \in Messages /\ leaked \in BOOLEAN /\ lost \in BOOLEAN

(***************************************************************************)
(* "Have to resort to RdProperty<bool> and change it before creating new   *)
(* RdEditorModel": whoever views the model or fires into it has the one    *)
(* that exists, however fast connections come and go.  (A view is one      *)
(* until its module is shut down: a control that is being made then stays, *)
(* and the model it was made for is replaced.)                             *)
(***************************************************************************)
ModelOutlivesUse ==
    /\ GameControl # 0 /\ viewing = "yes" => GameControl = EditorModel
    /\ firing # 0 => firing = EditorModel

ChangedBeforeNewModel ==
    [][EditorModel' # EditorModel => RdIsModelAlive # "true"]_EditorModel

(***************************************************************************)
(* An action that was queued while the connection lasted finds the control *)
(* that queued it.  (One queued by an event of the editor between the end  *)
(* of the connection and the task "gone" does not, one that was queued     *)
(* before a shutdown may not, and the one a shutdown queues itself never   *)
(* does: nothing in the code keeps the control.)                           *)
(***************************************************************************)
ActionFindsItsControl ==
    NextIs("action") /\ Head(tasks).message[2] = 0 /\ viewing = "yes"
        => GameControl = Head(tasks).number

(***************************************************************************)
(* A task that holds a pointer to an entity is executed before the model   *)
(* the entity is a part of is destroyed, unless a connection ended between *)
(* the two halves of advise_on.                                            *)
(***************************************************************************)
MessageFindsItsModel ==
    NextIs("invoke") /\ ~leaked => Head(tasks).number = EditorModel

(***************************************************************************)
(* Messages of a connection are handled in order, whether they arrive      *)
(* before, while or after the model is bound, and as long as the           *)
(* connection lasts none is skipped unless one was destroyed: the task     *)
(* that pops the last message of a queue erases it, and what has come to   *)
(* the queue after the test is lost.  (What comes after the end of a       *)
(* connection may be skipped in part: a message popped when the entity is  *)
(* gone makes the id a key again, and one invoked next passes the test for *)
(* it.)                                                                    *)
(***************************************************************************)
HandledInOrder ==
    [][LET was == handled
           is == handled'
           next == IF is[1] = was[1] THEN was[2] + 1 ELSE 1
       IN  leaked \/ /\ is[1] >= was[1] /\ is[2] >= next
                     /\ lost \/ is[1] \in ended \/ is[2] = next]_handled

(***************************************************************************)
(* A connection that stays gets its model, and each of its messages is     *)
(* handled unless messages were destroyed with their queue; without one,   *)
(* the model is not taken to be alive for ever.                            *)
(***************************************************************************)
ModelFollowsConnection ==
    /\ <>[]connected => <>[](RdIsModelAlive = "true" /\ EditorModel = connection)
    /\ <>[](~connected) => <>[](RdIsModelAlive # "true")

MessagesAreHandled ==
    <>[]connected => <>[](leaked \/ lost \/ received = 0 \/ handled = <<connection, received>>)

=============================================================================
