------------------------------ MODULE MqttClient ------------------------------
(***************************************************************************)
(* The class MqttClient: application threads that connect, publish,        *)
(* subscribe and disconnect, the queue thread (messageQueueLoop), the      *)
(* reconnect thread (reconnectLoop), and the callback thread of the Paho   *)
(* library that delivers onConnected, onConnectionLost and                 *)
(* onMessageArrived.                                                       *)
(*                                                                         *)
(* One step of the model is what a thread does between two points where    *)
(* another thread can act: a section under stateMutex_, a wait for a       *)
(* token, a join, a sleep, or an access to an atomic.  Paho itself is not  *)
(* part of the sources: it is modelled by what the class relies on, a      *)
(* single callback thread and requests that succeed, fail or stay          *)
(* unanswered.                                                             *)
(***************************************************************************)
EXTENDS Naturals, Sequences

CONSTANTS
  Owner,          \* the thread that connects, disconnects and destroys
  Users,          \* other threads, that only publish and (un)subscribe
  Msgs,           \* the messages
  Republish,      \* whether one that was disposed of is published again,
                  \* so that publishers may go on for ever
  NoMsg,          \* no message
  AutoReconnect   \* options_.auto_reconnect

Callers == Users \cup {Owner}

Free == "free"            \* stateMutex_ is not held
Rc   == "reconnect"       \* the reconnect thread, as a holder or a waiter

ASSUME ThreadsAssumption ==
  /\ Owner \notin Users
  /\ Free \notin Callers /\ Rc \notin Callers
ASSUME MsgsAssumption == NoMsg \notin Msgs
ASSUME OptionsAssumption == AutoReconnect \in BOOLEAN /\ Republish \in BOOLEAN

VARIABLES
  state,          \* state_
  running,        \* running_
  reconnecting,   \* reconnecting_
  stateMutex,     \* holder of stateMutex_ across steps, or Free
  told,           \* last value given to connectionCallback_
  pc,             \* what each application thread is doing
  arg,            \* the message a caller of publish() holds
  rc,             \* reconnectThread_; "none" is not joinable
  mq,             \* messageQueueThread_; "none" is not joinable
  queue,          \* messageQueue_
  held,           \* the message the queue thread has popped
  fate,           \* what has become of each message
  life,           \* the client object
  link,           \* Paho: the connection to the broker
  armed,          \* Paho: automatic reconnect is in force
  cb,             \* Paho: the callback its callback thread is in
  token           \* Paho: the answer to the connect request a thread waits on

control == <<state, running, reconnecting, stateMutex, told>>
outbox  == <<arg, queue, held, fate>>
paho    == <<link, armed, cb, token>>
vars    == <<control, pc, rc, mq, outbox, life, paho>>

Init ==
  /\ state = "Disconnected" /\ running = FALSE /\ reconnecting = FALSE
  /\ stateMutex = Free
  /\ told = FALSE
  /\ pc = [t \in Callers |-> "idle"]
  /\ arg = [t \in Callers |-> NoMsg]
  /\ rc = "none" /\ mq = "none"
  /\ queue = <<>> /\ held = NoMsg
  /\ fate = [m \in Msgs |-> "fresh"]
  /\ life = "alive"
  /\ link = "down" /\ armed = FALSE /\ cb = "idle"
  /\ token = [t \in {Owner, Rc} |-> "none"]

Goto(t, l) == pc' = [pc EXCEPT ![t] = l]
Return(t)  == Goto(t, "idle")

\* client_->is_connected(): still so while a disconnect is in progress.
LinkUp == link \in {"up", "closing"}

\* isConnected()
IsConnected == state = "Connected" /\ LinkUp

-----------------------------------------------------------------------------
(* Requests to Paho.                                                       *)

\* client_->connect(): starts an attempt, or waits for the one in progress;
\* on a link that is up already the request stays unanswered.
RequestConnect(t) ==
  /\ link' = IF link = "up" THEN "up" ELSE "connecting"
  /\ token' = [token EXCEPT ![t] = "pending"]
  /\ UNCHANGED <<armed, cb>>

\* connect() and doReconnect() drop their token when they leave.
DropToken(t) == token' = [token EXCEPT ![t] = "none"]

-----------------------------------------------------------------------------
(* connect()                                                               *)

CallConnect ==
  /\ life = "alive" /\ pc[Owner] = "idle"
  /\ Goto(Owner, "connect")
  /\ UNCHANGED <<control, rc, mq, outbox, life, paho>>

ConnectRefused ==
  /\ pc[Owner] = "connect" /\ stateMutex = Free
  /\ state # "Disconnected"
  /\ Return(Owner)
  /\ UNCHANGED <<control, rc, mq, outbox, life, paho>>

ConnectThrows ==
  /\ pc[Owner] = "connect" /\ stateMutex = Free
  /\ state = "Disconnected"
  /\ running' = TRUE
  /\ told' = FALSE
  /\ Return(Owner)
  /\ UNCHANGED <<state, reconnecting, stateMutex, rc, mq, outbox, life, paho>>

\* Variant: the queue thread is started before there is a connection.
ConnectStartWithQueue ==
  /\ pc[Owner] = "connect" /\ stateMutex = Free
  /\ state = "Disconnected"
  /\ state' = "Connecting"
  /\ running' = TRUE
  /\ stateMutex' = Owner
  /\ mq' = "top"
  /\ RequestConnect(Owner)
  /\ Goto(Owner, "connectWait")
  /\ UNCHANGED <<reconnecting, told, rc, outbox, life>>

ConnectStart ==
  /\ pc[Owner] = "connect" /\ stateMutex = Free
  /\ state = "Disconnected"
  /\ state' = "Connecting"
  /\ running' = TRUE
  /\ stateMutex' = Owner
  /\ RequestConnect(Owner)
  /\ Goto(Owner, "connectWait")
  /\ UNCHANGED <<reconnecting, told, rc, mq, outbox, life>>

\* The rest of connect() once the token is complete: starting the queue
\* thread ends the process if the previous one has not been joined.
ConnectCompletes ==
  /\ state' = "Connected"
  /\ stateMutex' = Free
  /\ Return(Owner)
  /\ \/ /\ mq = "none"
        /\ mq' = "top"
        /\ told' = TRUE
        /\ UNCHANGED life
     \/ /\ mq # "none"
        /\ life' = "aborted"
        /\ UNCHANGED <<mq, told>>
  /\ DropToken(Owner)
  /\ UNCHANGED <<running, reconnecting, rc, outbox, link, armed, cb>>

ConnectAnswered ==
  /\ pc[Owner] = "connectWait"
  /\ \/ token[Owner] = "ok" /\ ConnectCompletes
     \/ /\ token[Owner] = "failed"
        /\ state' = "Disconnected"
        /\ stateMutex' = Free
        /\ told' = FALSE
        /\ Return(Owner)
        /\ DropToken(Owner)
        /\ UNCHANGED <<running, reconnecting, rc, mq, outbox, life, link,
                       armed, cb>>

ConnectTimeout ==
  /\ pc[Owner] = "connectWait" /\ token[Owner] = "pending"
  /\ Goto(Owner, "connectCheck")
  /\ UNCHANGED <<control, rc, mq, outbox, life, paho>>

\* is_complete() after a wait that timed out: the answer, good or bad, may
\* have come in between; if not, connect() leaves state_ as it is.
ConnectCheck ==
  /\ pc[Owner] = "connectCheck"
  /\ \/ token[Owner] # "pending" /\ ConnectCompletes
     \/ /\ token[Owner] = "pending"
        /\ stateMutex' = Free
        /\ Return(Owner)
        /\ DropToken(Owner)
        /\ UNCHANGED <<state, running, reconnecting, told, rc, mq, outbox,
                       life, link, armed, cb>>

-----------------------------------------------------------------------------
(* disconnect(), also what stop() and the destructor do                    *)

CallDisconnect ==
  /\ life = "alive" /\ pc[Owner] = "idle"
  /\ Goto(Owner, "disconnect")
  /\ UNCHANGED <<control, rc, mq, outbox, life, paho>>

\* The destructor may only run when no other thread uses the object.
CallDestructor ==
  /\ life = "alive" /\ \A t \in Callers : pc[t] = "idle"
  /\ life' = "dying"
  /\ Goto(Owner, "disconnect")
  /\ UNCHANGED <<control, rc, mq, outbox, paho>>

DisconnectEarlyReturn ==
  /\ pc[Owner] = "disconnect" /\ stateMutex = Free
  /\ state = "Disconnected"
  /\ Return(Owner)
  /\ UNCHANGED <<control, rc, mq, outbox, life, paho>>

\* Variant: the queue thread is not told to stop.
StopOnlyReconnecting == reconnecting' = FALSE /\ UNCHANGED running

StopWorkers == running' = FALSE /\ reconnecting' = FALSE

\* Variant: no unlock() before the joins.
DisconnectStartKeepsLock ==
  /\ pc[Owner] = "disconnect" /\ stateMutex = Free
  /\ state # "Disconnected"
  /\ state' = "Disconnecting"
  /\ StopWorkers
  /\ stateMutex' = Owner
  /\ Goto(Owner, "joinQueue")
  /\ UNCHANGED <<told, rc, mq, outbox, life, paho>>

DisconnectStart ==
  /\ pc[Owner] = "disconnect" /\ stateMutex = Free
  /\ state # "Disconnected"
  /\ state' = "Disconnecting"
  /\ StopWorkers
  /\ Goto(Owner, "joinQueue")
  /\ UNCHANGED <<stateMutex, told, rc, mq, outbox, life, paho>>

JoinQueueThread ==
  /\ pc[Owner] = "joinQueue"
  /\ mq \in {"none", "done"}
  /\ mq' = "none"
  /\ Goto(Owner, "joinReconnect")
  /\ UNCHANGED <<control, rc, outbox, life, paho>>

\* Variant: the reconnect thread is left running.
JoinReconnectThreadNot ==
  /\ pc[Owner] = "joinReconnect"
  /\ Goto(Owner, "disconnectRequest")
  /\ UNCHANGED <<control, rc, mq, outbox, life, paho>>

JoinReconnectThread ==
  /\ pc[Owner] = "joinReconnect"
  /\ rc \in {"none", "done"}
  /\ rc' = "none"
  /\ Goto(Owner, "disconnectRequest")
  /\ UNCHANGED <<control, mq, outbox, life, paho>>

\* client_->disconnect() is only called on a live link, and it alone ends
\* the automatic reconnection of Paho.  When it throws, the link has just
\* gone: the second case.
DisconnectRequest ==
  /\ pc[Owner] = "disconnectRequest"
  /\ \/ /\ LinkUp
        /\ link' = "closing"
        /\ armed' = FALSE
        /\ Goto(Owner, "disconnectWait")
     \/ /\ ~LinkUp
        /\ Goto(Owner, "disconnected")
        /\ UNCHANGED <<link, armed>>
  /\ UNCHANGED <<control, rc, mq, outbox, life, cb, token>>

\* The token is complete, or failed (caught), or ten seconds are over.
DisconnectWaited ==
  /\ pc[Owner] = "disconnectWait"
  /\ Goto(Owner, "disconnected")
  /\ UNCHANGED <<control, rc, mq, outbox, life, paho>>

\* state_ is written, and the application told, without stateMutex_.
Disconnected ==
  /\ pc[Owner] = "disconnected"
  /\ state' = "Disconnected"
  /\ Goto(Owner, "tellDisconnected")
  /\ UNCHANGED <<running, reconnecting, stateMutex, told, rc, mq, outbox,
                 life, paho>>

TellDisconnected ==
  /\ pc[Owner] = "tellDisconnected"
  /\ told' = FALSE
  /\ Return(Owner)
  /\ UNCHANGED <<state, running, reconnecting, stateMutex, rc, mq, outbox,
                 life, paho>>

\* The members go after the destructor's body: a std::thread that is still
\* joinable ends the process.
DestroyMembers ==
  /\ life = "dying" /\ pc[Owner] = "idle"
  /\ life' = IF rc = "none" /\ mq = "none" THEN "gone" ELSE "aborted"
  /\ UNCHANGED <<control, pc, rc, mq, outbox, paho>>

-----------------------------------------------------------------------------
(* publish(), subscribe(), unsubscribe()                                   *)

Settled == {"sent", "failed", "dropped"}

CallPublish(t, m) ==
  /\ life = "alive" /\ pc[t] = "idle"
  /\ \/ fate[m] = "fresh"
     \/ Republish /\ fate[m] \in Settled
  /\ fate' = [fate EXCEPT ![m] = "offered"]
  /\ arg' = [arg EXCEPT ![t] = m]
  /\ Goto(t, IF IsConnected THEN "send" ELSE "enqueue")
  /\ UNCHANGED <<control, rc, mq, queue, held, life, paho>>

Enqueue(t) ==
  /\ pc[t] = "enqueue"
  /\ queue' = Append(queue, arg[t])
  /\ fate' = [fate EXCEPT ![arg[t]] = "queued"]
  /\ arg' = [arg EXCEPT ![t] = NoMsg]
  /\ Return(t)
  /\ UNCHANGED <<control, rc, mq, held, life, paho>>

\* client_->publish() throws when the link is down, and may throw when it is
\* up (its own buffer full); the caller's callback learns which it was.
Send(t) ==
  /\ pc[t] = "send"
  /\ \E f \in {"sent", "failed"} :
        /\ f = "sent" => LinkUp
        /\ fate' = [fate EXCEPT ![arg[t]] = f]
  /\ arg' = [arg EXCEPT ![t] = NoMsg]
  /\ Return(t)
  /\ UNCHANGED <<control, rc, mq, queue, held, life, paho>>

\* subscribe() and unsubscribe() take the same steps here.
CallSubscribe(t) ==
  /\ life = "alive" /\ pc[t] = "idle"
  /\ Goto(t, "subscribe")
  /\ UNCHANGED <<control, rc, mq, outbox, life, paho>>

\* state_ is not Connected, or the request throws.
SubscribeRefused(t) ==
  /\ pc[t] = "subscribe" /\ stateMutex = Free
  /\ Return(t)
  /\ UNCHANGED <<control, rc, mq, outbox, life, paho>>

\* Variant: without stateMutex_.
SubscribeStartUnlocked(t) ==
  /\ pc[t] = "subscribe"
  /\ state = "Connected" /\ LinkUp
  /\ stateMutex' = t
  /\ Goto(t, "subscribeWait")
  /\ UNCHANGED <<state, running, reconnecting, told, rc, mq, outbox, life,
                 paho>>

SubscribeStart(t) ==
  /\ pc[t] = "subscribe" /\ stateMutex = Free
  /\ state = "Connected" /\ LinkUp
  /\ stateMutex' = t
  /\ Goto(t, "subscribeWait")
  /\ UNCHANGED <<state, running, reconnecting, told, rc, mq, outbox, life,
                 paho>>

\* The token is complete, or failed (caught), or five seconds are over.
SubscribeWaited(t) ==
  /\ pc[t] = "subscribeWait"
  /\ stateMutex' = Free
  /\ Return(t)
  /\ UNCHANGED <<state, running, reconnecting, told, rc, mq, outbox, life,
                 paho>>

-----------------------------------------------------------------------------
(* The callbacks                                                           *)

\* Variant: also on a client that has been stopped.
StartReconnectingAlways ==
  IF AutoReconnect
  THEN /\ reconnecting' = TRUE
       /\ rc' = IF rc = "none" THEN "top" ELSE rc
  ELSE UNCHANGED <<reconnecting, rc>>

StartReconnecting ==
  IF running /\ AutoReconnect
  THEN /\ reconnecting' = TRUE
       /\ rc' = IF rc = "none" THEN "top" ELSE rc
  ELSE UNCHANGED <<reconnecting, rc>>

OnConnectionLost ==
  /\ cb = "onConnectionLost" /\ stateMutex = Free
  /\ cb' = "idle"
  /\ \/ /\ state = "Disconnecting"
        /\ UNCHANGED <<control, rc>>
     \/ /\ state # "Disconnecting"
        /\ state' = "Disconnected"
        /\ told' = FALSE
        /\ StartReconnecting
        /\ UNCHANGED <<running, stateMutex>>
  /\ UNCHANGED <<pc, mq, outbox, life, link, armed, token>>

\* Variant: state_ is left alone.
OnConnectedOnlyTells ==
  /\ cb = "onConnected" /\ stateMutex = Free
  /\ cb' = "idle"
  /\ told' = TRUE
  /\ UNCHANGED <<state, running, reconnecting, stateMutex, pc, rc, mq, outbox,
                 life, link, armed, token>>

OnConnected ==
  /\ cb = "onConnected" /\ stateMutex = Free
  /\ cb' = "idle"
  /\ state' = "Connected"
  /\ told' = TRUE
  /\ UNCHANGED <<running, reconnecting, stateMutex, pc, rc, mq, outbox, life,
                 link, armed, token>>

\* The message callback is copied under the lock and called after it.
OnMessageArrived ==
  /\ cb = "onMessageArrived" /\ stateMutex = Free
  /\ cb' = "idle"
  /\ UNCHANGED <<control, pc, rc, mq, outbox, life, link, armed, token>>

-----------------------------------------------------------------------------
(* reconnectLoop() and doReconnect()                                       *)

ReconnectLoopTest ==
  /\ rc = "top"
  /\ rc' = IF reconnecting /\ running THEN "asleep" ELSE "done"
  /\ UNCHANGED <<control, pc, mq, outbox, life, paho>>

ReconnectWake ==
  /\ rc = "asleep"
  /\ rc' = IF running /\ reconnecting THEN "lock" ELSE "done"
  /\ UNCHANGED <<control, pc, mq, outbox, life, paho>>

\* doReconnect() with nothing to do, or whose request throws.
ReconnectSkip ==
  /\ rc = "lock" /\ stateMutex = Free
  /\ rc' = "tried"
  /\ UNCHANGED <<control, pc, mq, outbox, life, paho>>

ReconnectStart ==
  /\ rc = "lock" /\ stateMutex = Free
  /\ state = "Disconnected"
  /\ state' = "Connecting"
  /\ stateMutex' = Rc
  /\ RequestConnect(Rc)
  /\ rc' = "wait"
  /\ UNCHANGED <<running, reconnecting, told, pc, mq, outbox, life>>

\* Variant: the application is not told.
ReconnectedSilently ==
  /\ state' = "Connected"
  /\ reconnecting' = FALSE
  /\ UNCHANGED told

\* The rest of doReconnect(), with or without a connection.
Reconnected ==
  /\ state' = "Connected"
  /\ reconnecting' = FALSE
  /\ told' = TRUE

ReconnectFails ==
  /\ state' = "Disconnected"
  /\ UNCHANGED <<reconnecting, told>>

ReconnectAnswered ==
  /\ rc = "wait"
  /\ \/ token[Rc] = "ok" /\ Reconnected
     \/ token[Rc] = "failed" /\ ReconnectFails
  /\ stateMutex' = Free
  /\ rc' = "tried"
  /\ DropToken(Rc)
  /\ UNCHANGED <<running, pc, mq, outbox, life, link, armed, cb>>

ReconnectTimeout ==
  /\ rc = "wait" /\ token[Rc] = "pending"
  /\ rc' = "check"
  /\ UNCHANGED <<control, pc, mq, outbox, life, paho>>

ReconnectCheck ==
  /\ rc = "check"
  /\ \/ token[Rc] # "pending" /\ Reconnected
     \/ token[Rc] = "pending" /\ ReconnectFails
  /\ stateMutex' = Free
  /\ rc' = "tried"
  /\ DropToken(Rc)
  /\ UNCHANGED <<running, pc, mq, outbox, life, link, armed, cb>>

ReconnectTried ==
  /\ rc = "tried"
  /\ rc' = IF state = "Connected" THEN "done" ELSE "top"
  /\ UNCHANGED <<control, pc, mq, outbox, life, paho>>

-----------------------------------------------------------------------------
(* messageQueueLoop()                                                      *)

QueueLoopTest ==
  /\ mq = "top"
  /\ mq' = IF running THEN "wait" ELSE "done"
  /\ UNCHANGED <<control, pc, rc, outbox, life, paho>>

\* wait_for(100 ms): its predicate holds, or it times out.
QueueWaited ==
  /\ mq = "wait"
  /\ mq' = IF queue = <<>> THEN "top" ELSE "pop"
  /\ UNCHANGED <<control, pc, rc, outbox, life, paho>>

\* Variant: front() without pop().
QueuePopNot ==
  /\ mq = "pop"
  /\ \/ /\ queue = <<>>
        /\ mq' = "top"
        /\ UNCHANGED held
     \/ /\ queue # <<>>
        /\ held' = Head(queue)
        /\ mq' = "popped"
  /\ UNCHANGED <<control, pc, rc, arg, queue, fate, life, paho>>

QueuePop ==
  /\ mq = "pop"
  /\ \/ /\ queue = <<>>
        /\ mq' = "top"
        /\ UNCHANGED <<queue, held>>
     \/ /\ queue # <<>>
        /\ held' = Head(queue)
        /\ queue' = Tail(queue)
        /\ mq' = "popped"
  /\ UNCHANGED <<control, pc, rc, arg, fate, life, paho>>

\* Variant: a message that cannot be sent yet goes back to the queue.
QueueTestRequeues ==
  /\ mq = "popped"
  /\ \/ /\ IsConnected
        /\ mq' = "send"
        /\ UNCHANGED <<held, queue>>
     \/ /\ ~IsConnected
        /\ mq' = "pop"
        /\ held' = NoMsg
        /\ queue' = <<held>> \o queue
  /\ UNCHANGED <<control, pc, rc, arg, fate, life, paho>>

\* A message popped while the client is not connected goes nowhere, and its
\* callback is never called.
QueueTest ==
  /\ mq = "popped"
  /\ \/ /\ IsConnected
        /\ mq' = "send"
        /\ UNCHANGED <<held, fate>>
     \/ /\ ~IsConnected
        /\ mq' = "pop"
        /\ held' = NoMsg
        /\ fate' = [fate EXCEPT ![held] = "dropped"]
  /\ UNCHANGED <<control, pc, rc, arg, queue, life, paho>>

\* Variant: the message is still there for the next round.
QueueSendKeeps ==
  /\ mq = "send"
  /\ \E f \in {"sent", "failed"} :
        /\ f = "sent" => LinkUp
        /\ fate' = [fate EXCEPT ![held] = f]
  /\ mq' = "pop"
  /\ UNCHANGED <<control, pc, rc, arg, queue, held, life, paho>>

QueueSend ==
  /\ mq = "send"
  /\ \E f \in {"sent", "failed"} :
        /\ f = "sent" => LinkUp
        /\ fate' = [fate EXCEPT ![held] = f]
  /\ held' = NoMsg
  /\ mq' = "pop"
  /\ UNCHANGED <<control, pc, rc, arg, queue, life, paho>>

-----------------------------------------------------------------------------
(* Paho: its one callback thread acts when no callback is running.         *)

\* Complete the connect requests that are waiting.
Answer(a) ==
  token' = [t \in DOMAIN token |->
              IF token[t] = "pending" THEN a ELSE token[t]]

PahoAccept ==
  /\ cb = "idle" /\ link = "connecting"
  /\ link' = "up"
  /\ armed' = (armed \/ AutoReconnect)
  /\ cb' = "onConnected"
  /\ Answer("ok")
  /\ UNCHANGED <<control, pc, rc, mq, outbox, life>>

PahoRefuse ==
  /\ cb = "idle" /\ link = "connecting"
  /\ link' = "down"
  /\ Answer("failed")
  /\ UNCHANGED <<control, pc, rc, mq, outbox, life, armed, cb>>

PahoRetry ==
  /\ cb = "idle" /\ link = "down" /\ armed
  /\ link' = "connecting"
  /\ UNCHANGED <<control, pc, rc, mq, outbox, life, armed, cb, token>>

PahoLost ==
  /\ cb = "idle" /\ link = "up"
  /\ link' = "down"
  /\ cb' = "onConnectionLost"
  /\ UNCHANGED <<control, pc, rc, mq, outbox, life, armed, token>>

PahoMessage ==
  /\ cb = "idle" /\ LinkUp
  /\ cb' = "onMessageArrived"
  /\ UNCHANGED <<control, pc, rc, mq, outbox, life, link, armed, token>>

\* A disconnect request is carried out, even after its caller gave up.
PahoDisconnect ==
  /\ cb = "idle" /\ link = "closing"
  /\ link' = "down"
  /\ UNCHANGED <<control, pc, rc, mq, outbox, life, armed, cb, token>>

-----------------------------------------------------------------------------
Connect ==
  CallConnect \/ ConnectRefused \/ ConnectThrows \/ ConnectStart
    \/ ConnectAnswered \/ ConnectTimeout \/ ConnectCheck

Disconnect ==
  CallDisconnect \/ DisconnectEarlyReturn \/ DisconnectStart
    \/ JoinQueueThread \/ JoinReconnectThread \/ DisconnectRequest
    \/ DisconnectWaited \/ Disconnected \/ TellDisconnected

Destroy == CallDestructor \/ DestroyMembers

Publish(t) == (\E m \in Msgs : CallPublish(t, m)) \/ Enqueue(t) \/ Send(t)

Subscribe(t) ==
  CallSubscribe(t) \/ SubscribeRefused(t) \/ SubscribeStart(t)
    \/ SubscribeWaited(t)

Callback == OnConnectionLost \/ OnConnected \/ OnMessageArrived

ReconnectThread ==
  ReconnectLoopTest \/ ReconnectWake \/ ReconnectSkip \/ ReconnectStart
    \/ ReconnectAnswered \/ ReconnectTimeout \/ ReconnectCheck
    \/ ReconnectTried

QueueThread ==
  QueueLoopTest \/ QueueWaited \/ QueuePop \/ QueueTest \/ QueueSend

Paho ==
  PahoAccept \/ PahoRefuse \/ PahoRetry \/ PahoLost \/ PahoMessage
    \/ PahoDisconnect

\* The object is gone, or the process has ended.
Terminated == life \in {"gone", "aborted"}

Next ==
  /\ ~Terminated
  /\ \/ Connect \/ Disconnect \/ Destroy
     \/ \E t \in Callers : Publish(t) \/ Subscribe(t)
     \/ Callback \/ ReconnectThread \/ QueueThread \/ Paho

Spec == Init /\ [][Next]_vars

-----------------------------------------------------------------------------
(* Fairness.  Every thread runs and eventually gets a mutex that keeps      *)
(* becoming free; time-outs expire; Paho ends what it has started.  No      *)
(* application thread has to make a call, and no connection has to succeed. *)

CallerStep(t) ==
  \/ /\ t = Owner
     /\ \/ ConnectRefused \/ ConnectThrows \/ ConnectStart \/ ConnectAnswered
        \/ ConnectTimeout \/ ConnectCheck
        \/ DisconnectEarlyReturn \/ DisconnectStart \/ JoinQueueThread
        \/ JoinReconnectThread \/ DisconnectRequest \/ DisconnectWaited
        \/ Disconnected \/ TellDisconnected
  \/ Enqueue(t) \/ Send(t)
  \/ SubscribeRefused(t) \/ SubscribeStart(t) \/ SubscribeWaited(t)

FairSpec ==
  /\ Spec
  /\ \A t \in Callers : SF_vars(~Terminated /\ CallerStep(t))
  /\ SF_vars(~Terminated /\ Callback)
  /\ SF_vars(~Terminated /\ ReconnectThread)
  /\ WF_vars(~Terminated /\ QueueThread)
  /\ WF_vars(~Terminated /\ (PahoAccept \/ PahoRefuse))
  /\ WF_vars(~Terminated /\ PahoDisconnect)

\* A broker that comes back: Paho retries, and attempts that keep being made
\* are not all refused.
BrokerComesBack ==
  /\ WF_vars(~Terminated /\ PahoRetry)
  /\ SF_vars(~Terminated /\ PahoAccept)

-----------------------------------------------------------------------------
(* Safety                                                                  *)

Disconnecting == {"joinQueue", "joinReconnect", "disconnectRequest",
                  "disconnectWait", "disconnected"}

CallerLabels ==
  {"idle", "enqueue", "send", "subscribe", "subscribeWait"}
OwnerLabels ==
  CallerLabels \cup Disconnecting
    \cup {"connect", "connectWait", "connectCheck", "disconnect",
          "tellDisconnected"}

ControlOK ==
  /\ state \in {"Disconnected", "Connecting", "Connected", "Disconnecting"}
  /\ running \in BOOLEAN /\ reconnecting \in BOOLEAN /\ told \in BOOLEAN
  /\ stateMutex \in Callers \cup {Free, Rc}
  /\ life \in {"alive", "dying", "gone", "aborted"}

CallersOK ==
  /\ pc \in [Callers -> OwnerLabels]
  /\ \A t \in Users : pc[t] \in CallerLabels
  /\ arg \in [Callers -> Msgs \cup {NoMsg}]
  /\ \A t \in Callers : arg[t] # NoMsg <=> pc[t] \in {"enqueue", "send"}

WorkersOK ==
  /\ rc \in {"none", "top", "asleep", "lock", "wait", "check", "tried", "done"}
  /\ mq \in {"none", "top", "wait", "pop", "popped", "send", "done"}
  /\ queue \in Seq(Msgs)
  /\ held \in Msgs \cup {NoMsg}
  /\ held # NoMsg <=> mq \in {"popped", "send"}
  /\ fate \in [Msgs -> {"fresh", "offered", "queued", "sent", "failed",
                        "dropped"}]

PahoOK ==
  /\ link \in {"down", "connecting", "up", "closing"}
  /\ armed \in BOOLEAN
  /\ cb \in {"idle", "onConnected", "onConnectionLost", "onMessageArrived"}
  /\ token \in [{Owner, Rc} -> {"none", "pending", "ok", "failed"}]

\* Types, and the two hands that carry a message: a caller of publish() has
\* one exactly between testing isConnected() and disposing of the message,
\* the queue thread exactly between popping it and disposing of it.
TypeOK == ControlOK /\ CallersOK /\ WorkersOK /\ PahoOK

\* stateMutex_ is held across a wait by the threads that wait for Paho under
\* it, and by no other: at most one of them waits at a time.
MutexHeld ==
  /\ \A t \in Callers :
        stateMutex = t <=> pc[t] \in {"subscribeWait", "connectWait",
                                     "connectCheck"}
  /\ stateMutex = Rc <=> rc \in {"wait", "check"}

\* Once disconnect() has joined them there is no queue thread and no
\* reconnect thread until the next connect(), whatever callbacks come late:
\* a lost connection starts no thread on a client that is not running.
WorkersJoined ==
  ~running => /\ pc[Owner] # "joinQueue" => mq = "none"
              /\ pc[Owner] \notin {"joinQueue", "joinReconnect"} => rc = "none"

\* Two states belong to whoever set them.  Disconnecting is only seen inside
\* disconnect(), and no callback, nor the write of state_ that disconnect()
\* makes without the lock, changes Connecting under an attempt in progress.
StateOwned ==
  /\ state = "Disconnecting" => pc[Owner] \in Disconnecting
  /\ \/ pc[Owner] \in {"connectWait", "connectCheck"}
     \/ rc \in {"wait", "check"}
     => state = "Connecting"

\* What the application was last told, outside disconnect(): never that the
\* client is connected when it is not, and, from connect() to disconnect(),
\* always that it is when it is.
ToldTruth ==
  pc[Owner] \notin Disconnecting \cup {"tellDisconnected"} =>
    /\ told => state = "Connected"
    /\ running /\ state = "Connected" /\ ~Terminated => told

\* What publish() and the queue thread do with messages is what Outbox
\* allows: each is disposed of at most once for a publish(), and queued ones
\* in the order in which they were accepted.
Pending == (IF held = NoMsg THEN <<>> ELSE <<held>>) \o queue

FateSeen ==
  [m \in Msgs |-> IF fate[m] = "offered" THEN "fresh" ELSE fate[m]]

Outbox == INSTANCE Outbox WITH pending <- Pending, fate <- FateSeen

ImplementsOutbox == Outbox!Spec

-----------------------------------------------------------------------------
(* Liveness                                                                *)

\* The queue thread tests running_ only when it has found the queue empty:
\* publishers that queue messages faster than it takes them keep it going.
QueueKeptBusy == []<>(\E t \in Users : pc[t] = "enqueue")

\* Every call returns: no join waits for a thread that does not stop, no
\* mutex is held by a thread that waits for its owner.  The one exception is
\* disconnect(), which waits for the queue thread as long as other threads
\* go on queueing messages, for ever if they never stop.
EveryCallReturns ==
  \A t \in Callers :
    pc[t] # "idle" ~>
      \/ pc[t] = "idle" \/ Terminated
      \/ t = Owner /\ [](pc[Owner] = "joinQueue") /\ QueueKeptBusy

\* Paho's callback thread always gets out of the client again.
CallbackReturns == cb # "idle" ~> cb = "idle" \/ Terminated

\* A message queued while there is a queue thread is disposed of, or the
\* client is stopped.
QueueDrains ==
  \A m \in Msgs :
    fate[m] = "queued" /\ mq \notin {"none", "done"}
      ~> fate[m] # "queued" \/ ~running \/ Terminated

\* With a broker that comes back, a client that has lost its connection and
\* is not stopped is connected again.
Recovers ==
  BrokerComesBack =>
    (reconnecting /\ running ~> IsConnected \/ ~running \/ Terminated)

-----------------------------------------------------------------------------
(* What the repository's own test program expects, and the code does not   *)
(* do.                                                                     *)

\* "The messages of the offline queue have been sent."
OfflineMessagesSent == \A m \in Msgs : fate[m] # "dropped"

\* After disconnect() the client is offline until the next connect().
OfflineAfterDisconnect ==
  ~running /\ pc[Owner] = "idle" => state = "Disconnected"

\* A connect() that failed leaves a client that can be connected.
FailedConnectIsOver ==
  pc[Owner] = "idle" /\ stateMutex = Free => state # "Connecting"

\* No std::thread is assigned to or destroyed while it is joinable: a client
\* whose connection was lost can be connected again, and can be destroyed
\* after disconnect().
ProcessSurvives == life # "aborted"
=============================================================================
