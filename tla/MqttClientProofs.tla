--------------------------- MODULE MqttClientProofs ---------------------------
(***************************************************************************)
(* Theorems about MqttClient, for any number of application threads and    *)
(* messages, with and without automatic reconnection.                      *)
(***************************************************************************)
EXTENDS MqttClient, TLAPS, SequenceTheorems

-----------------------------------------------------------------------------
(* Lemmas about sequences                                                  *)

LEMMA Cons ==
  ASSUME NEW S, NEW e \in S, NEW s \in Seq(S)
  PROVE  /\ <<e>> \o s \in Seq(S)
         /\ <<e>> \o s # <<>>
         /\ Head(<<e>> \o s) = e
         /\ Tail(<<e>> \o s) = s
<1>1. /\ <<e>> \in Seq(S) /\ Len(<<e>>) = 1 /\ <<e>>[1] = e
  OBVIOUS
<1>2. /\ <<e>> \o s \in Seq(S)
      /\ Len(<<e>> \o s) = 1 + Len(s)
      /\ \A i \in 1..1 + Len(s) :
           (<<e>> \o s)[i] = IF i <= 1 THEN e ELSE s[i - 1]
  BY <1>1, ConcatProperties
<1>3. Len(s) \in Nat
  BY LenProperties
<1>4. <<e>> \o s # <<>>
  BY <1>2, <1>3, EmptySeq
<1>5. Head(<<e>> \o s) = e
  BY <1>2, <1>3, <1>4
<1>6. Tail(<<e>> \o s) = s
  <2>1. /\ Tail(<<e>> \o s) \in Seq(S)
        /\ Len(Tail(<<e>> \o s)) = Len(s)
        /\ \A i \in 1..Len(s) : Tail(<<e>> \o s)[i] = (<<e>> \o s)[i + 1]
    BY <1>2, <1>3, <1>4, HeadTailProperties
  <2>2. \A i \in 1..Len(s) : Tail(<<e>> \o s)[i] = s[i]
    BY <1>2, <1>3, <2>1
  <2> QED
    BY <2>1, <2>2, SeqEqual
<1> QED
  BY <1>2, <1>4, <1>5, <1>6

LEMMA Uncons ==
  ASSUME NEW S, NEW s \in Seq(S), s # <<>>
  PROVE  <<Head(s)>> \o Tail(s) = s
<1>1. /\ Head(s) \in S /\ Tail(s) \in Seq(S)
      /\ Len(Tail(s)) = Len(s) - 1
      /\ \A i \in 1..Len(Tail(s)) : Tail(s)[i] = s[i + 1]
  BY HeadTailProperties
<1>2. /\ <<Head(s)>> \in Seq(S) /\ Len(<<Head(s)>>) = 1
      /\ <<Head(s)>>[1] = Head(s)
  BY <1>1
<1>3. /\ <<Head(s)>> \o Tail(s) \in Seq(S)
      /\ Len(<<Head(s)>> \o Tail(s)) = 1 + Len(Tail(s))
      /\ \A i \in 1..1 + Len(Tail(s)) :
           (<<Head(s)>> \o Tail(s))[i]
             = IF i <= 1 THEN Head(s) ELSE Tail(s)[i - 1]
  BY <1>1, <1>2, ConcatProperties
<1>4. Len(s) \in Nat \ {0}
  BY EmptySeq
<1>5. Head(s) = s[1]
  OBVIOUS
<1>6. \A i \in 1..Len(s) : (<<Head(s)>> \o Tail(s))[i] = s[i]
  BY <1>1, <1>3, <1>4, <1>5
<1> QED
  BY <1>1, <1>3, <1>4, <1>6, SeqEqual

LEMMA AppendAfter ==
  ASSUME NEW S, NEW p \in Seq(S), NEW s \in Seq(S), NEW e \in S
  PROVE  p \o Append(s, e) = Append(p \o s, e)
<1>1. \A t \in Seq(S) : Append(t, e) = t \o <<e>>
  BY AppendIsConcat
<1>2. <<e>> \in Seq(S) /\ p \o s \in Seq(S)
  BY ConcatProperties
<1> QED
  BY <1>1, <1>2, ConcatAssociative

-----------------------------------------------------------------------------
(* Types                                                                   *)


LEMMA TypeStep ==
  ASSUME TypeOK, [Next]_vars
  PROVE  TypeOK'
<1> USE ThreadsAssumption, MsgsAssumption, OptionsAssumption
       DEF TypeOK, ControlOK, CallersOK, WorkersOK, PahoOK, CallerLabels,
           OwnerLabels, Disconnecting, control, outbox, paho, Callers, Free, Rc,
           Goto, Return, DropToken
<1>1. CASE CallConnect
  BY <1>1 DEF CallConnect
<1>2. CASE ConnectRefused
  BY <1>2 DEF ConnectRefused
<1>3. CASE ConnectThrows
  <2>1. ControlOK'
    BY <1>3 DEF ConnectThrows
  <2>2. CallersOK'
    BY <1>3 DEF ConnectThrows
  <2>3. WorkersOK'
    BY <1>3 DEF ConnectThrows
  <2>4. PahoOK'
    BY <1>3 DEF ConnectThrows
  <2> QED
    BY <2>1, <2>2, <2>3, <2>4
<1>4. CASE ConnectStart
  BY <1>4 DEF ConnectStart, RequestConnect
<1>5. CASE ConnectAnswered
  <2>1. ControlOK'
    BY <1>5 DEF ConnectAnswered, ConnectCompletes
  <2>2. CallersOK'
    BY <1>5 DEF ConnectAnswered, ConnectCompletes
  <2>3. WorkersOK'
    BY <1>5 DEF ConnectAnswered, ConnectCompletes
  <2>4. PahoOK'
    BY <1>5 DEF ConnectAnswered, ConnectCompletes
  <2> QED
    BY <2>1, <2>2, <2>3, <2>4
<1>6. CASE ConnectTimeout
  BY <1>6 DEF ConnectTimeout
<1>7. CASE ConnectCheck
  <2>1. ControlOK'
    BY <1>7 DEF ConnectCheck, ConnectCompletes
  <2>2. CallersOK'
    BY <1>7 DEF ConnectCheck, ConnectCompletes
  <2>3. WorkersOK'
    BY <1>7 DEF ConnectCheck, ConnectCompletes
  <2>4. PahoOK'
    BY <1>7 DEF ConnectCheck, ConnectCompletes
  <2> QED
    BY <2>1, <2>2, <2>3, <2>4
<1>8. CASE CallDisconnect
  BY <1>8 DEF CallDisconnect
<1>9. CASE DisconnectEarlyReturn
  BY <1>9 DEF DisconnectEarlyReturn
<1>10. CASE DisconnectStart
  <2>1. ControlOK'
    BY <1>10 DEF DisconnectStart, StopWorkers
  <2>2. CallersOK'
    BY <1>10 DEF DisconnectStart, StopWorkers
  <2>3. WorkersOK'
    BY <1>10 DEF DisconnectStart, StopWorkers
  <2>4. PahoOK'
    BY <1>10 DEF DisconnectStart, StopWorkers
  <2> QED
    BY <2>1, <2>2, <2>3, <2>4
<1>11. CASE JoinQueueThread
  BY <1>11 DEF JoinQueueThread
<1>12. CASE JoinReconnectThread
  BY <1>12 DEF JoinReconnectThread
<1>13. CASE DisconnectRequest
  <2>1. ControlOK'
    BY <1>13 DEF DisconnectRequest
  <2>2. CallersOK'
    BY <1>13 DEF DisconnectRequest
  <2>3. WorkersOK'
    BY <1>13 DEF DisconnectRequest
  <2>4. PahoOK'
    BY <1>13 DEF DisconnectRequest
  <2> QED
    BY <2>1, <2>2, <2>3, <2>4
<1>14. CASE DisconnectWaited
  BY <1>14 DEF DisconnectWaited
<1>15. CASE Disconnected
  BY <1>15 DEF Disconnected
<1>16. CASE TellDisconnected
  <2>1. ControlOK'
    BY <1>16 DEF TellDisconnected
  <2>2. CallersOK'
    BY <1>16 DEF TellDisconnected
  <2>3. WorkersOK'
    BY <1>16 DEF TellDisconnected
  <2>4. PahoOK'
    BY <1>16 DEF TellDisconnected
  <2> QED
    BY <2>1, <2>2, <2>3, <2>4
<1>17. CASE CallDestructor
  BY <1>17 DEF CallDestructor
<1>18. CASE DestroyMembers
  BY <1>18 DEF DestroyMembers
<1>19. CASE OnConnectionLost
  <2>1. ControlOK'
    BY <1>19 DEF OnConnectionLost, StartReconnecting
  <2>2. CallersOK'
    BY <1>19 DEF OnConnectionLost, StartReconnecting
  <2>3. WorkersOK'
    BY <1>19 DEF OnConnectionLost, StartReconnecting
  <2>4. PahoOK'
    BY <1>19 DEF OnConnectionLost, StartReconnecting
  <2> QED
    BY <2>1, <2>2, <2>3, <2>4
<1>20. CASE OnConnected
  BY <1>20 DEF OnConnected
<1>21. CASE OnMessageArrived
  BY <1>21 DEF OnMessageArrived
<1>22. CASE ReconnectLoopTest
  BY <1>22 DEF ReconnectLoopTest
<1>23. CASE ReconnectWake
  BY <1>23 DEF ReconnectWake
<1>24. CASE ReconnectSkip
  BY <1>24 DEF ReconnectSkip
<1>25. CASE ReconnectStart
  BY <1>25 DEF ReconnectStart, RequestConnect
<1>26. CASE ReconnectAnswered
  <2>1. ControlOK'
    BY <1>26 DEF ReconnectAnswered, Reconnected, ReconnectFails
  <2>2. CallersOK'
    BY <1>26 DEF ReconnectAnswered, Reconnected, ReconnectFails
  <2>3. WorkersOK'
    BY <1>26 DEF ReconnectAnswered, Reconnected, ReconnectFails
  <2>4. PahoOK'
    BY <1>26 DEF ReconnectAnswered, Reconnected, ReconnectFails
  <2> QED
    BY <2>1, <2>2, <2>3, <2>4
<1>27. CASE ReconnectTimeout
  BY <1>27 DEF ReconnectTimeout
<1>28. CASE ReconnectCheck
  <2>1. ControlOK'
    BY <1>28 DEF ReconnectCheck, Reconnected, ReconnectFails
  <2>2. CallersOK'
    BY <1>28 DEF ReconnectCheck, Reconnected, ReconnectFails
  <2>3. WorkersOK'
    BY <1>28 DEF ReconnectCheck, Reconnected, ReconnectFails
  <2>4. PahoOK'
    BY <1>28 DEF ReconnectCheck, Reconnected, ReconnectFails
  <2> QED
    BY <2>1, <2>2, <2>3, <2>4
<1>29. CASE ReconnectTried
  BY <1>29 DEF ReconnectTried
<1>30. CASE QueueLoopTest
  BY <1>30 DEF QueueLoopTest
<1>31. CASE QueueWaited
  BY <1>31 DEF QueueWaited
<1>32. CASE QueuePop
  <2>1. ControlOK'
    BY <1>32 DEF QueuePop
  <2>2. CallersOK'
    BY <1>32 DEF QueuePop
  <2>3. WorkersOK'
    <3>1. queue # <<>> => Head(queue) \in Msgs /\ Tail(queue) \in Seq(Msgs)
      BY HeadTailProperties
    <3>2. CASE queue = <<>>
      BY <1>32, <3>2 DEF QueuePop
    <3>3. CASE queue # <<>>
      <4>1. /\ held' = Head(queue) /\ queue' = Tail(queue) /\ mq' = "popped"
            /\ rc' = rc /\ fate' = fate
        BY <1>32, <3>3 DEF QueuePop
      <4>2. held' \in Msgs /\ queue' \in Seq(Msgs)
        BY <3>1, <3>3, <4>1
      <4> QED
        BY <4>1, <4>2
    <3> QED
      BY <3>2, <3>3
  <2>4. PahoOK'
    BY <1>32 DEF QueuePop
  <2> QED
    BY <2>1, <2>2, <2>3, <2>4
<1>33. CASE QueueTest
  BY <1>33 DEF QueueTest
<1>34. CASE QueueSend
  BY <1>34 DEF QueueSend
<1>35. CASE PahoAccept
  BY <1>35 DEF PahoAccept, Answer
<1>36. CASE PahoRefuse
  BY <1>36 DEF PahoRefuse, Answer
<1>37. CASE PahoRetry
  BY <1>37 DEF PahoRetry
<1>38. CASE PahoLost
  BY <1>38 DEF PahoLost
<1>39. CASE PahoMessage
  BY <1>39 DEF PahoMessage
<1>40. CASE PahoDisconnect
  BY <1>40 DEF PahoDisconnect
<1>41. ASSUME NEW t \in Callers, NEW m \in Msgs, CallPublish(t, m) PROVE TypeOK'
  BY <1>41 DEF CallPublish
<1>42. ASSUME NEW t \in Callers, Enqueue(t) PROVE TypeOK'
  BY <1>42 DEF Enqueue
<1>43. ASSUME NEW t \in Callers, Send(t) PROVE TypeOK'
  BY <1>43 DEF Send
<1>44. ASSUME NEW t \in Callers, CallSubscribe(t) PROVE TypeOK'
  BY <1>44 DEF CallSubscribe
<1>45. ASSUME NEW t \in Callers, SubscribeRefused(t) PROVE TypeOK'
  BY <1>45 DEF SubscribeRefused
<1>46. ASSUME NEW t \in Callers, SubscribeStart(t) PROVE TypeOK'
  BY <1>46 DEF SubscribeStart
<1>47. ASSUME NEW t \in Callers, SubscribeWaited(t) PROVE TypeOK'
  BY <1>47 DEF SubscribeWaited
<1>48. CASE UNCHANGED vars
  BY <1>48 DEF vars
<1> QED
  BY <1>1, <1>2, <1>3, <1>4, <1>5, <1>6, <1>7, <1>8, <1>9, <1>10, <1>11,
     <1>12, <1>13, <1>14, <1>15, <1>16, <1>17, <1>18, <1>19, <1>20, <1>21,
     <1>22, <1>23, <1>24, <1>25, <1>26, <1>27, <1>28, <1>29, <1>30, <1>31,
     <1>32, <1>33, <1>34, <1>35, <1>36, <1>37, <1>38, <1>39, <1>40, <1>41,
     <1>42, <1>43, <1>44, <1>45, <1>46, <1>47, <1>48
  DEF Next, Connect, Disconnect, Destroy, Callback, ReconnectThread,
      QueueThread, Paho, Publish, Subscribe


LEMMA TypeInit == Init => TypeOK
BY ThreadsAssumption, OptionsAssumption, EmptySeq
DEF Init, TypeOK, ControlOK, CallersOK, WorkersOK, PahoOK, CallerLabels,
    OwnerLabels, Callers, Free, Rc

\* Every reachable state has the types that TypeOK gives, whatever threads
\* call the client and however Paho answers.
THEOREM TypeCorrect == Spec => []TypeOK
<1>1. TypeOK /\ [Next]_vars => TypeOK'
  BY TypeStep
<1> QED
  BY TypeInit, <1>1, PTL DEF Spec

-----------------------------------------------------------------------------
(* Threads, the mutex, state_ and the connection callback                  *)

\* What ties running_ to what the owner is doing: connect() sets it before it
\* waits, disconnect() clears it before it joins, and nobody else writes it.
Stopped ==
  /\ pc[Owner] \in {"connectWait", "connectCheck"} => running
  /\ pc[Owner] \in Disconnecting \cup {"tellDisconnected"} => ~running

\* The inductive invariant.  MutexHeld makes a connection attempt exclude the
\* callbacks; Stopped and WorkersJoined make it exclude the write of state_
\* that disconnect() does without the lock.
ControlInv == MutexHeld /\ Stopped /\ WorkersJoined /\ StateOwned /\ ToldTruth

LEMMA ControlStep ==
  ASSUME TypeOK, ControlInv, [Next]_vars
  PROVE  ControlInv'
<1> USE ThreadsAssumption, MsgsAssumption, OptionsAssumption
       DEF TypeOK, ControlOK, CallersOK, WorkersOK, CallerLabels, OwnerLabels,
           Disconnecting, ControlInv, MutexHeld, Stopped, WorkersJoined,
           StateOwned, ToldTruth, Terminated, control, outbox, paho, Callers,
           Free, Rc, Goto, Return, DropToken
<1>1. CASE CallConnect
  BY <1>1 DEF CallConnect
<1>2. CASE ConnectRefused
  BY <1>2 DEF ConnectRefused
<1>3. CASE ConnectThrows
  BY <1>3 DEF ConnectThrows
<1>4. CASE ConnectStart
  BY <1>4 DEF ConnectStart, RequestConnect
<1>5. CASE ConnectAnswered
  <2>1. MutexHeld'
    <3>1. pc[Owner] = "connectWait"
      BY <1>5 DEF ConnectAnswered
    <3>2. stateMutex = Owner
      BY <3>1
    <3>3. /\ stateMutex' = Free /\ rc' = rc
          /\ pc' = [pc EXCEPT ![Owner] = "idle"]
      BY <1>5 DEF ConnectAnswered, ConnectCompletes
    <3> QED
      BY <3>1, <3>2, <3>3
  <2>2. Stopped'
    BY <1>5 DEF ConnectAnswered, ConnectCompletes
  <2>3. WorkersJoined'
    BY <1>5 DEF ConnectAnswered, ConnectCompletes
  <2>4. StateOwned'
    BY <1>5 DEF ConnectAnswered, ConnectCompletes
  <2>5. ToldTruth'
    BY <1>5 DEF ConnectAnswered, ConnectCompletes
  <2> QED
    BY <2>1, <2>2, <2>3, <2>4, <2>5
<1>6. CASE ConnectTimeout
  BY <1>6 DEF ConnectTimeout
<1>7. CASE ConnectCheck
  <2>1. MutexHeld'
    <3>1. pc[Owner] = "connectCheck"
      BY <1>7 DEF ConnectCheck
    <3>2. stateMutex = Owner
      BY <3>1
    <3>3. /\ stateMutex' = Free /\ rc' = rc
          /\ pc' = [pc EXCEPT ![Owner] = "idle"]
      BY <1>7 DEF ConnectCheck, ConnectCompletes
    <3> QED
      BY <3>1, <3>2, <3>3
  <2>2. Stopped'
    BY <1>7 DEF ConnectCheck, ConnectCompletes
  <2>3. WorkersJoined'
    BY <1>7 DEF ConnectCheck, ConnectCompletes
  <2>4. StateOwned'
    BY <1>7 DEF ConnectCheck, ConnectCompletes
  <2>5. ToldTruth'
    BY <1>7 DEF ConnectCheck, ConnectCompletes
  <2> QED
    BY <2>1, <2>2, <2>3, <2>4, <2>5
<1>8. CASE CallDisconnect
  BY <1>8 DEF CallDisconnect
<1>9. CASE DisconnectEarlyReturn
  BY <1>9 DEF DisconnectEarlyReturn
<1>10. CASE DisconnectStart
  BY <1>10 DEF DisconnectStart, StopWorkers
<1>11. CASE JoinQueueThread
  BY <1>11 DEF JoinQueueThread
<1>12. CASE JoinReconnectThread
  BY <1>12 DEF JoinReconnectThread
<1>13. CASE DisconnectRequest
  BY <1>13 DEF DisconnectRequest
<1>14. CASE DisconnectWaited
  BY <1>14 DEF DisconnectWaited
<1>15. CASE Disconnected
  BY <1>15 DEF Disconnected
<1>16. CASE TellDisconnected
  BY <1>16 DEF TellDisconnected
<1>17. CASE CallDestructor
  BY <1>17 DEF CallDestructor
<1>18. CASE DestroyMembers
  BY <1>18 DEF DestroyMembers
<1>19. CASE OnConnectionLost
  <2>1. MutexHeld'
    BY <1>19 DEF OnConnectionLost, StartReconnecting
  <2>2. Stopped'
    BY <1>19 DEF OnConnectionLost, StartReconnecting
  <2>3. WorkersJoined'
    BY <1>19 DEF OnConnectionLost, StartReconnecting
  <2>4. StateOwned'
    BY <1>19 DEF OnConnectionLost, StartReconnecting
  <2>5. ToldTruth'
    BY <1>19 DEF OnConnectionLost, StartReconnecting
  <2> QED
    BY <2>1, <2>2, <2>3, <2>4, <2>5
<1>20. CASE OnConnected
  BY <1>20 DEF OnConnected
<1>21. CASE OnMessageArrived
  BY <1>21 DEF OnMessageArrived
<1>22. CASE ReconnectLoopTest
  BY <1>22 DEF ReconnectLoopTest
<1>23. CASE ReconnectWake
  BY <1>23 DEF ReconnectWake
<1>24. CASE ReconnectSkip
  BY <1>24 DEF ReconnectSkip
<1>25. CASE ReconnectStart
  BY <1>25 DEF ReconnectStart, RequestConnect
<1>26. CASE ReconnectAnswered
  BY <1>26 DEF ReconnectAnswered, Reconnected, ReconnectFails
<1>27. CASE ReconnectTimeout
  BY <1>27 DEF ReconnectTimeout
<1>28. CASE ReconnectCheck
  BY <1>28 DEF ReconnectCheck, Reconnected, ReconnectFails
<1>29. CASE ReconnectTried
  BY <1>29 DEF ReconnectTried
<1>30. CASE QueueLoopTest
  BY <1>30 DEF QueueLoopTest
<1>31. CASE QueueWaited
  BY <1>31 DEF QueueWaited
<1>32. CASE QueuePop
  BY <1>32 DEF QueuePop
<1>33. CASE QueueTest
  BY <1>33 DEF QueueTest
<1>34. CASE QueueSend
  BY <1>34 DEF QueueSend
<1>35. CASE PahoAccept
  BY <1>35 DEF PahoAccept, Answer
<1>36. CASE PahoRefuse
  BY <1>36 DEF PahoRefuse, Answer
<1>37. CASE PahoRetry
  BY <1>37 DEF PahoRetry
<1>38. CASE PahoLost
  BY <1>38 DEF PahoLost
<1>39. CASE PahoMessage
  BY <1>39 DEF PahoMessage
<1>40. CASE PahoDisconnect
  BY <1>40 DEF PahoDisconnect
<1>41. ASSUME NEW t \in Callers, NEW m \in Msgs, CallPublish(t, m)
       PROVE  ControlInv'
  BY <1>41 DEF CallPublish
<1>42. ASSUME NEW t \in Callers, Enqueue(t) PROVE ControlInv'
  BY <1>42 DEF Enqueue
<1>43. ASSUME NEW t \in Callers, Send(t) PROVE ControlInv'
  BY <1>43 DEF Send
<1>44. ASSUME NEW t \in Callers, CallSubscribe(t) PROVE ControlInv'
  BY <1>44 DEF CallSubscribe
<1>45. ASSUME NEW t \in Callers, SubscribeRefused(t) PROVE ControlInv'
  BY <1>45 DEF SubscribeRefused
<1>46. ASSUME NEW t \in Callers, SubscribeStart(t) PROVE ControlInv'
  BY <1>46 DEF SubscribeStart
<1>47. ASSUME NEW t \in Callers, SubscribeWaited(t) PROVE ControlInv'
  BY <1>47 DEF SubscribeWaited
<1>48. CASE UNCHANGED vars
  BY <1>48 DEF vars
<1> QED
  BY <1>1, <1>2, <1>3, <1>4, <1>5, <1>6, <1>7, <1>8, <1>9, <1>10, <1>11,
     <1>12, <1>13, <1>14, <1>15, <1>16, <1>17, <1>18, <1>19, <1>20, <1>21,
     <1>22, <1>23, <1>24, <1>25, <1>26, <1>27, <1>28, <1>29, <1>30, <1>31,
     <1>32, <1>33, <1>34, <1>35, <1>36, <1>37, <1>38, <1>39, <1>40, <1>41,
     <1>42, <1>43, <1>44, <1>45, <1>46, <1>47, <1>48
  DEF Next, Connect, Disconnect, Destroy, Callback, ReconnectThread,
      QueueThread, Paho, Publish, Subscribe


LEMMA ControlInit == Init => ControlInv
BY ThreadsAssumption
DEF Init, ControlInv, MutexHeld, Stopped, WorkersJoined, StateOwned,
    ToldTruth, Callers, Free, Rc, Disconnecting

LEMMA ControlInvariant == Spec => [](TypeOK /\ ControlInv)
<1>1. TypeOK /\ ControlInv /\ [Next]_vars => ControlInv'
  BY ControlStep
<1> QED
  BY ControlInit, <1>1, TypeCorrect, PTL DEF Spec

\* stateMutex_ is held across a wait only by the thread that waits under it.
THEOREM MutexIsHeld == Spec => []MutexHeld
<1>1. ControlInv => MutexHeld
  BY DEF ControlInv
<1> QED
  BY <1>1, ControlInvariant, PTL

\* A client that has been stopped has no thread of its own left.
THEOREM WorkersAreJoined == Spec => []WorkersJoined
<1>1. ControlInv => WorkersJoined
  BY DEF ControlInv
<1> QED
  BY <1>1, ControlInvariant, PTL

\* Disconnecting belongs to disconnect(), Connecting to the attempt.
THEOREM StateIsOwned == Spec => []StateOwned
<1>1. ControlInv => StateOwned
  BY DEF ControlInv
<1> QED
  BY <1>1, ControlInvariant, PTL

\* The application is never left believing in a connection that the client
\* has given up.
THEOREM ToldIsTrue == Spec => []ToldTruth
<1>1. ControlInv => ToldTruth
  BY DEF ControlInv
<1> QED
  BY <1>1, ControlInvariant, PTL

-----------------------------------------------------------------------------
(* Messages                                                                *)

\* A message is in one place at a time: in the hands of one caller, of the
\* queue thread, or once in the queue; and its fate says which.

OutboxInv ==
  /\ \A t \in Callers :
       arg[t] # NoMsg => /\ fate[arg[t]] = "offered"
                         /\ \A u \in Callers \ {t} : arg[u] # arg[t]
  /\ held # NoMsg => fate[held] = "queued"
  /\ \A i \in 1..Len(queue) :
       /\ fate[queue[i]] = "queued"
       /\ queue[i] # held
       /\ \A j \in 1..Len(queue) : j # i => queue[j] # queue[i]

\* The steps that have nothing to do with messages.
OutboxIdle ==
  \/ Connect \/ Disconnect \/ Destroy
  \/ \E t \in Callers : Subscribe(t)
  \/ Callback \/ ReconnectThread \/ QueueLoopTest \/ QueueWaited \/ Paho

LEMMA IdleOutbox == OutboxIdle => UNCHANGED outbox
<1>1. Connect => UNCHANGED outbox
  BY DEF Connect, CallConnect, ConnectRefused, ConnectThrows, ConnectStart,
         ConnectAnswered, ConnectTimeout, ConnectCheck, ConnectCompletes, outbox
<1>2. Disconnect => UNCHANGED outbox
  BY DEF Disconnect, CallDisconnect, DisconnectEarlyReturn, DisconnectStart,
         JoinQueueThread, JoinReconnectThread, DisconnectRequest,
         DisconnectWaited, Disconnected, TellDisconnected
<1>3. Destroy => UNCHANGED outbox
  BY DEF Destroy, CallDestructor, DestroyMembers
<1>4. ASSUME NEW t \in Callers PROVE Subscribe(t) => UNCHANGED outbox
  BY DEF Subscribe, CallSubscribe, SubscribeRefused, SubscribeStart,
         SubscribeWaited
<1>5. Callback => UNCHANGED outbox
  BY DEF Callback, OnConnectionLost, OnConnected, OnMessageArrived
<1>6. ReconnectThread => UNCHANGED outbox
  BY DEF ReconnectThread, ReconnectLoopTest, ReconnectWake, ReconnectSkip,
         ReconnectStart, ReconnectAnswered, ReconnectTimeout, ReconnectCheck,
         ReconnectTried
<1>7. QueueLoopTest \/ QueueWaited => UNCHANGED outbox
  BY DEF QueueLoopTest, QueueWaited
<1>8. Paho => UNCHANGED outbox
  BY DEF Paho, PahoAccept, PahoRefuse, PahoRetry, PahoLost, PahoMessage,
         PahoDisconnect
<1> QED
  BY <1>1, <1>2, <1>3, <1>4, <1>5, <1>6, <1>7, <1>8 DEF OutboxIdle

LEMMA OutboxCases ==
  ASSUME [Next]_vars
  PROVE  \/ UNCHANGED outbox
         \/ \E t \in Callers : Publish(t)
         \/ QueuePop \/ QueueTest \/ QueueSend
<1>1. CASE UNCHANGED vars
  BY <1>1 DEF vars
<1>2. CASE Next
  BY <1>2, IdleOutbox DEF Next, QueueThread, OutboxIdle
<1> QED
  BY <1>1, <1>2

\* OutboxInv is inductive under the type invariant.
LEMMA OutboxStep ==
  ASSUME TypeOK, TypeOK', OutboxInv, [Next]_vars
  PROVE  OutboxInv'
<1> USE MsgsAssumption DEF TypeOK, CallersOK, WorkersOK, OutboxInv
<1>1. CASE UNCHANGED outbox
  BY <1>1 DEF outbox
<1>2. ASSUME NEW t \in Callers, NEW m \in Msgs, CallPublish(t, m)
      PROVE  OutboxInv'
  BY <1>2 DEF CallPublish, Settled
<1>3. ASSUME NEW t \in Callers, Enqueue(t) PROVE OutboxInv'
  BY <1>3 DEF Enqueue
<1>4. ASSUME NEW t \in Callers, Send(t) PROVE OutboxInv'
  BY <1>4 DEF Send
<1>5. CASE QueuePop
  <2>1. CASE queue = <<>>
    BY <1>5, <2>1 DEF QueuePop
  <2>2. CASE queue # <<>>
    <3>1. /\ held' = Head(queue) /\ queue' = Tail(queue)
          /\ arg' = arg /\ fate' = fate
      BY <1>5, <2>2 DEF QueuePop
    <3>2. /\ Len(queue') = Len(queue) - 1 /\ Len(queue) \in Nat \ {0}
          /\ \A i \in 1..Len(queue') : queue'[i] = queue[i + 1]
      BY <2>2, <3>1, HeadTailProperties, EmptySeq
    <3>3. held' = queue[1]
      BY <2>2, <3>1
    <3> QED
      BY <3>1, <3>2, <3>3
  <2> QED
    BY <2>1, <2>2
<1>6. CASE QueueTest
  BY <1>6 DEF QueueTest
<1>7. CASE QueueSend
  BY <1>7 DEF QueueSend
<1> QED
  BY <1>1, <1>2, <1>3, <1>4, <1>5, <1>6, <1>7, OutboxCases DEF Publish

LEMMA OutboxRefined ==
  ASSUME TypeOK, OutboxInv, [Next]_vars
  PROVE  [Outbox!Next]_<<Pending, FateSeen>>
<1> USE MsgsAssumption
    DEF TypeOK, CallersOK, WorkersOK, OutboxInv, Pending, FateSeen
<1>1. CASE UNCHANGED outbox
  BY <1>1 DEF outbox
<1>2. ASSUME NEW t \in Callers, NEW m \in Msgs, CallPublish(t, m)
      PROVE  [Outbox!Next]_<<Pending, FateSeen>>
  <2>1. UNCHANGED Pending
    BY <1>2 DEF CallPublish
  <2>2. fate' = [fate EXCEPT ![m] = "offered"]
    BY <1>2 DEF CallPublish
  <2>3. CASE fate[m] = "fresh"
    BY <2>1, <2>2, <2>3
  <2>4. CASE Republish /\ fate[m] \in Settled
    <3>1. FateSeen[m] \in Outbox!Outcome
      BY <2>4 DEF Settled, Outbox!Outcome
    <3>2. FateSeen' = [FateSeen EXCEPT ![m] = "fresh"]
      BY <2>2
    <3>3. Outbox!GiveAgain(m)
      BY <2>1, <2>4, <3>1, <3>2 DEF Outbox!GiveAgain
    <3> QED
      BY <3>3 DEF Outbox!Next
  <2> QED
    BY <1>2, <2>3, <2>4 DEF CallPublish
<1>3. ASSUME NEW t \in Callers, Enqueue(t) PROVE Outbox!Next
  <2>0. arg[t] \in Msgs /\ fate[arg[t]] = "offered"
    BY <1>3 DEF Enqueue
  <2>1. Pending' = Append(Pending, arg[t])
    <3>1. queue' = Append(queue, arg[t]) /\ held' = held
      BY <1>3 DEF Enqueue
    <3>2. CASE held = NoMsg
      BY <2>0, <3>1, <3>2, AppendAfter
    <3>3. CASE held # NoMsg
      BY <2>0, <3>1, <3>3, AppendAfter
    <3> QED
      BY <3>2, <3>3
  <2>2. FateSeen' = [FateSeen EXCEPT ![arg[t]] = "queued"]
    BY <1>3, <2>0 DEF Enqueue
  <2> QED
    BY <2>0, <2>1, <2>2 DEF Outbox!Accept, Outbox!Next
<1>4. ASSUME NEW t \in Callers, Send(t) PROVE Outbox!Next
  <2>0. arg[t] \in Msgs /\ fate[arg[t]] = "offered"
    BY <1>4 DEF Send
  <2>1. Pending' = Pending
    BY <1>4 DEF Send
  <2>2. PICK f \in {"sent", "failed"} : fate' = [fate EXCEPT ![arg[t]] = f]
    BY <1>4 DEF Send
  <2>3. FateSeen' = [FateSeen EXCEPT ![arg[t]] = f]
    BY <2>0, <2>2
  <2> QED
    BY <2>0, <2>1, <2>2, <2>3 DEF Outbox!Direct, Outbox!Next
<1>5. CASE QueuePop
  <2>1. CASE queue = <<>>
    BY <1>5, <2>1 DEF QueuePop
  <2>2. CASE queue # <<>>
    <3>1. /\ held = NoMsg
          /\ held' = Head(queue) /\ held' \in Msgs /\ queue' = Tail(queue)
          /\ fate' = fate
      BY <1>5, <2>2, HeadTailProperties DEF QueuePop
    <3>2. Pending' = Pending
      BY <2>2, <3>1, Uncons, ConcatEmptySeq
    <3> QED
      BY <3>1, <3>2
  <2> QED
    BY <2>1, <2>2 
<1>6. ASSUME NEW f \in {"sent", "failed", "dropped"},
             held # NoMsg, held' = NoMsg,
             fate' = [fate EXCEPT ![held] = f], queue' = queue
      PROVE  Outbox!Settle
  <2>1. Pending # <<>> /\ Head(Pending) = held /\ Tail(Pending) = queue
    BY <1>6, Cons
  <2>2. Pending' = queue
    BY <1>6, ConcatEmptySeq
  <2>3. FateSeen' = [FateSeen EXCEPT ![held] = f]
    BY <1>6
  <2> QED
    BY <1>6, <2>1, <2>2, <2>3 DEF Outbox!Settle, Outbox!Outcome
<1>7. CASE QueueTest
  <2>1. held # NoMsg
    BY <1>7 DEF QueueTest
  <2>2. CASE IsConnected
    BY <1>7, <2>2 DEF QueueTest
  <2>3. CASE ~IsConnected
    <3>1. /\ held' = NoMsg /\ queue' = queue
          /\ fate' = [fate EXCEPT ![held] = "dropped"]
      BY <1>7, <2>3 DEF QueueTest
    <3>2. Outbox!Settle
      BY <1>6, <2>1, <3>1
    <3> QED
      BY <3>2 DEF Outbox!Next
  <2> QED
    BY <2>2, <2>3
<1>8. CASE QueueSend
  <2>1. held # NoMsg /\ held' = NoMsg /\ queue' = queue
    BY <1>8 DEF QueueSend
  <2>2. PICK f \in {"sent", "failed"} : fate' = [fate EXCEPT ![held] = f]
    BY <1>8 DEF QueueSend
  <2>3. Outbox!Settle
    BY <1>6, <2>1, <2>2
  <2> QED
    BY <2>3 DEF Outbox!Next
<1> QED
  BY <1>1, <1>2, <1>3, <1>4, <1>5, <1>7, <1>8, OutboxCases DEF Publish

LEMMA OutboxInit == Init => OutboxInv /\ Outbox!Init
BY EmptySeq, ConcatEmptySeq
DEF Init, OutboxInv, Outbox!Init, Pending, FateSeen

\* publish() and the queue thread dispose of each message at most once, each
\* time it is published, and of queued ones in the order in which they were
\* accepted.
THEOREM OutboxImplemented == Spec => ImplementsOutbox
<1>1. TypeOK /\ TypeOK' /\ OutboxInv /\ [Next]_vars => OutboxInv'
  BY OutboxStep
<1>2. TypeOK /\ OutboxInv /\ [Next]_vars
        => [Outbox!Next]_<<Pending, FateSeen>>
  BY OutboxRefined
<1> QED
  BY OutboxInit, <1>1, <1>2, TypeCorrect, PTL
  DEF Spec, ImplementsOutbox, Outbox!Spec
=============================================================================
