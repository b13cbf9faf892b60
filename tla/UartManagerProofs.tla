-------------------------- MODULE UartManagerProofs --------------------------
(***************************************************************************)
(* Theorems about UartManager, for any number of threads, devices, ids and *)
(* descriptors.                                                            *)
(***************************************************************************)
EXTENDS UartManager, TLAPS, FiniteSetTheorems, SequenceTheorems

\* The ids are finitely many, so that those in use can be counted.
LEMMA CountPresent == Cardinality(Present) \in Nat
<1>1. IsFiniteSet(Ids)
  BY BoundsAssumption, FS_Interval DEF Ids
<1> QED
  BY <1>1, FS_Subset, FS_CardinalityType DEF Present

LEMMA FunctionIsSequence ==
  ASSUME NEW S, NEW n \in Nat, NEW f \in [1..n -> S]
  PROVE  f \in Seq(S)
BY SeqDef

-----------------------------------------------------------------------------
(* Types                                                                   *)

LEMMA CloseTyped ==
  ASSUME TypeOK, NEW S \in SUBSET Present, CloseUarts(S), nextId' = nextId
  PROVE  /\ fd' \in [Ids -> Fds \cup {NoFd}]
         /\ device' \in [Ids -> Ports \cup {NoPort}]
         /\ port' \in [Ids -> Ports \cup {NoPort}]
         /\ opened' \in [Fds -> Ports \cup {NoPort}]
         /\ \A i \in Ids : /\ (fd'[i] = NoFd) = (device'[i] = NoPort)
                           /\ (fd'[i] = NoFd) = (port'[i] = NoPort)
         /\ Present' = Present \ S
<1> USE DEF TypeOK, CloseUarts
<1>1. /\ fd' \in [Ids -> Fds \cup {NoFd}]
      /\ device' \in [Ids -> Ports \cup {NoPort}]
      /\ port' \in [Ids -> Ports \cup {NoPort}]
  OBVIOUS
<1>2. opened' \in [Fds -> Ports \cup {NoPort}]
  OBVIOUS
<1>3. \A i \in Ids : /\ (fd'[i] = NoFd) = (device'[i] = NoPort)
                     /\ (fd'[i] = NoFd) = (port'[i] = NoPort)
  OBVIOUS
<1>4. Present' = Present \ S
  BY DEF Present
<1> QED
  BY <1>1, <1>2, <1>3, <1>4

\* What the second loop has still to visit is registered.
Dispatching == poller = "dispatch" => todo \subseteq Present

LEMMA TypeStep ==
  ASSUME TypeOK, Dispatching, PollerJoined, [Next]_vars
  PROVE  TypeOK'
<1> USE ThreadsAssumption, PortsAssumption, BoundsAssumption
<1> USE DEF TypeOK, registry, round, kernel, Callers, Free, Poller, Goto,
        CanCall
<1>1. ASSUME NEW t \in Callers, NEW p \in Ports, NEW d \in Ports,
             AddUart(t, p, d)
      PROVE  TypeOK'
  <2>1. PICK f \in Fds : /\ opened' = [opened EXCEPT ![f] = d]
                         /\ fd' = [fd EXCEPT ![nextId] = f]
    BY <1>1 DEF AddUart, FreeFds
  <2>2. nextId \in Ids /\ nextId' = nextId + 1 /\ nextId' \in 1..MaxId + 1
    BY <1>1 DEF AddUart, Ids
  <2>3. f # NoFd /\ d # NoPort /\ p # NoPort
    BY DEF Fds, NoFd
  <2>4. /\ fd' \in [Ids -> Fds \cup {NoFd}]
        /\ device' \in [Ids -> Ports \cup {NoPort}]
        /\ port' \in [Ids -> Ports \cup {NoPort}]
        /\ opened' \in [Fds -> Ports \cup {NoPort}]
    BY <1>1, <2>1 DEF AddUart
  <2>5. \A i \in Ids : /\ (fd'[i] = NoFd) = (device'[i] = NoPort)
                       /\ (fd'[i] = NoFd) = (port'[i] = NoPort)
    BY <1>1, <2>1, <2>2, <2>3 DEF AddUart
  <2>6. \A i \in Present' : i < nextId'
    BY <1>1, <2>1, <2>2 DEF Present, Ids
  <2> QED
    BY <1>1, <2>2, <2>4, <2>5, <2>6 DEF AddUart
<1>2. ASSUME NEW S \in SUBSET Present, CloseUarts(S), nextId' = nextId,
             UNCHANGED <<mutex, polling, poller, round, waiting, gone>>,
             pc' \in [Callers -> {"idle", "write", "join", "removeAll"}],
             life' \in {"alive", "dying", "gone"}
      PROVE  TypeOK'
  BY <1>2, CloseTyped
<1>3. ASSUME NEW t \in Callers, NEW id \in Ids, RemoveUart(t, id)
      PROVE  TypeOK'
  BY <1>2, <1>3 DEF RemoveUart
<1>4. ASSUME NEW t \in Callers, RemoveAll(t) PROVE TypeOK'
  BY <1>2, <1>4 DEF RemoveAll
<1>5. CASE DestroyUarts
  BY <1>2, <1>5 DEF DestroyUarts
<1>6. ASSUME NEW t \in Callers, NEW id \in Ids,
             ReadUart(t, id) \/ WriteUart(t, id)
      PROVE  TypeOK'
  BY <1>6 DEF ReadUart, WriteUart, Present
<1>7. ASSUME NEW t \in Callers, WriteUartDone(t) PROVE TypeOK'
  BY <1>7 DEF WriteUartDone, Present
<1>8. CASE StartPolling \/ StopPolling \/ Destroy \/ Join
  <2>1. CASE StartPolling
    <3>1. poller = "none"
      BY <2>1 DEF StartPolling, PollerJoined
    <3> QED
      BY <2>1, <3>1 DEF StartPolling, Present
  <2>2. CASE StopPolling
    <3>1. pc' \in [Callers -> {"idle", "write", "join", "removeAll"}]
      BY <2>2 DEF StopPolling
    <3>2. Present' = Present
      BY <2>2 DEF StopPolling, Present
    <3> QED
      BY <2>2, <3>1, <3>2 DEF StopPolling
  <2>3. CASE Destroy
    <3>1. pc' \in [Callers -> {"idle", "write", "join", "removeAll"}]
      BY <2>3 DEF Destroy
    <3>2. Present' = Present
      BY <2>3 DEF Destroy, Present
    <3> QED
      BY <2>3, <3>1, <3>2 DEF Destroy
  <2>4. CASE Join
    BY <2>4 DEF Join, Present
  <2> QED
    BY <1>8, <2>1, <2>2, <2>3, <2>4
<1>9. CASE PollTest \/ PollSleep
  BY <1>9 DEF PollTest, PollSleep, Present
<1>10. CASE Snapshot
  <2>1. PICK ids \in [1..Cardinality(Present) -> Present] :
          pollfds' = [k \in DOMAIN ids |-> [fd |-> fd[ids[k]], in |-> FALSE]]
    <3>1. PICK ids \in Listings(Present) :
            pollfds' = [k \in DOMAIN ids |-> [fd |-> fd[ids[k]], in |-> FALSE]]
      BY <1>10 DEF Snapshot
    <3>2. ids \in [1..Cardinality(Present) -> Present]
      BY DEF Listings
    <3> QED
      BY <3>1, <3>2
  <2>2. \A i \in Present : fd[i] \in Fds
    BY DEF Present
  <2>3. pollfds' \in [1..Cardinality(Present) -> [fd : Fds, in : BOOLEAN]]
    BY <2>1, <2>2
  <2>4. pollfds' \in Seq([fd : Fds, in : BOOLEAN])
    BY <2>3, CountPresent, FunctionIsSequence
  <2>5. Len(pollfds') \in Nat
    BY <2>4, LenProperties
  <2>6. idx' = 1 /\ idx' \in 1..Len(pollfds') + 1
    BY <1>10, <2>5 DEF Snapshot
  <2> QED
    BY <1>10, <2>4, <2>6 DEF Snapshot, Present
<1>11. CASE Poll
  <2>1. DOMAIN pollfds = 1..Len(pollfds) /\ Len(pollfds) \in Nat
    OBVIOUS
  <2>2. ASSUME NEW k \in 1..Len(pollfds)
        PROVE  /\ pollfds[k] \in [fd : Fds, in : BOOLEAN]
               /\ Readable(pollfds[k].fd) \in BOOLEAN
    <3>1. pollfds[k] \in [fd : Fds, in : BOOLEAN]
      BY ElementOfSeq
    <3>2. Readable(pollfds[k].fd) \in BOOLEAN
      BY DEF Readable
    <3> QED
      BY <3>1, <3>2
  <2>3. pollfds' = [k \in 1..Len(pollfds) |->
                      [pollfds[k] EXCEPT !.in = Readable(pollfds[k].fd)]]
    BY <1>11, <2>1 DEF Poll
  <2>4. pollfds' \in [1..Len(pollfds) -> [fd : Fds, in : BOOLEAN]]
    BY <2>2, <2>3
  <2>5. pollfds' \in Seq([fd : Fds, in : BOOLEAN])
    BY <2>1, <2>4, FunctionIsSequence
  <2>6. Len(pollfds') \in Nat
    BY <2>5, LenProperties
  <2>7. idx' = 1 /\ idx' \in 1..Len(pollfds') + 1
    BY <1>11, <2>6 DEF Poll
  <2> QED
    BY <1>11, <2>5, <2>7 DEF Poll, Present
<1>12. CASE DispatchStart
  <2>1. idx' \in 1..Len(pollfds') + 1
    BY <1>12, LenProperties DEF DispatchStart
  <2> QED
    BY <1>12, <2>1 DEF DispatchStart, Present
<1>13. CASE DispatchNext
  <2>1. PICK id \in todo : Dispatch(id) /\ todo' = todo \ {id}
    BY <1>13 DEF DispatchNext
  <2>2. waiting' \in SUBSET Ports /\ report' \in
          [id : Ids \cup {0}, port : Ports \cup {NoPort},
           kind : {"none", "data", "disconnected", "error"}]
    <3>1. CASE UNCHANGED <<waiting, report>>
      BY <3>1
    <3>2. CASE ReadAndReport(id, fd[id])
      <4>1. opened[fd[id]] \in Ports \cup {NoPort} /\ id \in Ids
        BY <1>13 DEF Dispatching, DispatchNext, Present
      <4>2. PICK k \in {"data", "disconnected", "error"} :
              report' = [id |-> id, kind |-> k, port |-> opened[fd[id]]]
        BY <3>2 DEF ReadAndReport
      <4> QED
        BY <3>2, <4>1, <4>2 DEF ReadAndReport
    <3> QED
      BY <2>1, <3>1, <3>2 DEF Dispatch
  <2>3. idx' \in 1..Len(pollfds') + 1
    BY <1>13, LenProperties DEF DispatchNext
  <2> QED
    BY <1>13, <2>1, <2>2, <2>3 DEF DispatchNext, Present
<1>14. CASE DispatchEnd
  <2>1. pollfds' = <<>> /\ idx' = 1
    BY <1>14 DEF DispatchEnd
  <2>2. Len(pollfds') = 0 /\ pollfds' \in Seq([fd : Fds, in : BOOLEAN])
    BY <2>1
  <2> QED
    BY <1>14, <2>1, <2>2 DEF DispatchEnd, NoReport, Present
<1>15. CASE Device
  BY <1>15 DEF Device, Arrive, Unplug, Present
<1>16. CASE UNCHANGED vars
  BY <1>16 DEF vars, Present
<1> QED
  BY <1>1, <1>3, <1>4, <1>5, <1>6, <1>7, <1>8, <1>9, <1>10, <1>11, <1>12,
     <1>13, <1>14, <1>15, <1>16 DEF Next, Call, Control, PollingThread

-----------------------------------------------------------------------------
(* The polling thread, the mutex and what it protects                      *)

\* Who waits for the polling thread has told it to stop.
Stopping == pc[Owner] \in {"join", "removeAll"} => ~polling

LEMMA PollerStep ==
  ASSUME TypeOK, PollerJoined, Stopping, [Next]_vars
  PROVE  PollerJoined' /\ Stopping'
<1> USE ThreadsAssumption
<1> USE DEF TypeOK, PollerJoined, Stopping, round, kernel, Callers, Goto,
        CanCall
<1>0. CASE UNCHANGED vars
  BY <1>0 DEF vars, registry, Present
<1>1. CASE life # "gone" /\ DestroyUarts
  <2>1. Present' = {}
    BY <1>1, CloseTyped DEF DestroyUarts
  <2> QED
    BY <1>1, <2>1 DEF DestroyUarts
<1>3. ASSUME life # "gone", NEW t \in Callers, Call(t)
      PROVE  PollerJoined' /\ Stopping'
  <2>1. CASE WriteUartDone(t)
    BY <1>3, <2>1 DEF WriteUartDone
  <2>2. ASSUME NEW id \in Ids, WriteUart(t, id)
        PROVE  PollerJoined' /\ Stopping'
    BY <1>3, <2>2 DEF WriteUart
  <2>3. CASE UNCHANGED <<pc, polling, poller, life>>
    BY <1>3, <2>3
  <2> QED
    BY <1>3, <2>1, <2>2, <2>3
    DEF Call, AddUart, RemoveUart, RemoveAll, ReadUart
<1>4. CASE life # "gone" /\ (StartPolling \/ StopPolling \/ Destroy \/ Join)
  <2>1. CASE StartPolling
    BY <1>4, <2>1 DEF StartPolling
  <2>2. CASE StopPolling
    BY <1>4, <2>2 DEF StopPolling
  <2>3. CASE Destroy
    BY <1>4, <2>3 DEF Destroy
  <2>4. CASE Join
    BY <1>4, <2>4 DEF Join
  <2> QED
    BY <1>4, <2>1, <2>2, <2>3, <2>4
<1>5. CASE life # "gone" /\ PollingThread
  BY <1>5 DEF PollingThread, PollTest, Snapshot, Poll, DispatchStart,
     DispatchNext, DispatchEnd, PollSleep
<1>6. CASE life # "gone" /\ Device
  BY <1>6 DEF Device, Arrive, Unplug
<1> QED
  BY <1>0, <1>1, <1>3, <1>4, <1>5, <1>6 DEF Next, Control

LEMMA MutexStep ==
  ASSUME TypeOK, MutexHeld, PollerJoined, Stopping, [Next]_vars
  PROVE  MutexHeld'
<1> USE ThreadsAssumption
<1> USE DEF TypeOK, MutexHeld, registry, round, kernel, Callers, Free, Poller,
        Goto, CanCall
<1>1. ASSUME NEW t \in Callers, Call(t) PROVE MutexHeld'
  <2>1. CASE WriteUartDone(t)
    BY <1>1, <2>1 DEF WriteUartDone
  <2>2. ASSUME NEW id \in Ids, WriteUart(t, id) PROVE MutexHeld'
    BY <1>1, <2>2 DEF WriteUart
  <2>3. CASE UNCHANGED <<mutex, pc, poller>>
    BY <2>3
  <2> QED
    BY <1>1, <2>1, <2>2, <2>3 DEF Call, AddUart, RemoveUart, RemoveAll, ReadUart
<1>2. CASE Control
  <2>1. CASE StartPolling
    BY <2>1 DEF StartPolling, PollerJoined
  <2>2. CASE StopPolling
    BY <2>2 DEF StopPolling
  <2>3. CASE Destroy
    BY <2>3 DEF Destroy
  <2>4. CASE Join
    BY <2>4 DEF Join
  <2>5. CASE DestroyUarts
    BY <2>5 DEF DestroyUarts
  <2> QED
    BY <1>2, <2>1, <2>2, <2>3, <2>4, <2>5 DEF Control
<1>3. CASE PollingThread
  BY <1>3 DEF PollingThread, PollTest, Snapshot, Poll, DispatchStart,
     DispatchNext, DispatchEnd, PollSleep
<1>4. CASE Device \/ UNCHANGED vars
  BY <1>4 DEF Device, Arrive, Unplug, vars
<1> QED
  BY <1>1, <1>2, <1>3, <1>4 DEF Next

\* Nobody touches the registry while the second loop holds the mutex.
LEMMA DispatchingStep ==
  ASSUME TypeOK, MutexHeld, Dispatching, [Next]_vars
  PROVE  Dispatching'
<1> USE DEF Dispatching, MutexHeld, registry, round, kernel, Free, Poller
<1>1. CASE fd' # fd
  BY <1>1 DEF Next, Call, Control, PollingThread, Device, vars, AddUart,
     RemoveUart, RemoveAll, ReadUart, WriteUart, WriteUartDone, StartPolling,
     StopPolling, Destroy, Join, DestroyUarts, PollTest, Snapshot, Poll,
     DispatchStart, DispatchNext, DispatchEnd, PollSleep, Arrive, Unplug
<1>2. CASE fd' = fd
  <2>1. Present' = Present
    BY <1>2 DEF Present
  <2>2. CASE DispatchStart \/ DispatchNext
    BY <2>1, <2>2 DEF DispatchStart, DispatchNext
  <2>3. CASE UNCHANGED <<poller, todo>> \/ poller' # "dispatch"
    BY <2>1, <2>3
  <2> QED
    BY <2>2, <2>3 DEF Next, Call, Control, PollingThread, Device, vars, AddUart,
       RemoveUart, RemoveAll, ReadUart, WriteUart, WriteUartDone, StartPolling,
       StopPolling, Destroy, Join, DestroyUarts, PollTest, Snapshot, Poll,
       DispatchEnd, PollSleep, Arrive, Unplug
<1> QED
  BY <1>1, <1>2

ControlInv == TypeOK /\ MutexHeld /\ Dispatching /\ PollerJoined /\ Stopping

LEMMA ControlInitial == Init => ControlInv
<1> SUFFICES ASSUME Init PROVE ControlInv
  OBVIOUS
<1> USE ThreadsAssumption, PortsAssumption, BoundsAssumption
    DEF Init, Callers, Free, Poller
<1>1. Present = {}
  BY DEF Present
<1>2. TypeOK
  <2>1. pollfds \in Seq([fd : Fds, in : BOOLEAN])
    BY EmptySeq
  <2>2. report \in [id : Ids \cup {0}, port : Ports \cup {NoPort},
                   kind : {"none", "data", "disconnected", "error"}]
    BY DEF NoReport
  <2>3. nextId \in 1..MaxId + 1
    OBVIOUS
  <2>4. idx = 1 /\ Len(pollfds) = 0
    OBVIOUS
  <2>5. idx \in 1..Len(pollfds) + 1
    BY <2>4
  <2> QED
    BY <1>1, <2>1, <2>2, <2>3, <2>4, <2>5 DEF TypeOK
<1> QED
  BY <1>1, <1>2
  DEF ControlInv, MutexHeld, Dispatching, PollerJoined, Stopping

LEMMA ControlStep == ControlInv /\ [Next]_vars => ControlInv'
BY TypeStep, PollerStep, MutexStep, DispatchingStep DEF ControlInv

\* The type invariant of the manager.
THEOREM TypeCorrect == Spec => []TypeOK
<1>1. ControlInv => TypeOK
  BY DEF ControlInv
<1> QED
  BY <1>1, ControlInitial, ControlStep, PTL DEF Spec

\* A thread that writes and the polling thread's second loop exclude each
\* other, and everything else that takes mutex_.
THEOREM MutexIsHeld == Spec => []MutexHeld
<1>1. ControlInv => MutexHeld
  BY DEF ControlInv
<1> QED
  BY <1>1, ControlInitial, ControlStep, PTL DEF Spec

\* The polling thread exists while polling goes on and until it is joined.
THEOREM PollerIsJoined == Spec => []PollerJoined
<1>1. ControlInv => PollerJoined
  BY DEF ControlInv
<1> QED
  BY <1>1, ControlInitial, ControlStep, PTL DEF Spec

-----------------------------------------------------------------------------
(* Descriptors                                                             *)

LEMMA CloseKeepsOwned ==
  ASSUME TypeOK, DescriptorsOwned, NEW S \in SUBSET Present, CloseUarts(S),
         nextId' = nextId
  PROVE  DescriptorsOwned'
<1> USE DEF TypeOK, DescriptorsOwned
<1>1. Present' = Present \ S
  BY CloseTyped
<1>2. \A i \in Present' : i \in Ids /\ fd'[i] = fd[i] /\ device'[i] = device[i]
  BY <1>1 DEF CloseUarts, Present
<1>3. ASSUME NEW i \in Present' PROVE opened'[fd'[i]] = device'[i]
  <2>1. fd[i] \in Fds /\ \A j \in S : fd[j] # fd[i]
    BY <1>1, <1>2 DEF Present
  <2> QED
    BY <1>1, <1>2, <2>1 DEF CloseUarts
<1>4. \A i, j \in Present' : i # j => fd'[i] # fd'[j]
  BY <1>1, <1>2
<1>5. ASSUME NEW f \in Fds, opened'[f] # NoPort
      PROVE  \E i \in Present' : fd'[i] = f
  <2>1. opened[f] # NoPort /\ \A i \in S : fd[i] # f
    BY <1>5 DEF CloseUarts
  <2> QED
    BY <1>1, <1>2, <2>1
<1> QED
  BY <1>3, <1>4, <1>5

LEMMA OwnedStep ==
  ASSUME TypeOK, DescriptorsOwned, [Next]_vars
  PROVE  DescriptorsOwned'
<1> USE DEF registry, round, kernel
<1>1. ASSUME NEW t \in Callers, NEW p \in Ports, NEW d \in Ports,
             AddUart(t, p, d)
      PROVE  DescriptorsOwned'
  <2> USE PortsAssumption DEF TypeOK, DescriptorsOwned
  <2>1. PICK f \in Fds : /\ opened[f] = NoPort
                         /\ opened' = [opened EXCEPT ![f] = d]
                         /\ fd' = [fd EXCEPT ![nextId] = f]
    BY <1>1 DEF AddUart, FreeFds
  <2>2. /\ nextId \in Ids /\ nextId \notin Present /\ f # NoFd
        /\ device' = [device EXCEPT ![nextId] = d]
    BY <1>1, BoundsAssumption DEF AddUart, Ids, Fds, NoFd
  <2>3. Present' = Present \cup {nextId}
    BY <2>1, <2>2 DEF Present
  <2>4. ASSUME NEW i \in Present
        PROVE  /\ fd[i] \in Fds /\ fd[i] # f
               /\ fd'[i] = fd[i] /\ device'[i] = device[i]
    <3>1. i \in Ids /\ i # nextId /\ fd[i] \in Fds /\ device[i] # NoPort
      BY <2>2 DEF Present
    <3> QED
      BY <2>1, <2>2, <3>1
  <2>5. fd'[nextId] = f /\ device'[nextId] = d
    BY <2>1, <2>2
  <2>6. \A i \in Present' : opened'[fd'[i]] = device'[i]
    BY <2>1, <2>3, <2>4, <2>5
  <2>7. \A i, j \in Present' : i # j => fd'[i] # fd'[j]
    BY <2>3, <2>4, <2>5
  <2>8. \A g \in Fds : opened'[g] # NoPort => \E i \in Present' : fd'[i] = g
    BY <2>1, <2>3, <2>4, <2>5
  <2> QED
    BY <2>6, <2>7, <2>8
<1>2. ASSUME NEW t \in Callers, NEW id \in Ids, RemoveUart(t, id)
      PROVE  DescriptorsOwned'
  BY <1>2, CloseKeepsOwned DEF RemoveUart
<1>3. ASSUME NEW t \in Callers, RemoveAll(t) PROVE DescriptorsOwned'
  BY <1>3, CloseKeepsOwned DEF RemoveAll
<1>4. CASE DestroyUarts
  BY <1>4, CloseKeepsOwned DEF DestroyUarts
<1>5. CASE UNCHANGED <<fd, device, opened>>
  BY <1>5 DEF DescriptorsOwned, Present
<1> QED
  BY <1>1, <1>2, <1>3, <1>4, <1>5
  DEF Next, Call, Control, PollingThread, Device, vars, ReadUart, WriteUart,
      WriteUartDone, StartPolling, StopPolling, Destroy, Join, PollTest,
      Snapshot, Poll, DispatchStart, DispatchNext, DispatchEnd, PollSleep,
      Arrive, Unplug

OwnedInv == ControlInv /\ DescriptorsOwned

LEMMA OwnedInitial == Init => OwnedInv
<1> SUFFICES ASSUME Init PROVE OwnedInv
  OBVIOUS
<1>1. Present = {} /\ \A f \in Fds : opened[f] = NoPort
  BY DEF Init, Present
<1> QED
  BY <1>1, ControlInitial DEF OwnedInv, DescriptorsOwned

LEMMA OwnedInvStep == OwnedInv /\ [Next]_vars => OwnedInv'
BY ControlStep, OwnedStep DEF OwnedInv, ControlInv

\* No descriptor is shared or leaked, and each is open on the device its Uart
\* was opened for.
THEOREM DescriptorsAreOwned == Spec => []DescriptorsOwned
<1>1. OwnedInv => DescriptorsOwned
  BY DEF OwnedInv
<1> QED
  BY <1>1, OwnedInitial, OwnedInvStep, PTL DEF Spec

\* A callback is about a registered Uart, and the device read is its own: the
\* second loop reads the descriptors of now, whatever it has polled.
THEOREM CallbacksAreAttributed == Spec => CallbacksAttributed
<1>1. ASSUME OwnedInv, [Next]_vars, report' \notin {report, NoReport}
      PROVE  report'.id \in Present /\ report'.port = device[report'.id]
  <2>1. CASE DispatchNext
    <3>1. PICK id \in todo : Dispatch(id)
      BY <2>1 DEF DispatchNext
    <3>2. id \in Present /\ opened[fd[id]] = device[id]
      BY <1>1, <2>1, <3>1
      DEF OwnedInv, ControlInv, Dispatching, DispatchNext, DescriptorsOwned
    <3>3. PICK k : report' = [id |-> id, kind |-> k, port |-> opened[fd[id]]]
      BY <1>1, <3>1 DEF Dispatch, ReadAndReport
    <3> QED
      BY <3>2, <3>3
  <2>2. CASE ~DispatchNext
    <3>1. report' \in {report, NoReport}
      BY <1>1, <2>2
      DEF Next, Call, Control, PollingThread, Device, vars, round, AddUart,
          RemoveUart, RemoveAll, ReadUart, WriteUart, WriteUartDone,
          StartPolling, StopPolling, Destroy, Join, DestroyUarts, PollTest,
          Snapshot, Poll, DispatchStart, DispatchEnd, PollSleep, Arrive, Unplug
    <3> QED
      BY <1>1, <3>1
  <2> QED
    BY <2>1, <2>2
<1>2. OwnedInv /\ [Next]_vars =>
        [report' \notin {report, NoReport} =>
           /\ report'.id \in Present
           /\ report'.port = device[report'.id]]_vars
  BY <1>1
<1> QED
  BY <1>2, OwnedInitial, OwnedInvStep, PTL DEF Spec, CallbacksAttributed
=============================================================================
