----------------------------- MODULE UartManager -----------------------------
(***************************************************************************)
(* The class UartManager: application threads that add, remove, read and   *)
(* write serial ports, one of which starts and stops polling and destroys  *)
(* the manager, and the polling thread that dispatches the callbacks.      *)
(*                                                                         *)
(* A call that does all its work under mutex_ without waiting is one step. *)
(* The polling thread's round is four: pollUarts() takes its snapshot      *)
(* under mutex_, polls without it, and takes it again to read the ports,   *)
(* one step each.  The kernel is modelled by what the class relies on: the *)
(* lowest free descriptor, readiness, and reads of a port opened with      *)
(* VMIN = VTIME = 0, which return 0 when there is nothing to read.         *)
(***************************************************************************)
EXTENDS Naturals, Sequences, FiniteSets

CONSTANTS
  Owner,   \* the thread that starts and stops polling, and destroys
  Users,   \* other threads
  Ports,   \* the serial devices
  NoPort,  \* no device
  MaxId,   \* bound on the ids that addUart() gives
  MaxFd    \* the descriptors the process may have open

Callers == Users \cup {Owner}
Ids     == 1..MaxId
Fds     == 1..MaxFd
NoFd    == 0
Free    == "free"      \* mutex_ is not held
Poller  == "poller"    \* the polling thread, as a holder

ASSUME ThreadsAssumption ==
  /\ Owner \notin Users
  /\ Free \notin Callers /\ Poller \notin Callers
ASSUME PortsAssumption == NoPort \notin Ports
ASSUME BoundsAssumption == MaxId \in Nat /\ MaxFd \in Nat

VARIABLES
  fd,        \* uarts_: the descriptor of each Uart, NoFd if there is none
  device,    \* uarts_: the device of each Uart, its config_.port
  port,      \* uart_ports_: the name each was registered under
  nextId,    \* next_id_
  mutex,     \* holder of mutex_ across steps, or Free
  pc,        \* what each application thread is doing
  polling,   \* polling_
  poller,    \* polling_thread_; "none" is not joinable
  pollfds,   \* what pollUarts() polls: descriptors, and which have POLLIN
  todo,      \* the ids its second loop has still to visit
  idx,       \* and the index it has reached in pollfds
  report,    \* the last callback of the second loop that is running
  life,      \* the manager
  opened,    \* kernel: the device open on each descriptor
  waiting,   \* kernel: the devices with something to read
  gone       \* kernel: the devices that were unplugged

registry == <<fd, device, port, nextId>>
round    == <<pollfds, todo, idx, report>>
kernel   == <<opened, waiting, gone>>
vars     == <<registry, mutex, pc, polling, poller, round, life, kernel>>

NoReport == [id |-> 0, kind |-> "none", port |-> NoPort]

Init ==
  /\ fd = [i \in Ids |-> NoFd] /\ device = [i \in Ids |-> NoPort]
  /\ port = [i \in Ids |-> NoPort] /\ nextId = 1
  /\ mutex = Free
  /\ pc = [t \in Callers |-> "idle"]
  /\ polling = FALSE /\ poller = "none"
  /\ pollfds = <<>> /\ todo = {} /\ idx = 1
  /\ report = NoReport
  /\ life = "alive"
  /\ opened = [f \in Fds |-> NoPort]
  /\ waiting = {} /\ gone = {}

Present == {i \in Ids : fd[i] # NoFd}

Goto(t, l) == pc' = [pc EXCEPT ![t] = l]
CanCall(t) == life = "alive" /\ pc[t] = "idle"

-----------------------------------------------------------------------------
(* The registry                                                            *)

\* Opening a device takes the lowest free descriptor, and fails without one.
FreeFds == {f \in Fds : opened[f] = NoPort}

\* addUart(): what is opened is the port of the configuration, d, whatever
\* the name p.  Nothing is left of a port that does not open.
AddUart(t, p, d) ==
  /\ CanCall(t) /\ mutex = Free
  /\ nextId <= MaxId
  /\ d \notin gone
  /\ \E f \in FreeFds :
        /\ \A g \in FreeFds : f <= g
        /\ opened' = [opened EXCEPT ![f] = d]
        /\ fd' = [fd EXCEPT ![nextId] = f]
  /\ device' = [device EXCEPT ![nextId] = d]
  /\ port' = [port EXCEPT ![nextId] = p]
  /\ nextId' = nextId + 1
  /\ UNCHANGED <<mutex, pc, polling, poller, round, life, waiting, gone>>

\* Variant: the Uart is erased and its descriptor stays open.
ForgetUarts(S) ==
  /\ fd' = [i \in Ids |-> IF i \in S THEN NoFd ELSE fd[i]]
  /\ device' = [i \in Ids |-> IF i \in S THEN NoPort ELSE device[i]]
  /\ port' = [i \in Ids |-> IF i \in S THEN NoPort ELSE port[i]]
  /\ UNCHANGED opened

\* Variant: the ports stay in uart_ports_.
CloseUartsKeepsPorts(S) ==
  /\ opened' = [f \in Fds |-> IF \E i \in S : fd[i] = f THEN NoPort
                              ELSE opened[f]]
  /\ fd' = [i \in Ids |-> IF i \in S THEN NoFd ELSE fd[i]]
  /\ device' = [i \in Ids |-> IF i \in S THEN NoPort ELSE device[i]]
  /\ UNCHANGED port

CloseUarts(S) ==
  /\ opened' = [f \in Fds |-> IF \E i \in S : fd[i] = f THEN NoPort
                              ELSE opened[f]]
  /\ fd' = [i \in Ids |-> IF i \in S THEN NoFd ELSE fd[i]]
  /\ device' = [i \in Ids |-> IF i \in S THEN NoPort ELSE device[i]]
  /\ port' = [i \in Ids |-> IF i \in S THEN NoPort ELSE port[i]]

RemoveUart(t, id) ==
  /\ CanCall(t) /\ mutex = Free
  /\ id \in Present
  /\ CloseUarts({id})
  /\ UNCHANGED <<nextId, mutex, pc, polling, poller, round, life, waiting,
                 gone>>

RemoveAll(t) ==
  /\ CanCall(t) /\ mutex = Free
  /\ CloseUarts(Present)
  /\ UNCHANGED <<nextId, mutex, pc, polling, poller, round, life, waiting,
                 gone>>

\* readUart(): a read with time-out 0 takes what there is.
ReadUart(t, id) ==
  /\ CanCall(t) /\ mutex = Free
  /\ id \in Present
  /\ waiting' = waiting \ {opened[fd[id]]}
  /\ UNCHANGED <<registry, mutex, pc, polling, poller, round, life, opened,
                 gone>>

\* writeUart() goes on, under mutex_, until the device has taken everything
\* or fails.
WriteUart(t, id) ==
  /\ CanCall(t) /\ mutex = Free
  /\ id \in Present
  /\ mutex' = t
  /\ Goto(t, "write")
  /\ UNCHANGED <<registry, polling, poller, round, life, kernel>>

WriteUartDone(t) ==
  /\ pc[t] = "write"
  /\ mutex' = Free
  /\ Goto(t, "idle")
  /\ UNCHANGED <<registry, polling, poller, round, life, kernel>>

-----------------------------------------------------------------------------
(* startPolling(), stopPolling(), ~UartManager()                           *)

StartPolling ==
  /\ CanCall(Owner)
  /\ ~polling
  /\ polling' = TRUE
  /\ poller' = "top"
  /\ UNCHANGED <<registry, mutex, pc, round, life, kernel>>

\* Variant: stopPolling() does not wait for the thread.
StopPollingAtOnce ==
  /\ CanCall(Owner)
  /\ polling
  /\ polling' = FALSE
  /\ UNCHANGED <<registry, mutex, pc, poller, round, life, kernel>>

StopPolling ==
  /\ CanCall(Owner)
  /\ polling
  /\ polling' = FALSE
  /\ Goto(Owner, "join")
  /\ UNCHANGED <<registry, mutex, poller, round, life, kernel>>

\* The destructor runs when no other thread uses the manager.
Destroy ==
  /\ \A t \in Callers : CanCall(t)
  /\ life' = "dying"
  /\ polling' = FALSE
  /\ Goto(Owner, IF polling THEN "join" ELSE "removeAll")
  /\ UNCHANGED <<registry, mutex, poller, round, kernel>>

Join ==
  /\ pc[Owner] = "join"
  /\ poller = "done"
  /\ poller' = "none"
  /\ Goto(Owner, IF life = "dying" THEN "removeAll" ELSE "idle")
  /\ UNCHANGED <<registry, mutex, polling, round, life, kernel>>

DestroyUarts ==
  /\ pc[Owner] = "removeAll" /\ mutex = Free
  /\ CloseUarts(Present)
  /\ life' = "gone"
  /\ Goto(Owner, "idle")
  /\ UNCHANGED <<nextId, mutex, polling, poller, round, waiting, gone>>

-----------------------------------------------------------------------------
(* pollingThread() and pollUarts()                                         *)

\* Variant: the flag is not looked at again.
PollTestNot ==
  /\ poller = "top"
  /\ poller' = "snapshot"
  /\ UNCHANGED <<registry, mutex, pc, polling, round, life, kernel>>

PollTest ==
  /\ poller = "top"
  /\ poller' = IF polling THEN "snapshot" ELSE "done"
  /\ UNCHANGED <<registry, mutex, pc, polling, round, life, kernel>>

\* The order of std::map: S from the lowest id to the highest.
Listings(S) ==
  {s \in [1..Cardinality(S) -> S] :
     \A j, k \in DOMAIN s : j < k => s[j] < s[k]}

Snapshot ==
  /\ poller = "snapshot" /\ mutex = Free
  /\ \E ids \in Listings(Present) :
        pollfds' = [k \in DOMAIN ids |-> [fd |-> fd[ids[k]], in |-> FALSE]]
  /\ poller' = IF Present = {} THEN "sleep" ELSE "poll"
  /\ UNCHANGED <<registry, mutex, pc, polling, todo, idx, report, life, kernel>>

Readable(f) == opened[f] \in waiting \cup gone

\* poll() with time-out 0: POLLIN for what can be read, POLLNVAL, which also
\* counts, for a descriptor that was closed meanwhile.
Poll ==
  /\ poller = "poll"
  /\ pollfds' = [k \in DOMAIN pollfds |->
                   [pollfds[k] EXCEPT !.in = Readable(pollfds[k].fd)]]
  /\ poller' = IF \E k \in DOMAIN pollfds :
                     \/ Readable(pollfds[k].fd)
                     \/ opened[pollfds[k].fd] = NoPort
               THEN "lock" ELSE "sleep"
  /\ UNCHANGED <<registry, mutex, pc, polling, todo, idx, report, life, kernel>>

\* Variant: the second loop runs without the mutex.
DispatchStartUnlocked ==
  /\ poller = "lock"
  /\ todo' = Present /\ idx' = 1
  /\ poller' = "dispatch"
  /\ UNCHANGED <<registry, mutex, pc, polling, pollfds, report, life, kernel>>

DispatchStart ==
  /\ poller = "lock" /\ mutex = Free
  /\ mutex' = Poller
  /\ todo' = Present /\ idx' = 1
  /\ poller' = "dispatch"
  /\ UNCHANGED <<registry, pc, polling, pollfds, report, life, kernel>>

\* ::read() of descriptor f on behalf of id, and the callback about it.
\* Reading an unplugged device gives 0 or an error.
ReadAndReport(id, f) ==
  LET p == opened[f] IN
  /\ waiting' = waiting \ {p}
  /\ \E k \in IF p \in gone THEN {"disconnected", "error"}
              ELSE IF p \in waiting THEN {"data"} ELSE {"disconnected"} :
        report' = [id |-> id, kind |-> k, port |-> p]

\* Variant: the descriptor polled is the one read.
DispatchPolledFd(id) ==
  IF idx <= Len(pollfds) /\ pollfds[idx].in
  THEN ReadAndReport(id, pollfds[idx].fd)
  ELSE UNCHANGED <<waiting, report>>

\* Variant: the index stops one too early.
DispatchShort(id) ==
  IF idx < Len(pollfds) /\ pollfds[idx].in
  THEN ReadAndReport(id, fd[id])
  ELSE UNCHANGED <<waiting, report>>

\* Entries of uarts_ and of pollfds are paired by position.
Dispatch(id) ==
  IF idx <= Len(pollfds) /\ pollfds[idx].in
  THEN ReadAndReport(id, fd[id])
  ELSE UNCHANGED <<waiting, report>>

DispatchNext ==
  /\ poller = "dispatch"
  /\ \E id \in todo :
        /\ \A j \in todo : id <= j
        /\ Dispatch(id)
        /\ todo' = todo \ {id}
  /\ idx' = IF idx <= Len(pollfds) THEN idx + 1 ELSE idx
  /\ UNCHANGED <<registry, mutex, pc, polling, poller, pollfds, life, opened,
                 gone>>

DispatchEnd ==
  /\ poller = "dispatch"
  /\ todo = {}
  /\ mutex' = Free
  /\ pollfds' = <<>> /\ idx' = 1 /\ report' = NoReport
  /\ poller' = "sleep"
  /\ UNCHANGED <<registry, pc, polling, todo, life, kernel>>

PollSleep ==
  /\ poller = "sleep"
  /\ poller' = "top"
  /\ UNCHANGED <<registry, mutex, pc, polling, round, life, kernel>>

-----------------------------------------------------------------------------
(* The devices                                                             *)

Arrive(p) ==
  /\ p \notin waiting \cup gone
  /\ waiting' = waiting \cup {p}
  /\ UNCHANGED <<registry, mutex, pc, polling, poller, round, life, opened,
                 gone>>

Unplug(p) ==
  /\ p \notin gone
  /\ gone' = gone \cup {p}
  /\ waiting' = waiting \ {p}
  /\ UNCHANGED <<registry, mutex, pc, polling, poller, round, life, opened>>

-----------------------------------------------------------------------------
Call(t) ==
  \/ \E p, d \in Ports : AddUart(t, p, d)
  \/ \E id \in Ids : RemoveUart(t, id) \/ ReadUart(t, id) \/ WriteUart(t, id)
  \/ RemoveAll(t) \/ WriteUartDone(t)

Control == StartPolling \/ StopPolling \/ Destroy \/ Join \/ DestroyUarts

PollingThread ==
  PollTest \/ Snapshot \/ Poll \/ DispatchStart \/ DispatchNext
    \/ DispatchEnd \/ PollSleep

Device == \E p \in Ports : Arrive(p) \/ Unplug(p)

Next ==
  /\ life # "gone"
  /\ (\E t \in Callers : Call(t)) \/ Control \/ PollingThread \/ Device

Spec == Init /\ [][Next]_vars

\* The threads run and get a mutex that keeps becoming free, devices take
\* what is written to them; nobody has to call anything.
FairSpec ==
  /\ Spec
  /\ SF_vars(life # "gone" /\ PollingThread)
  /\ SF_vars(life # "gone" /\ (Join \/ DestroyUarts))
  /\ \A t \in Callers : WF_vars(life # "gone" /\ WriteUartDone(t))

-----------------------------------------------------------------------------
(* Properties                                                              *)

\* Types; the index of the second loop goes at most one past the end of the
\* list that was polled, however many ports were added since.
TypeOK ==
  /\ fd \in [Ids -> Fds \cup {NoFd}]
  /\ device \in [Ids -> Ports \cup {NoPort}]
  /\ port \in [Ids -> Ports \cup {NoPort}]
  /\ \A i \in Ids : /\ (fd[i] = NoFd) = (device[i] = NoPort)
                     /\ (fd[i] = NoFd) = (port[i] = NoPort)
  /\ nextId \in 1..MaxId + 1
  /\ \A i \in Present : i < nextId
  /\ mutex \in Callers \cup {Free, Poller}
  /\ pc \in [Callers -> {"idle", "write", "join", "removeAll"}]
  /\ polling \in BOOLEAN
  /\ poller \in {"none", "top", "snapshot", "poll", "lock", "dispatch",
                 "sleep", "done"}
  /\ pollfds \in Seq([fd : Fds, in : BOOLEAN])
  /\ todo \in SUBSET Ids
  /\ idx \in 1..Len(pollfds) + 1
  /\ poller = "dispatch" \/ idx = 1
  /\ report \in [id : Ids \cup {0}, port : Ports \cup {NoPort},
                 kind : {"none", "data", "disconnected", "error"}]
  /\ life \in {"alive", "dying", "gone"}
  /\ opened \in [Fds -> Ports \cup {NoPort}]
  /\ waiting \in SUBSET Ports /\ gone \in SUBSET Ports

\* mutex_ is held across a step by a caller that writes, or by the polling
\* thread in its second loop: never both.
MutexHeld ==
  /\ \A t \in Callers : mutex = t <=> pc[t] = "write"
  /\ mutex = Poller <=> poller = "dispatch"

\* Every Uart has a descriptor of its own, open on the device it was opened
\* for, and no other descriptor is open: none leaks when Uarts are removed,
\* when descriptors are reused, or when the manager goes.
DescriptorsOwned ==
  /\ \A i \in Present : opened[fd[i]] = device[i]
  /\ \A i, j \in Present : i # j => fd[i] # fd[j]
  /\ \A f \in Fds : opened[f] # NoPort => \E i \in Present : fd[i] = f

\* A callback names a Uart that is registered while the callback runs, and
\* the device that was read is that Uart's, whatever was added or removed
\* since the descriptors were polled.
CallbacksAttributed ==
  [][report' \notin {report, NoReport} =>
       /\ report'.id \in Present
       /\ report'.port = device[report'.id]]_vars

\* The polling thread exists from startPolling() until stopPolling() or the
\* destructor has joined it, and not beyond.
PollerJoined ==
  /\ poller # "none" => polling \/ pc[Owner] = "join"
  /\ life = "gone" => poller = "none" /\ Present = {}

\* stopPolling(), the destructor and writeUart() return.
EveryCallReturns ==
  \A t \in Callers : pc[t] # "idle" ~> pc[t] = "idle"

\* While polling goes on, what arrives at a registered port is read, or the
\* device is unplugged or its Uarts are removed.
ArrivalsRead ==
  \A p \in Ports :
    p \in waiting /\ polling /\ (\E i \in Ids : device[i] = p)
      ~> p \notin waiting \/ ~polling \/ ~\E i \in Ids : device[i] = p

\* "Device disconnected" is said of devices that are.
DisconnectedIsTrue == report.kind = "disconnected" => report.port \in gone
=============================================================================
