-------------------------- MODULE TestProgramProofs --------------------------
(***************************************************************************)
(* Proofs about TestProgram, for any documents, arguments and messages:    *)
(* what loadConfig() makes of a file, that everything the program does to  *)
(* its client is a behaviour of MqttClient, whose theorems therefore hold  *)
(* of the client in the program, and what else holds of it as long as      *)
(* every connection succeeds and lasts.                                    *)
(*                                                                         *)
(* loadConfig() is right because of what holds between two sections:       *)
(* LoadingInv says that the configuration is then the defaults with the    *)
(* sections read so far put in.                                            *)
(***************************************************************************)
EXTENDS TestProgram, TLAPS

\* The sections before the n-th.
Before(n) == {Sections[k] : k \in 1..n - 1}

Position ==
  /\ parsing \in 0..4
  /\ loaded \in {"unknown", "true", "false", "threw"}
  /\ parsing # 0 => loaded = "unknown"

LoadingInv ==
  /\ Position
  /\ parsing = 0 /\ loaded = "unknown" => config = Defaults
  /\ parsing # 0 => config = Loaded(document, Before(parsing))

-----------------------------------------------------------------------------
(* Sections and their members                                              *)

LEMMA SectionsInOrder ==
  /\ Len(Sections) = 3 /\ DOMAIN Sections = 1..3
  /\ Sections[1] = "mqtt" /\ Sections[2] = "uart" /\ Sections[3] = "logger"
  /\ Names = {"mqtt", "uart", "logger"}
BY DEF Sections, Names, Members

LEMMA BeforeGrows ==
  /\ Before(1) = {}
  /\ Before(4) = Names
  /\ \A n \in 1..3 : Before(n + 1) = Before(n) \cup {Sections[n]}
<1>1. Before(1) = {}
  BY DEF Before
<1>2. \A n \in 1..3 : 1..(n + 1) - 1 = (1..n - 1) \cup {n}
  OBVIOUS
<1>3. \A n \in 1..3 : Before(n + 1) = Before(n) \cup {Sections[n]}
  BY <1>2 DEF Before
<1>4. Before(4) = Names
  <2>1. 1..4 - 1 = {1, 2, 3}
    OBVIOUS
  <2>2. Before(4) = {Sections[1], Sections[2], Sections[3]}
    BY <2>1 DEF Before
  <2> QED
    BY <2>2, SectionsInOrder
<1> QED
  BY <1>1, <1>3, <1>4

\* No two sections have a member of the same name.
LEMMA MembersDisjoint ==
  ASSUME NEW s \in Names, NEW r \in Names, NEW f \in Members[s] \cap Members[r]
  PROVE  r = s
BY SectionsInOrder DEF Members

\* A document none of whose sections counts leaves the defaults.
LEMMA LoadedNothing == ASSUME NEW d PROVE Loaded(d, {}) = Defaults
<1>1. Defaults = [f \in Fields |-> Defaults[f]]
  BY DEF Defaults
<1>2. Loaded(d, {}) = [f \in Fields |-> Defaults[f]]
  BY DEF Loaded
<1> QED
  BY <1>1, <1>2

\* A section that is missing adds nothing.
LEMMA LoadedSkips ==
  ASSUME NEW d, NEW S, NEW s, s \notin DOMAIN d.sections
  PROVE  Loaded(d, S \cup {s}) = Loaded(d, S)
<1>1. (S \cup {s}) \cap DOMAIN d.sections = S \cap DOMAIN d.sections
  OBVIOUS
<1> QED
  BY <1>1 DEF Loaded

\* A section that is there adds what Merge() merges.
LEMMA LoadedMerges ==
  ASSUME NEW d, NEW S \in SUBSET Names, NEW s \in Names \ S,
         s \in DOMAIN d.sections
  PROVE  Merge(Loaded(d, S), s, d.sections[s].members) = Loaded(d, S \cup {s})
<1> DEFINE Given(f, T) ==
             \E r \in T \cap DOMAIN d.sections :
               f \in Members[r] /\ Takes(d.sections[r].members, f)
           Text(f) == LET r == CHOOSE r \in Names : f \in Members[r]
                      IN d.sections[r].members[f]
<1>1. \A T : Loaded(d, T) =
               [f \in Fields |-> IF Given(f, T) THEN Text(f) ELSE Defaults[f]]
  BY DEF Loaded
<1>2. ASSUME NEW f \in Fields, f \in Members[s],
             Takes(d.sections[s].members, f)
      PROVE  Given(f, S \cup {s}) /\ Text(f) = d.sections[s].members[f]
  <2>1. \A r \in Names : f \in Members[r] => r = s
    BY <1>2, MembersDisjoint
  <2>2. (CHOOSE r \in Names : f \in Members[r]) = s
    BY <1>2, <2>1
  <2> QED
    BY <1>2, <2>2
<1>3. ASSUME NEW f \in Fields,
             ~(f \in Members[s] /\ Takes(d.sections[s].members, f))
      PROVE  Given(f, S \cup {s}) <=> Given(f, S)
  BY <1>3
<1> HIDE DEF Given, Text
<1>4. ASSUME NEW f \in Fields
      PROVE  (IF f \in Members[s] /\ Takes(d.sections[s].members, f)
              THEN d.sections[s].members[f] ELSE Loaded(d, S)[f])
             = (IF Given(f, S \cup {s}) THEN Text(f) ELSE Defaults[f])
  <2>1. Loaded(d, S)[f] = IF Given(f, S) THEN Text(f) ELSE Defaults[f]
    BY <1>1
  <2> QED
    BY <1>2, <1>3, <2>1
<1> QED
  BY <1>1, <1>4 DEF Merge

-----------------------------------------------------------------------------
(* loadConfig()                                                            *)

LEMMA LoadingInit == Init => LoadingInv
BY DEF Init, ManagerInit, LoadingInv, Position

LEMMA LoadStartKeeps ==
  ASSUME LoadingInv, NEW d, LoadStart(d)
  PROVE  LoadingInv'
<1>1. CASE d.form = "object"
  <2>1. document' = d /\ parsing' = 1 /\ config' = Defaults
          /\ loaded' = "unknown"
    BY <1>1 DEF LoadStart, LoadingInv
  <2>2. Loaded(document', Before(parsing')) = Defaults
    BY <2>1, BeforeGrows, LoadedNothing
  <2> QED
    BY <2>1, <2>2 DEF LoadingInv, Position
<1>2. CASE d.form # "object"
  BY <1>2 DEF LoadStart, LoadingInv, Position
<1> QED
  BY <1>1, <1>2

LEMMA ParseSectionKeeps ==
  ASSUME LoadingInv, ParseSection
  PROVE  LoadingInv'
<1> DEFINE s == Sections[parsing]
<1>1. parsing \in 1..3 /\ s \in Names /\ config = Loaded(document, Before(parsing))
  BY SectionsInOrder DEF ParseSection, LoadingInv
<1>2. /\ Before(parsing + 1) = Before(parsing) \cup {s}
      /\ Before(parsing) \subseteq Names /\ s \notin Before(parsing)
  BY <1>1, SectionsInOrder, BeforeGrows DEF Before
<1>3. CASE s \notin DOMAIN document.sections
  <2>1. parsing' = parsing + 1 /\ UNCHANGED <<config, document, loaded>>
    BY <1>3 DEF ParseSection
  <2>2. config' = Loaded(document', Before(parsing'))
    <3>1. Loaded(document, Before(parsing) \cup {s})
            = Loaded(document, Before(parsing))
      BY <1>3, LoadedSkips
    <3> QED
      BY <1>1, <1>2, <2>1, <3>1
  <2> QED
    BY <1>1, <2>1, <2>2 DEF LoadingInv, Position
<1>4. CASE s \in DOMAIN document.sections /\ document.sections[s].object
  <2>1. /\ config' = Merge(config, s, document.sections[s].members)
        /\ parsing' = parsing + 1 /\ UNCHANGED <<document, loaded>>
    BY <1>4 DEF ParseSection
  <2>2. config' = Loaded(document', Before(parsing'))
    BY <1>1, <1>2, <1>4, <2>1, LoadedMerges
  <2> QED
    BY <1>1, <2>1, <2>2 DEF LoadingInv, Position
<1>5. CASE s \in DOMAIN document.sections /\ ~document.sections[s].object
  BY <1>5 DEF ParseSection, LoadingInv, Position
<1> QED
  BY <1>3, <1>4, <1>5

LEMMA LoadEndKeeps ==
  ASSUME LoadingInv, LoadEnd
  PROVE  LoadingInv'
BY DEF LoadEnd, LoadingInv, Position

\* Only two steps of the program concern the ConfigManager.
LEMMA ManagerSteps ==
  ASSUME [Next]_vars
  PROVE  \/ LoadStart(file) \/ ParseSection \/ LoadEnd
         \/ NewManager
         \/ UNCHANGED manager
<1>1. CASE Startup
  BY <1>1 DEF Startup, EditFile, Load, InitLogger, MakeOptions, ReadArguments
<1>2. CASE Tests
  BY <1>2 DEF Tests, EndTest, IfConnected, Poll, CallConnect, CallSubscribe,
     CallPublish, CallDisconnect, CallDestructor, Exit, StepIs, manager
<1>3. CASE ~(Startup \/ Tests) /\ Next
  BY <1>3 DEF Next, ClientStep, manager
<1>4. CASE UNCHANGED vars
  BY <1>4 DEF vars
<1> QED
  BY <1>1, <1>2, <1>3, <1>4

LEMMA LoadingInductive == LoadingInv /\ [Next]_vars => LoadingInv'
<1> SUFFICES ASSUME LoadingInv, [Next]_vars PROVE LoadingInv'
  OBVIOUS
<1>1. CASE LoadStart(file)
  BY <1>1, LoadStartKeeps
<1>2. CASE ParseSection
  BY <1>2, ParseSectionKeeps
<1>3. CASE LoadEnd
  BY <1>3, LoadEndKeeps
<1>4. CASE NewManager
  BY <1>4 DEF NewManager, LoadingInv, Position
<1>5. CASE UNCHANGED manager
  BY <1>5 DEF manager, LoadingInv, Position
<1> QED
  BY <1>1, <1>2, <1>3, <1>4, <1>5, ManagerSteps

\* What loadConfig() returns, and what it leaves, is what the file says: all
\* of it, nothing of it, or the sections before the one where it throws.
THEOREM LoadingIsMeant == Spec => LoadsMean
<1> DEFINE Meant ==
      loaded' # loaded /\ loaded' # "unknown" =>
        \/ loaded' = "true" /\ config' = Loaded(document, Names)
        \/ loaded' = "false" /\ config' = Defaults
        \/ /\ loaded' = "threw" /\ parsing = 0
           /\ config' = Defaults
        \/ /\ loaded' = "threw" /\ parsing # 0
           /\ config' = Loaded(document,
                               {Sections[k] : k \in 1..parsing - 1})
<1>1. ASSUME LoadingInv, [Next]_vars PROVE [Meant]_manager
  <2>1. CASE LoadStart(file)
    BY <1>1, <2>1 DEF LoadStart, LoadingInv
  <2>2. CASE ParseSection
    BY <1>1, <2>2, SectionsInOrder DEF ParseSection, LoadingInv, Before
  <2>3. CASE LoadEnd
    <3>1. config = Loaded(document, Names) /\ config' = config
      BY <1>1, <2>3, SectionsInOrder, BeforeGrows DEF LoadEnd, LoadingInv
    <3> QED
      BY <2>3, <3>1 DEF LoadEnd
  <2>4. CASE NewManager
    BY <2>4 DEF NewManager
  <2>5. CASE UNCHANGED manager
    BY <2>5
  <2> QED
    BY <1>1, <2>1, <2>2, <2>3, <2>4, <2>5, ManagerSteps
<1> QED
  BY <1>1, LoadingInit, LoadingInductive, PTL DEF Spec, LoadsMean

-----------------------------------------------------------------------------
(* Types                                                                   *)

LEMMA DefaultsTyped ==
  /\ Defaults \in [Fields -> Value]
  /\ \A f \in Fields : Defaults[f].type = TypeOf(f)
<1>1. \A f \in Fields : TypeOf(f) \in {"string", "int", "bool"}
  BY DEF TypeOf
<1> QED
  BY <1>1, TextsAssumption DEF Defaults, Value

\* What Merge() takes from a document has the type asked for.
LEMMA MergeTyped ==
  ASSUME NEW c \in [Fields -> Value], \A f \in Fields : c[f].type = TypeOf(f),
         NEW d \in Documents, NEW s \in Names, s \in DOMAIN d.sections
  PROVE  LET new == Merge(c, s, d.sections[s].members)
         IN /\ new \in [Fields -> Value]
            /\ \A f \in Fields : new[f].type = TypeOf(f)
<1>1. \A f \in DOMAIN d.sections[s].members :
        d.sections[s].members[f] \in Value
  BY DocumentsAssumption
<1> QED
  BY <1>1 DEF Merge, Takes

ConfigTypeOK ==
  /\ ManagerTypeOK /\ WellTyped
  /\ file \in Documents

LEMMA ConfigTyped ==
  ASSUME ConfigTypeOK, [Next]_vars
  PROVE  ConfigTypeOK'
<1> USE DEF ConfigTypeOK, ManagerTypeOK, WellTyped
<1>1. file' \in Documents
  <2>1. CASE Startup
    BY <2>1 DEF Startup, EditFile, Load, InitLogger, MakeOptions, ReadArguments
  <2>2. CASE Tests
    BY <2>2 DEF Tests, EndTest, IfConnected, Poll, CallConnect, CallSubscribe,
       CallPublish, CallDisconnect, CallDestructor, Exit, StepIs
  <2>3. CASE Next /\ ~(Startup \/ Tests)
    BY <2>3 DEF Next, ClientStep
  <2> QED
    BY <2>1, <2>2, <2>3 DEF vars, program
<1>2. CASE LoadStart(file)
  BY <1>1, <1>2, SectionsInOrder, DocumentsAssumption DEF LoadStart
<1>3. CASE ParseSection
  <2> DEFINE s == Sections[parsing]
  <2>1. parsing \in 1..3 /\ s \in Names /\ document \in Documents
    BY <1>3, SectionsInOrder DEF ParseSection
  <2>2. CASE s \notin DOMAIN document.sections
    BY <1>1, <1>3, <2>1, <2>2, SectionsInOrder DEF ParseSection
  <2>3. CASE s \in DOMAIN document.sections /\ document.sections[s].object
    <3>1. /\ config' = Merge(config, s, document.sections[s].members)
          /\ parsing' = parsing + 1 /\ UNCHANGED <<document, loaded>>
      BY <1>3, <2>3 DEF ParseSection
    <3>2. /\ config' \in [Fields -> Value]
          /\ \A f \in Fields : config'[f].type = TypeOf(f)
      BY <2>1, <2>3, <3>1, MergeTyped
    <3>3. parsing' \in 1..4 /\ parsing' # 0
      BY <2>1, <3>1
    <3>4. document # NoDocument
      BY <2>1
    <3>5. parsing' \in 0..Len(Sections) + 1
      BY <3>3, SectionsInOrder
    <3>6. document' \in Documents /\ document' # NoDocument
      BY <2>1, <3>1, <3>4
    <3> QED
      BY <1>1, <3>1, <3>2, <3>3, <3>5, <3>6
  <2>4. CASE s \in DOMAIN document.sections /\ ~document.sections[s].object
    BY <1>1, <1>3, <2>4, SectionsInOrder DEF ParseSection
  <2> QED
    BY <2>2, <2>3, <2>4
<1>4. CASE LoadEnd
  BY <1>1, <1>4, SectionsInOrder DEF LoadEnd
<1>5. CASE NewManager
  BY <1>1, <1>5, SectionsInOrder, DefaultsTyped DEF NewManager
<1>6. CASE UNCHANGED manager
  BY <1>1, <1>6 DEF manager
<1> QED
  BY <1>2, <1>3, <1>4, <1>5, <1>6, ManagerSteps

ProgramTypeOK ==
  /\ at \in {"load", "logger", "loadAgain", "options", "arguments", "tests",
             "ended", "terminated"}
  /\ logger = NoLogger \/ logger.sinks \subseteq {"console", "file"}
  /\ tests \in Seq(Seq(Operations))
  /\ lost \in BOOLEAN

LEMMA TestsTyped ==
  ASSUME NEW n
  PROVE  Append(Plan(n), Cleanup) \in Seq(Seq(Operations))
<1>1. /\ RunConnectionTest \in Seq(Operations)
      /\ RunSubscribeTest \in Seq(Operations)
      /\ RunPublishTest \in Seq(Operations)
      /\ RunPerformanceTest \in Seq(Operations)
      /\ RunStressTest \in Seq(Operations)
      /\ RunOfflineQueueTest \in Seq(Operations)
      /\ Cleanup \in Seq(Operations)
  BY DEF RunConnectionTest, RunSubscribeTest, RunPublishTest,
     RunPerformanceTest, RunStressTest, RunOfflineQueueTest, Cleanup, Operations
<1>2. RunReconnectTest \in Seq(Operations)
  <2>1. [k \in 1..PollRounds |-> "poll"] \in Seq(Operations)
    BY PollRoundsAssumption DEF Operations
  <2>2. <<"ifConnected">> \in Seq(Operations)
    BY DEF Operations
  <2> QED
    BY <2>1, <2>2 DEF RunReconnectTest
<1> HIDE DEF Cleanup, RunConnectionTest
<1>3. Plan(n) \in Seq(Seq(Operations))
  BY <1>1, <1>2 DEF Plan
<1> QED
  BY <1>1, <1>3

LEMMA ProgramTyped ==
  ASSUME ProgramTypeOK, [Next]_vars
  PROVE  ProgramTypeOK'
<1> USE DEF ProgramTypeOK
<1>1. CASE EditFile \/ Load \/ InitLogger \/ MakeOptions
  <2>1. CASE EditFile \/ MakeOptions
    BY <2>1 DEF EditFile, MakeOptions
  <2>2. CASE Load
    BY <2>2 DEF Load
  <2>3. CASE InitLogger
    <3>1. logger' = NoLogger \/ logger'.sinks \subseteq {"console", "file"}
      BY <2>3 DEF InitLogger
    <3> QED
      BY <2>3, <3>1 DEF InitLogger
  <2> QED
    BY <1>1, <2>1, <2>2, <2>3
<1>2. CASE ReadArguments
  BY <1>2, TestsTyped DEF ReadArguments
<1>3. CASE Tests
  <2>1. tests # <<>> /\ TestDone => tests' \in Seq(Seq(Operations))
    BY DEF TestDone
  <2>2. tests # <<>> /\ Head(tests) # <<>> /\ StepDone
          => tests' \in Seq(Seq(Operations))
    <3> SUFFICES ASSUME tests # <<>>, Head(tests) # <<>>, StepDone
                 PROVE  tests' \in Seq(Seq(Operations))
      OBVIOUS
    <3>1. Head(tests) \in Seq(Operations) /\ Tail(tests) \in Seq(Seq(Operations))
      OBVIOUS
    <3>2. Tail(Head(tests)) \in Seq(Operations)
      BY <3>1
    <3>3. <<Tail(Head(tests))>> \in Seq(Seq(Operations))
      BY <3>2
    <3> QED
      BY <3>1, <3>3 DEF StepDone
  <2> QED
    BY <1>3, <2>1, <2>2 DEF Tests, EndTest, IfConnected, Poll, CallConnect,
       CallSubscribe, CallPublish, CallDisconnect, CallDestructor, Exit, StepIs
<1>4. CASE Next /\ ~(Startup \/ Tests)
  BY <1>4 DEF Next, ClientStep
<1>5. CASE UNCHANGED vars
  BY <1>5 DEF vars, program
<1> QED
  BY <1>1, <1>2, <1>3, <1>4, <1>5 DEF Next, Startup

\* Every field of the configuration has the type that the program reads it
\* as, whatever the file holds.
THEOREM TypeCorrect == Spec => []TypeOK
<1>1. TypeOK <=> ConfigTypeOK /\ ProgramTypeOK
  BY DEF TypeOK, ConfigTypeOK, ProgramTypeOK
<1>2. Init => ConfigTypeOK /\ ProgramTypeOK
  <2>1. Init => ConfigTypeOK
    BY DefaultsTyped, SectionsInOrder
       DEF Init, ManagerInit, ConfigTypeOK, ManagerTypeOK, WellTyped
  <2>2. Init => ProgramTypeOK
    <3>1. <<>> \in Seq(Seq(Operations))
      OBVIOUS
    <3> QED
      BY <3>1 DEF Init, ProgramTypeOK
  <2> QED
    BY <2>1, <2>2
<1> QED
  BY <1>1, <1>2, ConfigTyped, ProgramTyped, PTL DEF Spec

-----------------------------------------------------------------------------
(* The client of the program                                               *)

LEMMA ClientInit == Init => Client!Init
BY DEF Init

LEMMA ClientSteps == [Next]_vars => [Client!Next]_(Client!vars)
<1>1. ASSUME UNCHANGED client PROVE UNCHANGED Client!vars
  BY <1>1 DEF client, Client!vars, Client!control, Client!outbox, Client!paho
<1>2. CASE Startup
  BY <1>1, <1>2 DEF Startup, EditFile, Load, InitLogger, MakeOptions,
     ReadArguments
<1>3. CASE Tests
  <2> USE DEF StepIs, Client!Terminated
  <2>1. CASE EndTest \/ IfConnected \/ Poll \/ Exit
    BY <1>1, <2>1 DEF EndTest, IfConnected, Poll, Exit
  <2>2. CASE CallConnect
    BY <2>2 DEF CallConnect, Client!Next, Client!Connect
  <2>3. CASE CallSubscribe
    BY <2>3 DEF CallSubscribe, Client!Next, Client!Subscribe, Client!Callers
  <2>4. CASE CallPublish
    BY <2>4 DEF CallPublish, Client!Next, Client!Publish, Client!Callers
  <2>5. CASE CallDisconnect
    BY <1>1, <2>5 DEF CallDisconnect, Client!Next, Client!Disconnect
  <2>6. CASE CallDestructor
    BY <2>6 DEF CallDestructor, Client!Next, Client!Destroy
  <2> QED
    BY <1>3, <2>1, <2>2, <2>3, <2>4, <2>5, <2>6 DEF Tests
<1>4. CASE ClientStep(OwnerStep)
  BY <1>4 DEF ClientStep, OwnerStep, Client!CallerStep, Client!Next,
     Client!Connect, Client!Disconnect, Client!Destroy, Client!Publish,
     Client!Subscribe, Client!Callers
<1>5. CASE ClientStep(Client!Callback) \/ ClientStep(Client!ReconnectThread)
             \/ ClientStep(Client!QueueThread)
  BY <1>5 DEF ClientStep, Client!Next
<1>6. CASE ClientStep(Broker)
  BY <1>6 DEF ClientStep, Broker, Client!Next, Client!Paho
<1>7. CASE UNCHANGED vars
  BY <1>1, <1>7 DEF vars
<1> QED
  BY <1>2, <1>3, <1>4, <1>5, <1>6, <1>7 DEF Next

\* The program uses its client as one thread of MqttClient may: no test calls
\* it after the destructor or while another of its calls is going on.
THEOREM ProgramUsesClient == Spec => UsesClient
BY ClientInit, ClientSteps, PTL DEF Spec, UsesClient, Client!Spec

-----------------------------------------------------------------------------
(* As long as every connection succeeds and lasts                          *)

\* What TypeOK of MqttClient says of three functions.
Shapes ==
  /\ pc \in [{Owner} -> Client!OwnerLabels]
  /\ token \in [{Owner, Client!Rc} -> {"none", "pending", "ok", "failed"}]
  /\ fate \in [Msgs -> {"fresh", "offered", "queued", "sent", "failed",
                        "dropped"}]

Waiting  == {"connectWait", "connectCheck"}
Stopping == Client!Disconnecting \cup {"tellDisconnected"}

\* No reconnection has begun, an answer that has come is good and still true,
\* and a client that runs with a queue thread has its connection.  The queue
\* thread is there from the end of connect() to the join in disconnect().
Calm ==
  /\ rc = "none" /\ cb # "onConnectionLost"
  /\ pc[Owner] \in Waiting <=> token[Owner] # "none"
  /\ token[Owner] # "failed"
  /\ token[Owner] = "ok" => link = "up"
  /\ pc[Owner] \in Waiting => running /\ mq = "none"
  /\ pc[Owner] \in Stopping => ~running
  /\ ~running /\ pc[Owner] # "joinQueue" => mq = "none"
  /\ running /\ mq # "none" => state = "Connected" /\ link = "up"
  /\ life = "dying" => /\ pc[Owner] \in {"idle", "disconnect"} \cup Stopping
                       /\ pc[Owner] = "idle" => mq = "none"
  /\ life # "aborted"

LEMMA ShapesKept ==
  ASSUME Shapes, Client!Next
  PROVE  Shapes'
<1> USE DEF Shapes, Client!OwnerLabels, Client!CallerLabels,
        Client!Disconnecting, Client!Callers, Client!control, Client!outbox,
        Client!paho, Client!Goto, Client!Return, Client!DropToken
<1>1. CASE Client!Connect
  BY <1>1 DEF Client!Connect, Client!CallConnect, Client!ConnectRefused,
     Client!ConnectThrows, Client!ConnectStart, Client!ConnectAnswered,
     Client!ConnectTimeout, Client!ConnectCheck, Client!ConnectCompletes,
     Client!RequestConnect
<1>2. CASE Client!Disconnect \/ Client!Destroy
  BY <1>2 DEF Client!Disconnect, Client!Destroy, Client!CallDisconnect,
     Client!DisconnectEarlyReturn, Client!DisconnectStart,
     Client!JoinQueueThread, Client!JoinReconnectThread,
     Client!DisconnectRequest, Client!DisconnectWaited, Client!Disconnected,
     Client!TellDisconnected, Client!CallDestructor, Client!DestroyMembers
<1>3. ASSUME NEW t \in Client!Callers, Client!Publish(t) \/ Client!Subscribe(t)
      PROVE  Shapes'
  BY <1>3 DEF Client!Publish, Client!Subscribe, Client!CallPublish,
     Client!Enqueue, Client!Send, Client!CallSubscribe,
     Client!SubscribeRefused, Client!SubscribeStart, Client!SubscribeWaited
<1>4. CASE Client!Callback
  BY <1>4 DEF Client!Callback, Client!OnConnectionLost, Client!OnConnected,
     Client!OnMessageArrived
<1>5. CASE Client!ReconnectThread
  BY <1>5 DEF Client!ReconnectThread, Client!ReconnectLoopTest,
     Client!ReconnectWake, Client!ReconnectSkip, Client!ReconnectStart,
     Client!ReconnectAnswered, Client!ReconnectTimeout,
     Client!ReconnectCheck, Client!ReconnectTried, Client!RequestConnect
<1>6. CASE Client!QueueThread
  BY <1>6 DEF Client!QueueThread, Client!QueueLoopTest, Client!QueueWaited,
     Client!QueuePop, Client!QueueTest, Client!QueueSend
<1>7. CASE Client!Paho
  BY <1>7 DEF Client!Paho, Client!PahoAccept, Client!PahoRefuse,
     Client!PahoRetry, Client!PahoLost, Client!PahoMessage,
     Client!PahoDisconnect, Client!Answer
<1> QED
  BY <1>1, <1>2, <1>3, <1>4, <1>5, <1>6, <1>7 DEF Client!Next

LEMMA CalmKept ==
  ASSUME Shapes, Calm, Client!Next,
         ~(link \in {"up", "connecting"} /\ link' = "down")
  PROVE  Calm'
<1> USE DEF Shapes, Calm, Waiting, Stopping, Client!OwnerLabels,
        Client!CallerLabels, Client!Disconnecting, Client!Callers,
        Client!control, Client!outbox, Client!paho, Client!Goto,
        Client!Return, Client!DropToken
<1>1. CASE Client!Connect
  <2>1. CASE Client!CallConnect
    BY <2>1 DEF Client!CallConnect
  <2>2. CASE Client!ConnectRefused
    BY <2>2 DEF Client!ConnectRefused
  <2>3. CASE Client!ConnectThrows
    BY <2>3 DEF Client!ConnectThrows
  <2>4. CASE Client!ConnectStart
    BY <2>4 DEF Client!ConnectStart, Client!RequestConnect
  <2>5. CASE Client!ConnectAnswered
    BY <2>5 DEF Client!ConnectAnswered, Client!ConnectCompletes
  <2>6. CASE Client!ConnectTimeout
    BY <2>6 DEF Client!ConnectTimeout
  <2>7. CASE Client!ConnectCheck
    BY <2>7 DEF Client!ConnectCheck, Client!ConnectCompletes
  <2> QED
    BY <1>1, <2>1, <2>2, <2>3, <2>4, <2>5, <2>6, <2>7 DEF Client!Connect
<1>2. CASE Client!Disconnect
  <2>1. CASE Client!CallDisconnect \/ Client!DisconnectEarlyReturn
    BY <2>1 DEF Client!CallDisconnect, Client!DisconnectEarlyReturn
  <2>2. CASE Client!DisconnectStart
    BY <2>2 DEF Client!DisconnectStart, Client!StopWorkers
  <2>3. CASE Client!JoinQueueThread \/ Client!JoinReconnectThread
    BY <2>3 DEF Client!JoinQueueThread, Client!JoinReconnectThread
  <2>4. CASE Client!DisconnectRequest \/ Client!DisconnectWaited
    BY <2>4 DEF Client!DisconnectRequest, Client!DisconnectWaited
  <2>5. CASE Client!Disconnected \/ Client!TellDisconnected
    BY <2>5 DEF Client!Disconnected, Client!TellDisconnected
  <2> QED
    BY <1>2, <2>1, <2>2, <2>3, <2>4, <2>5 DEF Client!Disconnect
<1>3. CASE Client!Destroy
  BY <1>3 DEF Client!Destroy, Client!CallDestructor, Client!DestroyMembers
<1>4. ASSUME NEW t \in Client!Callers, Client!Publish(t) PROVE Calm'
  BY <1>4 DEF Client!Publish, Client!CallPublish, Client!Enqueue, Client!Send
<1>5. ASSUME NEW t \in Client!Callers, Client!Subscribe(t) PROVE Calm'
  BY <1>5 DEF Client!Subscribe, Client!CallSubscribe,
     Client!SubscribeRefused, Client!SubscribeStart, Client!SubscribeWaited
<1>6. CASE Client!Callback
  BY <1>6 DEF Client!Callback, Client!OnConnectionLost, Client!OnConnected,
     Client!OnMessageArrived
<1>7. ~Client!ReconnectThread
  BY DEF Client!ReconnectThread, Client!ReconnectLoopTest,
     Client!ReconnectWake, Client!ReconnectSkip, Client!ReconnectStart,
     Client!ReconnectAnswered, Client!ReconnectTimeout,
     Client!ReconnectCheck, Client!ReconnectTried
<1>8. CASE Client!QueueThread
  BY <1>8 DEF Client!QueueThread, Client!QueueLoopTest, Client!QueueWaited,
     Client!QueuePop, Client!QueueTest, Client!QueueSend
<1>9. CASE Client!Paho
  BY <1>9 DEF Client!Paho, Client!PahoAccept, Client!PahoRefuse,
     Client!PahoRetry, Client!PahoLost, Client!PahoMessage,
     Client!PahoDisconnect, Client!Answer
<1> QED
  BY <1>1, <1>2, <1>3, <1>4, <1>5, <1>6, <1>7, <1>8, <1>9 DEF Client!Next

\* What the program adds: the history variable sees every connection that is
\* refused or lost.
LEMMA LostSeen ==
  ASSUME [Next]_vars, ~lost'
  PROVE  ~lost /\ ~(link \in {"up", "connecting"} /\ link' = "down")
<1>1. CASE UNCHANGED <<link, lost>>
  BY <1>1
<1>2. CASE Startup
  BY <1>1, <1>2 DEF Startup, EditFile, Load, InitLogger, MakeOptions,
     ReadArguments, client
<1>3. CASE Tests
  <2>1. UNCHANGED lost
    BY <1>3 DEF Tests, EndTest, IfConnected, Poll, CallConnect, CallSubscribe,
       CallPublish, CallDisconnect, CallDestructor, Exit, StepIs
  <2>2. UNCHANGED link
    BY <1>3 DEF Tests, EndTest, IfConnected, Poll, CallConnect, CallSubscribe,
       CallPublish, CallDisconnect, CallDestructor, Exit, client,
       Client!CallConnect, Client!CallSubscribe, Client!CallPublish,
       Client!CallDisconnect, Client!CallDestructor, Client!paho
  <2> QED
    BY <1>1, <2>1, <2>2
<1>4. ASSUME ClientStep(OwnerStep) \/ ClientStep(Client!Callback)
               \/ ClientStep(Client!ReconnectThread)
               \/ ClientStep(Client!QueueThread) \/ ClientStep(Broker)
      PROVE  ~lost /\ ~(link \in {"up", "connecting"} /\ link' = "down")
  BY <1>4 DEF ClientStep
<1>5. CASE UNCHANGED vars
  BY <1>1, <1>5 DEF vars, client, program
<1> QED
  BY <1>2, <1>3, <1>4, <1>5 DEF Next

CalmInv == Shapes /\ (~lost => Calm)

LEMMA CalmInit == Init => CalmInv
BY DEF Init, Client!Init, Client!Callers, CalmInv, Shapes, Calm, Waiting,
   Stopping, Client!OwnerLabels, Client!CallerLabels, Client!Disconnecting

LEMMA CalmStep == CalmInv /\ [Next]_vars => CalmInv'
<1> SUFFICES ASSUME CalmInv, [Next]_vars PROVE CalmInv'
  OBVIOUS
<1>1. [Client!Next]_(Client!vars)
  BY ClientSteps
<1>2. CASE UNCHANGED Client!vars
  BY <1>2, LostSeen DEF CalmInv, Shapes, Calm, Waiting, Stopping,
     Client!OwnerLabels, Client!CallerLabels, Client!Disconnecting,
     Client!vars, Client!control, Client!outbox, Client!paho
<1>3. CASE Client!Next
  BY <1>3, ShapesKept, CalmKept, LostSeen DEF CalmInv
<1> QED
  BY <1>1, <1>2, <1>3

LEMMA CalmInvariant == Spec => []CalmInv
BY CalmInit, CalmStep, PTL DEF Spec

\* The process does not end in a std::thread that is still joinable as long
\* as no connection has been refused or lost.
THEOREM AbortsOnlyIfLost == Spec => []AbortedOnlyIfLost
<1>1. CalmInv => AbortedOnlyIfLost
  BY DEF CalmInv, Calm, AbortedOnlyIfLost
<1> QED
  BY <1>1, CalmInvariant, PTL

\* The queue thread drops a message only when it runs without a connection:
\* never before a connection was refused or lost, nor before disconnect().
THEOREM DropsOnlyIfLost == Spec => DroppedOnlyIfLost
<1> DEFINE A == \A m \in Msgs :
                 fate[m] # "dropped" /\ fate'[m] = "dropped" => lost \/ ~running
<1>1. CalmInv /\ [Next]_vars => [A]_vars
  <2> SUFFICES ASSUME CalmInv, [Next]_vars,
                      NEW m \in Msgs, fate[m] # "dropped", fate'[m] = "dropped",
                      ~lost, running
               PROVE  FALSE
    OBVIOUS
  <2>1. [Client!Next]_(Client!vars)
    BY ClientSteps
  <2>2. ~UNCHANGED fate
    OBVIOUS
  <2> USE DEF CalmInv, Shapes, Client!control, Client!outbox, Client!paho
  <2>3. CASE Client!Connect \/ Client!Disconnect \/ Client!Destroy
    BY <2>2, <2>3 DEF Client!Connect, Client!CallConnect,
       Client!ConnectRefused, Client!ConnectThrows, Client!ConnectStart,
       Client!ConnectAnswered, Client!ConnectTimeout, Client!ConnectCheck,
       Client!ConnectCompletes, Client!Disconnect, Client!Destroy,
       Client!CallDisconnect, Client!DisconnectEarlyReturn,
       Client!DisconnectStart, Client!JoinQueueThread,
       Client!JoinReconnectThread, Client!DisconnectRequest,
       Client!DisconnectWaited, Client!Disconnected,
       Client!TellDisconnected, Client!CallDestructor, Client!DestroyMembers
  <2>4. ASSUME NEW t \in Client!Callers,
               Client!Publish(t) \/ Client!Subscribe(t)
        PROVE  FALSE
    BY <2>2, <2>4 DEF Client!Publish, Client!Subscribe, Client!CallPublish,
       Client!Enqueue, Client!Send, Client!CallSubscribe,
       Client!SubscribeRefused, Client!SubscribeStart, Client!SubscribeWaited
  <2>5. CASE Client!Callback \/ Client!ReconnectThread \/ Client!Paho
    BY <2>2, <2>5 DEF Client!Callback, Client!OnConnectionLost,
       Client!OnConnected, Client!OnMessageArrived, Client!ReconnectThread,
       Client!ReconnectLoopTest, Client!ReconnectWake, Client!ReconnectSkip,
       Client!ReconnectStart, Client!ReconnectAnswered,
       Client!ReconnectTimeout, Client!ReconnectCheck,
       Client!ReconnectTried, Client!Paho, Client!PahoAccept,
       Client!PahoRefuse, Client!PahoRetry, Client!PahoLost,
       Client!PahoMessage, Client!PahoDisconnect
  <2>6. CASE Client!QueueThread
    <3>1. CASE Client!QueueTest
      <4>1. mq = "popped" /\ ~Client!IsConnected
        BY <2>2, <3>1 DEF Client!QueueTest
      <4> QED
        BY <4>1 DEF Calm, Client!IsConnected, Client!LinkUp
    <3>2. CASE Client!QueueSend
      BY <2>2, <3>2 DEF Client!QueueSend
    <3> QED
      BY <2>2, <2>6, <3>1, <3>2 DEF Client!QueueThread, Client!QueueLoopTest,
         Client!QueueWaited, Client!QueuePop
  <2>7. CASE UNCHANGED Client!vars
    BY <2>2, <2>7 DEF Client!vars
  <2> QED
    BY <2>1, <2>3, <2>4, <2>5, <2>6, <2>7 DEF Client!Next
<1> QED
  BY <1>1, CalmInvariant, PTL DEF Spec, DroppedOnlyIfLost

-----------------------------------------------------------------------------
(* The theorems about the client, of the client in the program             *)

Proved == INSTANCE MqttClientProofs WITH Users <- {}, AutoReconnect <- TRUE,
                                         Republish <- FALSE

\* The two instances of MqttClient are one.
LEMMA OneClient ==
  /\ UNCHANGED Client!vars <=> UNCHANGED Proved!vars
  /\ Client!Init = Proved!Init
  /\ Client!Next <=> Proved!Next
<1> USE DEF Client!control, Proved!control, Client!outbox, Proved!outbox,
        Client!paho, Proved!paho, Client!Goto, Proved!Goto,
        Client!Return, Proved!Return, Client!DropToken,
        Proved!DropToken, Client!Free, Proved!Free, Client!Rc,
        Proved!Rc, Client!Callers, Proved!Callers, Client!Disconnecting,
        Proved!Disconnecting, Client!IsConnected, Proved!IsConnected,
        Client!LinkUp, Proved!LinkUp, Client!Terminated,
        Proved!Terminated, Client!StartReconnecting,
        Proved!StartReconnecting
<1>1. UNCHANGED Client!vars <=> UNCHANGED Proved!vars
  BY DEF Client!vars, Proved!vars
<1>2. Client!Init = Proved!Init
  BY DEF Client!Init, Proved!Init
<1>3. Client!Connect <=> Proved!Connect
  BY DEF Client!Connect, Proved!Connect, Client!CallConnect,
     Proved!CallConnect, Client!ConnectRefused, Proved!ConnectRefused,
     Client!ConnectThrows, Proved!ConnectThrows, Client!ConnectStart,
     Proved!ConnectStart, Client!ConnectAnswered,
     Proved!ConnectAnswered, Client!ConnectTimeout,
     Proved!ConnectTimeout, Client!ConnectCheck, Proved!ConnectCheck,
     Client!ConnectCompletes, Proved!ConnectCompletes,
     Client!RequestConnect, Proved!RequestConnect
<1>4. Client!Disconnect <=> Proved!Disconnect
  BY DEF Client!Disconnect, Proved!Disconnect, Client!CallDisconnect,
     Proved!CallDisconnect, Client!DisconnectEarlyReturn,
     Proved!DisconnectEarlyReturn, Client!DisconnectStart,
     Proved!DisconnectStart, Client!StopWorkers, Proved!StopWorkers,
     Client!JoinQueueThread, Proved!JoinQueueThread,
     Client!JoinReconnectThread, Proved!JoinReconnectThread,
     Client!DisconnectRequest, Proved!DisconnectRequest,
     Client!DisconnectWaited, Proved!DisconnectWaited,
     Client!Disconnected, Proved!Disconnected, Client!TellDisconnected,
     Proved!TellDisconnected
<1>5. Client!Destroy <=> Proved!Destroy
  BY DEF Client!Destroy, Proved!Destroy, Client!CallDestructor,
     Proved!CallDestructor, Client!DestroyMembers,
     Proved!DestroyMembers, Client!StopWorkers, Proved!StopWorkers,
     Client!Terminated, Proved!Terminated
<1>6. Client!Callback <=> Proved!Callback
  BY DEF Client!Callback, Proved!Callback, Client!OnConnectionLost,
     Proved!OnConnectionLost, Client!OnConnected, Proved!OnConnected,
     Client!OnMessageArrived, Proved!OnMessageArrived
<1>7. Client!ReconnectThread <=> Proved!ReconnectThread
  BY DEF Client!ReconnectThread, Proved!ReconnectThread,
     Client!ReconnectLoopTest, Proved!ReconnectLoopTest,
     Client!ReconnectWake, Proved!ReconnectWake, Client!ReconnectSkip,
     Proved!ReconnectSkip, Client!ReconnectStart, Proved!ReconnectStart,
     Client!ReconnectAnswered, Proved!ReconnectAnswered,
     Client!ReconnectTimeout, Proved!ReconnectTimeout,
     Client!ReconnectCheck, Proved!ReconnectCheck,
     Client!ReconnectTried, Proved!ReconnectTried,
     Client!RequestConnect, Proved!RequestConnect,
     Client!Reconnected, Proved!Reconnected, Client!ReconnectFails,
     Proved!ReconnectFails
<1>8. Client!QueueThread <=> Proved!QueueThread
  BY DEF Client!QueueThread, Proved!QueueThread, Client!QueueLoopTest,
     Proved!QueueLoopTest, Client!QueueWaited, Proved!QueueWaited,
     Client!QueuePop, Proved!QueuePop, Client!QueueTest,
     Proved!QueueTest, Client!QueueSend, Proved!QueueSend
<1>9. Client!Paho <=> Proved!Paho
  BY DEF Client!Paho, Proved!Paho, Client!PahoAccept, Proved!PahoAccept,
     Client!PahoRefuse, Proved!PahoRefuse, Client!PahoRetry,
     Proved!PahoRetry, Client!PahoLost, Proved!PahoLost,
     Client!PahoMessage, Proved!PahoMessage, Client!PahoDisconnect,
     Proved!PahoDisconnect, Client!Answer, Proved!Answer
<1>10. ASSUME NEW t
      PROVE  Client!Publish(t) <=> Proved!Publish(t)
  BY DEF Client!Publish, Proved!Publish, Client!CallPublish,
     Proved!CallPublish, Client!Enqueue, Proved!Enqueue, Client!Send,
     Proved!Send, Client!Settled, Proved!Settled
<1>11. ASSUME NEW t
       PROVE  Client!Subscribe(t) <=> Proved!Subscribe(t)
  BY DEF Client!Subscribe, Proved!Subscribe, Client!CallSubscribe,
     Proved!CallSubscribe, Client!SubscribeRefused,
     Proved!SubscribeRefused, Client!SubscribeStart,
     Proved!SubscribeStart, Client!SubscribeWaited,
     Proved!SubscribeWaited
<1> QED
  BY <1>1, <1>2, <1>3, <1>4, <1>5, <1>6, <1>7, <1>8, <1>9, <1>10, <1>11
  DEF Client!Next, Proved!Next

LEMMA ProvedAssumptions ==
  Proved!ThreadsAssumption /\ Proved!MsgsAssumption /\ Proved!OptionsAssumption
BY NamesAssumption DEF Proved!ThreadsAssumption, Proved!MsgsAssumption,
   Proved!OptionsAssumption, Proved!Callers, Proved!Free, Proved!Rc

ClientInv == Proved!TypeOK /\ Proved!ControlInv

LEMMA ClientInvInit == Init => ClientInv
BY ProvedAssumptions, ClientInit, OneClient, Proved!TypeInit,
   Proved!ControlInit
DEF ClientInv, Proved!ThreadsAssumption, Proved!MsgsAssumption,
    Proved!OptionsAssumption

LEMMA ClientInvStep == ClientInv /\ [Next]_vars => ClientInv'
<1> USE ProvedAssumptions
    DEF Proved!ThreadsAssumption, Proved!MsgsAssumption,
        Proved!OptionsAssumption
<1> SUFFICES ASSUME ClientInv, [Next]_vars PROVE ClientInv'
  OBVIOUS
<1>1. [Proved!Next]_(Proved!vars)
  BY ClientSteps, OneClient
<1> QED
  BY <1>1, Proved!TypeStep, Proved!ControlStep DEF ClientInv

\* Whatever the file, the arguments and the broker do, the client of the
\* program is in order: stateMutex_ is held by whom it should be, state_ is
\* changed by nobody else, a stopped client has no threads, and the program is
\* told the truth about its connection.
THEOREM ClientInProgram ==
  Spec => [](/\ Client!TypeOK /\ Client!MutexHeld /\ Client!StateOwned
             /\ Client!WorkersJoined /\ Client!ToldTruth)
<1>1. Proved!TypeOK => Client!TypeOK
  BY DEF Client!TypeOK, Proved!TypeOK, Client!ControlOK, Proved!ControlOK,
     Client!CallersOK, Proved!CallersOK, Client!WorkersOK,
     Proved!WorkersOK, Client!PahoOK, Proved!PahoOK,
     Client!CallerLabels, Proved!CallerLabels, Client!OwnerLabels,
     Proved!OwnerLabels, Client!Callers, Proved!Callers, Client!Free,
     Proved!Free, Client!Rc, Proved!Rc, Client!Disconnecting,
     Proved!Disconnecting
<1>2. Proved!ControlInv => /\ Client!MutexHeld /\ Client!StateOwned
                          /\ Client!WorkersJoined /\ Client!ToldTruth
  BY DEF Proved!ControlInv, Client!MutexHeld, Proved!MutexHeld, Client!StateOwned,
     Proved!StateOwned, Client!WorkersJoined, Proved!WorkersJoined,
     Client!ToldTruth, Proved!ToldTruth, Client!Callers, Proved!Callers,
     Client!Free, Proved!Free, Client!Rc, Proved!Rc,
     Client!Disconnecting, Proved!Disconnecting, Client!Terminated,
     Proved!Terminated
<1>3. ClientInv => /\ Client!TypeOK /\ Client!MutexHeld /\ Client!StateOwned
                   /\ Client!WorkersJoined /\ Client!ToldTruth
  BY <1>1, <1>2 DEF ClientInv
<1> QED
  BY ClientInvInit, ClientInvStep, <1>3, PTL DEF Spec

\* And its messages are disposed of in the order of Outbox.
THEOREM OutboxInProgram == Spec => Client!ImplementsOutbox
<1> USE ProvedAssumptions
    DEF Proved!ThreadsAssumption, Proved!MsgsAssumption,
        Proved!OptionsAssumption
<1> DEFINE Inv == ClientInv /\ Proved!OutboxInv
<1>1. Init => Inv /\ Proved!Outbox!Init
  BY ClientInit, ClientInvInit, OneClient, Proved!OutboxInit
<1>2. Inv /\ [Next]_vars => Inv'
  <2> SUFFICES ASSUME Inv, [Next]_vars PROVE Inv'
    OBVIOUS
  <2>1. [Proved!Next]_(Proved!vars)
    BY ClientSteps, OneClient
  <2>2. ClientInv'
    BY ClientInvStep
  <2> QED
    BY <2>1, <2>2, Proved!OutboxStep DEF ClientInv
<1>3. Inv /\ [Next]_vars
        => [Client!Outbox!Next]_<<Client!Pending, Client!FateSeen>>
  <2> SUFFICES ASSUME Inv, [Next]_vars
               PROVE  [Client!Outbox!Next]_<<Client!Pending, Client!FateSeen>>
    OBVIOUS
  <2>1. [Proved!Next]_(Proved!vars)
    BY ClientSteps, OneClient
  <2>2. [Proved!Outbox!Next]_<<Proved!Pending, Proved!FateSeen>>
    BY <2>1, Proved!OutboxRefined DEF ClientInv
  <2> QED
    BY <2>2 DEF Proved!Outbox!Next, Client!Outbox!Next,
       Proved!Outbox!Settle, Client!Outbox!Settle, Proved!Outbox!Accept,
       Client!Outbox!Accept, Proved!Outbox!Direct, Client!Outbox!Direct,
       Proved!Outbox!GiveAgain, Client!Outbox!GiveAgain,
       Proved!Outbox!Outcome, Client!Outbox!Outcome, Proved!Pending,
       Client!Pending, Proved!FateSeen, Client!FateSeen
<1>4. Proved!Outbox!Init => Client!Outbox!Init
  BY DEF Proved!Outbox!Init, Client!Outbox!Init, Proved!Pending,
     Client!Pending, Proved!FateSeen, Client!FateSeen
<1> QED
  BY <1>1, <1>2, <1>3, <1>4, PTL
  DEF Spec, Client!ImplementsOutbox, Client!Outbox!Spec
=============================================================================
