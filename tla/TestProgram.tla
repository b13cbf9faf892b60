----------------------------- MODULE TestProgram -----------------------------
(***************************************************************************)
(* The program: main(), which loads config.json and sets up the Logger,    *)
(* and runMqttTests(), which loads the file again, makes a MqttClient of   *)
(* it and drives it through the tests named on the command line.  The      *)
(* client is MqttClient with one application thread, this one; all its     *)
(* other threads, and Paho, run beside the program.                        *)
(*                                                                         *)
(* Output, statistics and the lengths of the pauses are left out; a pause  *)
(* is that other threads run.  What a test does many times in a row (it    *)
(* publishes 5 to 5000 messages) it does once here.                        *)
(***************************************************************************)
EXTENDS Configuration

CONSTANTS
  Owner,       \* the thread of main()
  Msgs,        \* the messages of the tests
  NoMsg,       \* no message
  Hosts,       \* texts of the form host:port, without a scheme
  NoLogger,    \* the Logger before it has one, or when its file cannot be made
  Arguments,   \* what the command line may ask for; 0 stands for no number
  PollRounds   \* bound on the rounds of the loop that waits for the client

ASSUME PollRoundsAssumption == PollRounds \in Nat
\* The names of the threads, and of no message, are not taken.
ASSUME NamesAssumption ==
  Owner \notin {"free", "reconnect"} /\ NoMsg \notin Msgs

VARIABLES
  state, running, reconnecting, stateMutex, told, pc, arg, rc, mq, queue,
  held, fate, life, link, armed, cb, token,   \* see MqttClient
  file,     \* what config.json is
  at,       \* how far main() has got
  logger,   \* the sinks and the level of the async logger
  options,  \* the options of the client that the file has a say in
  tests,    \* the tests, each a sequence of steps, that are still to be done
  lost      \* history: a connection was refused or lost

Client == INSTANCE MqttClient WITH Users <- {}, AutoReconnect <- TRUE,
                               Republish <- FALSE

client  == <<state, running, reconnecting, stateMutex, told, pc, arg, rc, mq,
             queue, held, fate, life, link, armed, cb, token>>
program == <<file, at, logger, options, tests, lost>>
vars    == <<client, manager, program>>

NoOptions == [uri |-> "", client_id |-> ""]

Init ==
  /\ Client!Init /\ ManagerInit
  /\ file \in Documents
  /\ at = "load" /\ logger = NoLogger
  /\ options = NoOptions /\ tests = <<>>
  /\ lost = FALSE

-----------------------------------------------------------------------------
(* main(), and the beginning of runMqttTests()                             *)

\* Somebody writes config.json.  It is read twice, so that later edits
\* change nothing.
EditFile ==
  /\ at \in {"load", "logger"}
  /\ file' \in Documents
  /\ UNCHANGED <<client, manager, at, logger, options, tests, lost>>

Load ==
  /\ at \in {"load", "loadAgain"}
  /\ LoadStart(file) \/ ParseSection \/ LoadEnd
  /\ at' = CASE loaded' = "unknown" -> at
             [] loaded' = "threw"   -> "terminated"
             [] at = "load"         -> "logger"
             [] at = "loadAgain"    -> "options"
  /\ UNCHANGED <<client, file, logger, options, tests, lost>>

Level(text) ==
  IF text \in {"trace", "debug", "info", "warn", "error", "critical"}
  THEN text ELSE "debug"

\* Logger::initWithConfig(), or init() and setLevel().  A file sink that
\* cannot be opened leaves the program without a logger.
InitLogger ==
  /\ at = "logger"
  /\ LET on(f) == config[f].text = "true"
         sinks == IF loaded = "true"
                  THEN {s \in {"console", "file"} :
                          on(IF s = "file" THEN "file_output"
                             ELSE "console_output")}
                  ELSE {"console", "file"}
         level == IF loaded = "true" THEN Level(config["level"].text)
                  ELSE "debug"
     IN \/ logger' = [sinks |-> sinks, level |-> level]
        \/ "file" \in sinks /\ logger' = NoLogger
  /\ at' = "loadAgain"
  /\ NewManager
  /\ UNCHANGED <<client, file, options, tests, lost>>

\* The scheme is put before whatever the file calls the broker.
MakeOptions ==
  /\ at = "options"
  /\ options' = IF loaded = "true"
                THEN [uri |-> config["broker"].text,
                      client_id |-> IF config["client_id"].text = ""
                                    THEN "test_client"
                                    ELSE config["client_id"].text]
                ELSE [uri |-> "localhost:1883", client_id |-> "test_client"]
  /\ at' = "arguments"
  /\ UNCHANGED <<client, manager, file, logger, tests, lost>>

-----------------------------------------------------------------------------
(* The tests: what each does to the client, in order.  A test may end where*)
(* it asks whether the client is connected.                                *)

RunConnectionTest == <<"connect">>
RunSubscribeTest  == <<"ifConnected", "subscribe">>
RunPublishTest    == <<"ifConnected", "publish">>
RunPerformanceTest == <<"ifConnected", "publish">>
RunStressTest == <<"ifConnected", "subscribe", "publish", "unsubscribe">>

RunOfflineQueueTest ==
  <<"disconnectIfConnected", "publish", "connect">>

RunReconnectTest == <<"ifConnected">> \o [k \in 1..PollRounds |-> "poll"]

Cleanup == <<"disconnect", "destroy">>

\* The tests of argument n; without a number, the default ones.
Plan(n) ==
  CASE n = 1 -> <<RunConnectionTest>>
    [] n = 2 -> <<RunConnectionTest, RunSubscribeTest>>
    [] n = 3 -> <<RunConnectionTest, RunSubscribeTest, RunPublishTest>>
    [] n = 4 -> <<RunConnectionTest, RunPerformanceTest>>
    [] n = 5 -> <<RunConnectionTest, RunStressTest>>
    [] n = 6 -> <<RunConnectionTest, RunOfflineQueueTest>>
    [] n = 7 -> <<RunConnectionTest, RunReconnectTest>>
    [] n = 8 -> <<>>
    [] OTHER -> <<RunConnectionTest, RunSubscribeTest, RunPublishTest,
                  RunPerformanceTest>>

ReadArguments ==
  /\ at = "arguments"
  /\ \E n \in Arguments : tests' = Append(Plan(n), Cleanup)
  /\ at' = "tests"
  /\ UNCHANGED <<client, manager, file, logger, options, lost>>

\* The next step of the current test is op, and main() is free to take it.
StepIs(op) ==
  /\ at = "tests" /\ tests # <<>>
  /\ life = "alive" /\ pc[Owner] = "idle"
  /\ Head(tests) # <<>> /\ Head(Head(tests)) = op
  /\ UNCHANGED <<manager, file, at, logger, options, lost>>

StepDone == tests' = <<Tail(Head(tests))>> \o Tail(tests)
TestDone == tests' = Tail(tests)

EndTest ==
  /\ at = "tests" /\ tests # <<>> /\ Head(tests) = <<>>
  /\ pc[Owner] = "idle"
  /\ TestDone
  /\ UNCHANGED <<client, manager, file, at, logger, options, lost>>

IfConnected ==
  /\ StepIs("ifConnected")
  /\ IF Client!IsConnected THEN StepDone ELSE TestDone
  /\ UNCHANGED client

\* Variant: the loop does not count its rounds.
PollUncounted ==
  /\ StepIs("poll")
  /\ IF Client!IsConnected THEN TestDone ELSE UNCHANGED tests
  /\ UNCHANGED client

\* A round of the loop that waits for the connection.
Poll ==
  /\ StepIs("poll")
  /\ IF Client!IsConnected THEN TestDone ELSE StepDone
  /\ UNCHANGED client

CallConnect == StepIs("connect") /\ StepDone /\ Client!CallConnect

CallSubscribe ==
  /\ StepIs("subscribe") \/ StepIs("unsubscribe")
  /\ StepDone
  /\ Client!CallSubscribe(Owner)

CallPublish ==
  /\ StepIs("publish")
  /\ StepDone
  /\ \E m \in Msgs : Client!CallPublish(Owner, m)

CallDisconnect ==
  \/ StepIs("disconnect") /\ StepDone /\ Client!CallDisconnect
  \/ /\ StepIs("disconnectIfConnected")
     /\ StepDone
     /\ IF Client!IsConnected THEN Client!CallDisconnect ELSE UNCHANGED client

\* The client goes at the end of runMqttTests().
CallDestructor == StepIs("destroy") /\ StepDone /\ Client!CallDestructor

Exit ==
  /\ at = "tests" /\ Client!Terminated
  /\ at' = IF life = "gone" THEN "ended" ELSE "terminated"
  /\ UNCHANGED <<client, manager, file, logger, options, tests, lost>>

-----------------------------------------------------------------------------
(* The client beside the program                                           *)

\* Paho accepts "tcp://host:port".
Reachable == options.uri \in Hosts

OwnerStep == Client!CallerStep(Owner) \/ Client!DestroyMembers

Broker ==
  \/ Reachable /\ Client!PahoAccept
  \/ Client!PahoRefuse \/ Client!PahoRetry \/ Client!PahoLost
  \/ Client!PahoMessage \/ Client!PahoDisconnect

ClientStep(A) ==
  /\ ~Client!Terminated
  /\ A
  /\ lost' = (lost \/ (link \in {"up", "connecting"} /\ link' = "down"))
  /\ UNCHANGED <<manager, file, at, logger, options, tests>>

-----------------------------------------------------------------------------
Startup == EditFile \/ Load \/ InitLogger \/ MakeOptions \/ ReadArguments

Tests ==
  EndTest \/ IfConnected \/ Poll \/ CallConnect \/ CallSubscribe
    \/ CallPublish \/ CallDisconnect \/ CallDestructor \/ Exit

Next ==
  \/ Startup \/ Tests
  \/ ClientStep(OwnerStep) \/ ClientStep(Client!Callback)
  \/ ClientStep(Client!ReconnectThread) \/ ClientStep(Client!QueueThread)
  \/ ClientStep(Broker)

Spec == Init /\ [][Next]_vars

\* The program runs, and the client as MqttClient assumes; no connection has
\* to succeed or to last, and nobody has to edit the file.
FairSpec ==
  /\ Spec
  /\ WF_vars(Load \/ InitLogger \/ MakeOptions \/ ReadArguments)
  /\ WF_vars(Tests)
  /\ SF_vars(ClientStep(OwnerStep))
  /\ SF_vars(ClientStep(Client!Callback))
  /\ SF_vars(ClientStep(Client!ReconnectThread))
  /\ WF_vars(ClientStep(Client!QueueThread))
  /\ WF_vars(ClientStep((Reachable /\ Client!PahoAccept) \/ Client!PahoRefuse))
  /\ WF_vars(ClientStep(Client!PahoDisconnect))

-----------------------------------------------------------------------------
(* Properties                                                              *)

Operations == {"connect", "ifConnected", "subscribe", "publish",
               "unsubscribe", "poll", "disconnectIfConnected", "disconnect",
               "destroy"}

\* Types; every field of the configuration always has the type that the
\* program reads it as, whatever the file holds.
TypeOK ==
  /\ ManagerTypeOK /\ WellTyped
  /\ file \in Documents
  /\ at \in {"load", "logger", "loadAgain", "options", "arguments", "tests",
             "ended", "terminated"}
  /\ logger = NoLogger \/ logger.sinks \subseteq {"console", "file"}
  /\ tests \in Seq(Seq(Operations))
  /\ lost \in BOOLEAN

\* While the client runs, the queue thread drops a message only after a
\* connection was refused or lost.  Nothing is said of a client that
\* disconnect() has stopped, where what is still queued may be dropped or stay.
DroppedOnlyIfLost ==
  [][\A m \in Msgs :
       fate[m] # "dropped" /\ fate'[m] = "dropped" => lost \/ ~running]_vars

\* The process is ended by a std::thread that is assigned to or destroyed
\* while it is joinable only after a connection was refused or lost.
AbortedOnlyIfLost == life = "aborted" => lost

\* The program ends, whatever file, arguments and broker do.
ProgramEnds == <>(at \in {"ended", "terminated"})

\* The program is one behaviour of the client with one application thread.
UsesClient == Client!Spec
=============================================================================
