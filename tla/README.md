# A verification project for app_demo

The program in `src/project_demo` is a C++ demonstration of three things: an MQTT
client on top of the Eclipse Paho library that queues messages while it is offline
and reconnects by itself, a manager of serial ports with a polling thread, and a
parser that cuts frames out of a stream of bytes. This directory holds TLA+
models of them, the TLC runs that check the models on small instances, and
theorems checked by TLAPS.

## 1. The system

| part | source | state it keeps | operations |
|---|---|---|---|
| MQTT client | `src/mqtt_client.cpp`, `inc/mqtt_client.h` | `state_`, `running_`, `reconnecting_` (atomics), `stateMutex_`, the queue of messages with its mutex and condition variable, two threads, three callbacks | `connect`, `disconnect`/`stop`/destructor, `publish`, `subscribe`, `unsubscribe`, Paho's callbacks, the two thread loops |
| Paho library | `lib/include/mqtt`, binaries | the connection, the tokens of requests, automatic reconnect | `connect`, `disconnect`, `publish`, `subscribe`, `is_connected`, callbacks from one thread |
| UART manager | `src/uart_manager.cpp`, `inc/uart_manager.h` | `uarts_`, `uart_ports_`, `next_id_`, `mutex_`, `polling_`, the polling thread | `addUart`, `removeUart`, `removeAll`, `readUart`, `writeUart`, `startPolling`, `stopPolling`, destructor, the polling loop |
| UART port | `src/uart.cpp`, `inc/uart.h` | `fd_`, `config_`, `mutex_`, the settings of the device | `open`, `close`, `read`, `write`, `configurePort`, the five setters |
| Frame parser | `src/frame_parser.cpp`, `inc/frame_parser.h` | `buffer_`, `frames_`, `in_frame_` | `feed` in four framings, `reset` |
| Logger | `src/logger.cpp` | a static logger, six pointers to it | `init`, `initWithConfig`, `setLevel`, `flush` |
| Configuration | `src/config_manager.cpp`, `config.json` | a record of values | `loadConfig` |
| Test program | `src/main.cpp`, `src/mqtt_test.cpp` | a `MqttClient`, two `ConfigManager`s | `main`, `runMqttTests`, seven tests of the client |

How they interact. The application calls the client; the client calls Paho; Paho
calls the client back (`onConnected`, `onConnectionLost`, `onMessageArrived`) from
its one callback thread, and the client calls the application back, in part under
`stateMutex_`. `connect()` starts the queue thread, `onConnectionLost()` starts the
reconnect thread, `disconnect()` joins both. The UART manager reads its ports from
the polling thread and reports to the application under `mutex_`. The frame parser
is sequential. The three do not call one another in the sources. The test program loads
`config.json`, sets up the logger, loads the file again, and drives a client from one
thread; it uses neither the serial ports nor the parser.

What is hard in it:

- waiting under a mutex: `connect()`, `doReconnect()` and `subscribe()` wait for Paho
  with `stateMutex_` held, while Paho's only callback thread may want that mutex;
- threads that are started by callbacks and joined by calls, and the calls that
  return early (`disconnect()` on a client that has lost its connection);
- `state_` is written by three threads and once without the lock;
- time-outs that race with late answers, and two mechanisms that reconnect (the
  client's own thread and Paho's);
- messages that are queued, popped, tested and sent in separate steps;
- poll results of an older snapshot paired by position with the ports of now, and
  descriptors that the kernel gives again;
- `open()` of a port is a dozen system calls any of which may fail half way, and a
  `Uart` has a mutex of its own that some of its functions do not take;
- the bytes of a frame that come in any number of chunks;
- a configuration file of any shape, read twice, with a parser that throws.

`PROJECT.json` lists these hazards one by one at their lines, with the properties
that would be violated, or the reason why none covers them.

What makes each part correct: for the client, that its threads are joined and its
calls return, that the state and what the application was told agree, that every
message is disposed of once and in order, and that a lost connection comes back;
for the manager, that descriptors neither leak nor are confused, that callbacks name
the port that was read, and that what arrives is read; for a port, that no failure of
`open()` leaves anything behind and that writes do not mix; for the configuration, that
it is what the file says; for the program, that it ends; for the parser, that the
frames depend on the bytes and not on the chunks.

## 2. The modules

### MqttClient (`MCMqttClient`, `Outbox`, `MqttClientProofs`)

One step is what a thread does between two points where another can act: a section
under `stateMutex_`, a wait for a token, a join, a sleep, an access to an atomic.

| variable | code |
|---|---|
| `state`, `running`, `reconnecting` | `state_`, `running_`, `reconnecting_` |
| `stateMutex` | `stateMutex_`: who holds it across a wait, or `Free`; a section without a wait is one step guarded by `Free` |
| `told` | the last value given to `connectionCallback_` |
| `pc`, `arg` | where each application thread is, and the message it publishes |
| `rc`, `mq` | `reconnectThread_` and `messageQueueThread_`: where the thread is, `"done"` when its function has returned and it can be joined, `"none"` when the `std::thread` is not joinable |
| `queue`, `held` | `messageQueue_`, and the local `msg` of `messageQueueLoop()` |
| `fate` | what has become of each message (history) |
| `life` | the object: in use, in its destructor, gone, or the process ended by `std::terminate` |
| `link`, `armed`, `cb`, `token` | Paho: the connection, automatic reconnect, the callback that is running, the answers to connect requests |

The actions follow the functions in the order of the source, under the functions'
names: `ConnectStart`, `ConnectAnswered`, `ConnectTimeout` and `ConnectCheck` are the
parts of `connect()` around its wait; `DisconnectStart`, `JoinQueueThread`,
`JoinReconnectThread`, `DisconnectRequest`, `DisconnectWaited`, `Disconnected`,
`TellDisconnected` those of `disconnect()`; and so on for the loops. Messages are
model values: topic, payload, qos and `retained` are copied and never looked at.
`subscribe()` and `unsubscribe()` take the same steps. `reconnectAttempts_` sets the
length of a sleep only, and sleeps may last any time here.

One thread, `Owner`, connects, disconnects and destroys; the `Users` publish and
subscribe. So does the test program. `DestroyMembers` is what C++ does after the
destructor's body: a `std::thread` that is still joinable ends the process. It is one
step, after which the object takes no part in anything.

Paho is not part of the sources. Modelled is what the class relies on: one callback
thread (`lib/include/mqtt/callback.h`), so that no two callbacks overlap and nothing
else is delivered while one waits; a connect request is answered, or fails, or stays
unanswered; `is_connected()` is true until a disconnect has been carried out;
automatic reconnect is in force from the first success until a disconnect request.

`Outbox` is the abstract specification of the messages: pending ones in order, each
disposed of once for a call of `publish()`. It keeps `pending` and `fate` and has four
actions: queue a message, send it directly, dispose of the oldest, and be given once
more a message that was disposed of. `MqttClient` implements it with
`pending <- held message, then queue` (`ImplementsOutbox`). The constant `Republish` says
whether the last of the four may happen: with it a bounded set of messages stands for
publishers that never stop.

### UartManager (`MCUartManager`, `UartManagerProofs`)

A call that works under `mutex_` without waiting is one step; `writeUart()` holds it
for two, because its loop on `EAGAIN` waits for the device. A round of the polling
thread is a snapshot under the mutex, `poll()` without it, and the second loop under
it, one step for each port. `uarts_` is `fd`, `uart_ports_` is `port`; `pollfds`,
`todo` and `idx` are the locals of `pollUarts()`. The kernel is external: `open()`
gives the lowest free descriptor, `poll()` reports what is readable, `read()` on a
port opened with `VMIN = VTIME = 0` returns 0 when there is nothing. `report` is the
last callback with the device that was in fact read.

### UartPort (`MCUartPort`, `UartPortProofs`)

The class `Uart` by itself: any number of threads, one port, a system call at a time.
`fd`, `config` and `mutex` are `fd_`, `config_` and `mutex_`; `setting`, `saved` and `left`
are the locals of `configurePort()` and `write()` (of which there is one set: their
thread holds the mutex); `seen` is `fd_` as each thread's `flush()` read it, without the
mutex. The rest belongs to the kernel: what each descriptor is open on, the settings of
each device, which devices have input or are unplugged, and, as a history, whose
bytes each device took last and how many of that `write()` were still to come (none
once it has failed). A device that was unplugged comes back, with its first settings,
when no descriptor is left open on it. The
rest of the process may open and close files, so that a descriptor number can come back
as something else.

`OpenStart` to `ConfigureFails` are the parts of `open()`. The five setters are one
action, `CallSetter`, that is taken five times in the order of the source: each reads
the settings of the device, changes its part (`Set`) and writes them back. Any system
call of `open()` and `configurePort()` may fail for a reason of its own, and a setter
fails at a value it does not know (`Supported`). `::write()` may fail at any time with
part of the bytes written and the device still there (`WriteFails`); it may also answer
`EAGAIN` for as long as it likes, which is no step. `MakeRaw` is `cfmakeraw()` with `VMIN` and `VTIME`,
on the local copy that `ConfigureEnd` writes. The settings are the parts of
`struct termios` that the class writes. `isOpen()` and `getFd()` read `fd_` and change
nothing; `setDataCallback()` stores a callback that nothing calls.

`UartManager` keeps its own, coarser view of a port, because there every call is made
under the manager's mutex; `getUart()` is how threads come to share a port without it.

### Configuration and TestProgram (`MCTestProgram`, `TestProgramProofs`)

`Configuration` is `ConfigManager`. A document is absent, no JSON, JSON that is no
object, or an object with some of the three sections; a section is an object or not,
and its members are values with a type. `LoadStart`, one `ParseSection` for each section
and `LoadEnd` are `loadConfig()`; `Merge` is the chain of `isMember`/`isString` tests.
What throws ends the program, since nobody catches it, with the sections before merged.

`TestProgram` is `main()` and `runMqttTests()`, composed with `MqttClient` by INSTANCE,
with no users besides the owner and with automatic reconnect. Startup is `Load`,
`InitLogger`, `Load` again, `MakeOptions` and `ReadArguments`; then `tests` holds the steps
that are still to be done, and each step is a call of the client, which may begin when
the one before has returned. All that the client's threads and Paho do goes on beside
(`ClientStep`). `EditFile` changes the file between its two readings. `Reachable` is the
URI that Paho accepts: the program puts `tcp://` before a broker that, in the shipped
file, has it already. A test that does something many times does it once here.

### FrameParser, FrameReference (`MCFrameParser`, `FrameParserProofs`, `FrameReferenceProofs`, `Induction`)

`Feed` appends a chunk; then one step for each iteration of the loop of the framing
in force, the last of which leaves it. `input` is a history of what was fed.
`readUint()` is the recursive function `ReadUint`. `FrameReference` adds decoders that
take one byte at a time, know nothing of chunks, and compute a length as a sum of
weighted bytes; `Decoded` says that the parser agrees with them whenever `feed()` has
returned. Configurations with an empty header or a length of more than eight bytes
are excluded by `ConfigsAssumption`: the code has undefined behaviour there.

Definitions marked "Variant" are single wrong versions of the definition after them,
of the kind a careless edit would leave; nothing uses them but the sensitivity tests
that PROJECT.json lists under "mutants", one for each checked property.

## 3. The runs

`tlc -config <run>.cfg <module>`; the module is in PROJECT.json.

| run | bounds | checks |
|---|---|---|
| `MqttClientSafety` | owner, one user, three messages (symmetric) | `TypeOK`, `MutexHeld`, `WorkersJoined`, `StateOwned`, `ToldTruth`, `ImplementsOutbox` |
| `MqttClientLiveness` | owner, one user, one message, published again and again, `FairSpec` | `EveryCallReturns`, `CallbackReturns`, `QueueDrains`, `Recovers` |
| `UartManager` | owner, one user, two devices, three ids, two descriptors, `FairSpec` | `TypeOK`, `MutexHeld`, `DescriptorsOwned`, `PollerJoined`, `CallbacksAttributed`, `EveryCallReturns`, `ArrivalsRead` |
| `UartPort` | two threads, one device, two descriptors, a good configuration and a bad one, writes of up to two bytes, `FairSpec` | `TypeOK`, `DescriptorsOwned`, `OpenIsRaw`, `WritesContiguous`, `CallsReturn` |
| `TestProgram` | six files, five command lines, one message, `FairSpec` | `TypeOK`, `AbortedOnlyIfLost`, `LoadsMean`, `DroppedOnlyIfLost`, `ProgramEnds` |
| `FrameParser` | eight configurations, all inputs of up to seven bytes over three byte values, in chunks of up to three | `TypeOK`, `FramesWellFormed`, `NothingWithheld`, `Decoded`, `EachByteOnce`, `FeedReturns` |

Why the bounds are enough. Threads interact through `stateMutex_` (or `mutex_`), the
state and the queue: with one user besides the owner and the two or three internal
threads every pair of critical sections can meet, and a further user adds a waiter of
a kind that is there already. Three messages are enough for one to be held by the
queue thread while two wait in the order that matters. Two descriptors and three ids
make a descriptor be used again by a later id and make positions shift. Frames are of
at most three bytes, or four with their header, so that seven bytes hold two of them,
or one, an interrupted one and rubbish in between; the three byte values are both
markers and one other, and lengths that are too small, right and too large. Two
descriptors let another file take the number of a port that was closed while a
thread still holds it, and let `open()` fail for want of one; the bad configuration fails
at the second setter and the system calls may fail anywhere, so that settings are left
behind by each. The six
files are: none, one that is no JSON, JSON that is no object, the shipped one, one whose `logger` is no object and whose types are
partly wrong, and one that names a broker that can be reached; command lines 1, 2, 4
and the default do parts of what 3 does, or the same steps once more, and 0 stands for
the default. Bounds that are not in the code: `Msgs` (each message is published once,
except in the liveness run, where it may be published again when it is disposed of),
`MaxId`, `MaxFd`, `MaxChunk`, `MaxInput`, `MaxLength`, `Arguments`, `PollRounds` (30 in the
code). Nothing bounds how often a client connects, loses its
connection and disconnects.

Deadlock is switched off in the configurations of the client, the manager and the
program, which stop when the object is destroyed or the program ends; that nothing is stuck before is what the liveness
runs show.

What the client's runs show. Because everything that waits under `stateMutex_` waits
with a time-out, no callback and, but for one, no call is stuck, although Paho's callback
thread may be held up for the whole of it. The exception is `disconnect()`: the inner loop
of the queue thread (`mqtt_client.cpp:370-394`) does not test `running_`, and `publish()`
goes on queueing, so that the join at line 146 waits for as long as other threads queue
messages as fast as they are taken. `EveryCallReturns` names that case
(`QueueKeptBusy`) and excludes all others. A callback that comes after `disconnect()` starts no
thread, because `running_` is tested under the lock. The unlocked write of `state_` at
the end of `disconnect()` overwrites `Connected` of a late `onConnected()`, but no
attempt in progress: both workers are joined, and the owner is the one who writes.

What the other runs show. A port whose `open()` fails at any point is closed, and the
raw mode of the next `open()` does not depend on what was left on the device; `mutex_`
keeps the bytes of two `write()` calls apart, unless the first of them failed. Two calls
can keep the others waiting for ever, both with `mutex_` held: a `write()` to a device that
takes no more bytes, which tries again at every `EAGAIN` (`uart.cpp:191-197`), and a
`read()` without a time-out when nothing comes (`Stalled`); nothing else does. Whatever the file holds, the
configuration keeps the types the program relies on. The program ends, also when the
broker never answers, goes away, or is never found; it may end by an exception of
`loadConfig()` or by the `std::terminate` of `MqttClientThreads` below. As long as every
connection succeeds and lasts, nothing that waits in the queue is dropped while the
client runs, and no thread is left joinable. The parser delivers no byte twice, also
after it has given up an overlong frame, where the comparison with the decoder ends.

Fairness. `FairSpec` gives strong fairness to the threads that need a mutex that
others keep taking (an operating system's mutex is eventually granted) and weak
fairness to the others; the conditions are per thread, for the steps inside a call,
so nobody has to make a call. Time-outs are steps of the waiting thread and so
expire. Paho answers or refuses a connection attempt it has begun and carries out a
disconnect. It does not have to succeed, to retry, to lose a connection or to deliver
anything; only `Recovers` assumes, as its premise `BrokerComesBack`, that automatic
reconnect retries and that attempts made again and again succeed at some time.
`FairSpec` of the manager is the same for its threads, with devices that accept what
is written (`WriteUartDone`): its `EveryCallReturns` is about the joins and the mutex, and
a `writeUart()` that stalls, and the manager with it, is the matter of `CallsReturn` of
`UartPort`. There no device has to take a byte, to send one or to fail; all that ends a
wait is the error of a device that is gone and the time-out that was asked for.
`FairSpec` of the program adds that `main()` goes on. `FairSpec` of
the parser says that `feed()` goes on.

### What the code does not keep

Six runs end in a violation. Each checks one expectation that is written in the
repository, and the trace shows how the code fails it:

- `MqttClientOfflineQueue` (`OfflineMessagesSent`): the queue thread pops messages
  while the client is not connected and drops them, without their callback
  (`mqtt_client.cpp:375`). Messages published after `disconnect()` do stay queued; those
  published after a lost connection are lost.
- `MqttClientOffline` (`OfflineAfterDisconnect`): an attempt under way, or Paho's
  automatic reconnect, makes the client `Connected` after `disconnect()` returned
  (`mqtt_client.cpp:153` and `280`).
- `MqttClientFailedConnect` (`FailedConnectIsOver`): a `connect()` that times out leaves
  `Connecting` behind and no further `connect()` is accepted (`mqtt_client.cpp:98-127`).
- `MqttClientThreads` (`ProcessSurvives`): after a lost connection `disconnect()` returns
  early (`mqtt_client.cpp:133`), and the destructor destroys threads that are joinable;
  in the same state `connect()` assigns over one (`mqtt_client.cpp:104`). Both end the
  process in `std::terminate`; the trace is of the first.
- `UartManagerDisconnected` (`DisconnectedIsTrue`): an empty read is reported as a
  disconnected device (`uart_manager.cpp:139-140`).
- `UartPortSettings` (`SettingsAsAsked`): after an `open()` that returned true the device
  has none of the settings it was asked for: `configurePort()` ends by writing back the
  termios it read before the setters wrote theirs (`uart.cpp:70`).

## 4. The theorems

`MqttClientProofs`, for every set of users and messages, with or without automatic
reconnect and with or without messages that are published again, from `ThreadsAssumption`, `MsgsAssumption` and `OptionsAssumption` (the
owner is not one of the users, and the names of the threads and "no message" are not
taken):

| theorem | statement |
|---|---|
| `TypeCorrect` | `Spec => []TypeOK` |
| `MutexIsHeld` | `Spec => []MutexHeld` |
| `WorkersAreJoined` | `Spec => []WorkersJoined` |
| `StateIsOwned` | `Spec => []StateOwned` |
| `ToldIsTrue` | `Spec => []ToldTruth` |
| `OutboxImplemented` | `Spec => ImplementsOutbox` |

The four safety invariants hold one another up. `ControlInv` is `TypeOK` with
`MutexHeld`, `StateOwned`, `WorkersJoined`, `ToldTruth` and the strengthening
`Stopped`. `StateOwned` needs `MutexHeld`: a thread that waits under the mutex keeps
every callback, `doReconnect()` and `disconnect()` from writing `state_`. For the one
write that is made without the mutex it needs `WorkersJoined`: at that point no
reconnect thread is left. `WorkersJoined` in turn needs what `Stopped` adds, that
between the clearing of `running_` and the last join the client stays stopped and the
owner is inside `disconnect()`. `ControlStep` has one step for each action, and under
it one for each part the action can disturb.

For the refinement, `OutboxInv` relates the two hands that carry a message and the
queue to `fate`: what is queued or held has the fate "queued", what a publisher carries
has the fate "offered", and nothing is in two places. `OutboxCases` says for each step of the
client which step of `Outbox`, or none, it is; the lemmas `Cons`, `Uncons` and
`AppendAfter` are the facts about sequences this takes. Both inductive invariants were
also model-checked as invariants.

`FrameParserProofs`, for every set of configurations, every set of bytes, and chunks
and inputs of any length, from `ConfigsAssumption` (a header has a byte, and at most
eight of them are the length), `BytesAssumption` and `BoundsAssumption`:

| theorem | statement |
|---|---|
| `TypeCorrect` | `Spec => []TypeOK` |
| `FramesAreWellFormed` | `Spec => []FramesWellFormed` |
| `NothingIsWithheld` | `Spec => []NothingWithheld` |

`TypeOK` says that `pos` lies in the buffer, and cutting frames from the front keeps
that only because the fixed and the prefixed framing leave `pos` at 0: `TypeInv` adds
it. That a delimited or marked frame has no delimiter inside, and that none is left in
the buffer when `feed()` returns, both come from the loop invariant `Scanned`: no byte
before `pos` is the one looked for. `WellFormedStep` and `WithheldStep` then have a
step for each action. The lemmas `CutFront`, `CutRest` and `CutMiddle` say what a piece
of a sequence is. `TypeInv` and `Scanned` were model-checked as invariants too.

`FrameReferenceProofs`, from the same assumptions:

| theorem | statement |
|---|---|
| `DecodesTheBytes` | `Spec => []Decoded` |
| `EachByteIsOnce` | `Spec => EachByteOnce` |
| `ReadsWhatIsAnnounced` | what `readUint()` returns is the sum of the weighted length bytes |
| `NothingIsShiftedOut` | with up to eight bytes it stays below 256^8, as does every value on the way |

`Decoded` compares the parser between two calls with a decoder that knows no calls,
so that the invariant has to say how far each of them is in the middle of a call.
`Suffix`: the buffer is what the input ends with. `InStep`: there is a position k in the
buffer such that the decoder, after all the bytes before it, has delivered the same
frames and kept just the first k bytes of the buffer. For most framings k is 0: where
the parser stands the decoder has just begun a frame. With a length prefix it may be
up to one byte short of a header, because a header that cannot be right is given up by
the parser once it looks at it, by the decoder with its last byte. The lemmas
`FixedInStep` to `GivenUpInStep` carry `InStep` over each kind of step: the decoder is
run over the bytes that the step takes, of which all but the last are `Quiet`, that is,
end nothing. When `feed()` has returned all the bytes that are left are quiet
(`NothingWithheld`), and `InStep` for their number is `Decoded` (`DecodedWhenIdle`).
`Suffix` and `InStep` were model-checked as invariants too. `EachByteOnce` follows from
`Suffix`, a step at a time.

`Decode`, the sum and `readUint()` are recursive functions, and the library's theorems
about what such a function computes, and about induction over numbers, take an operator
as a parameter, which the provers cannot instantiate. `Induction` states both as facts
about sets and functions instead, and proves them from the well-foundedness of the order
of the numbers: a set with 0 and every successor holds all numbers (`FromZero`,
`FromTo`), and there is exactly one function that begins with a value and goes on with a
given function (`Recursion`, `OnlyOne`). `RunEquations`, `WeightEquations`,
`ValueEquations` and `SumEquations` are what follows for the four definitions.

`UartManagerProofs`, for any number of users, devices, ids and descriptors, from
`ThreadsAssumption`, `PortsAssumption` and `BoundsAssumption`:

| theorem | statement |
|---|---|
| `TypeCorrect` | `Spec => []TypeOK` |
| `MutexIsHeld` | `Spec => []MutexHeld` |
| `PollerIsJoined` | `Spec => []PollerJoined` |
| `DescriptorsAreOwned` | `Spec => []DescriptorsOwned` |
| `CallbacksAreAttributed` | `Spec => CallbacksAttributed` |

`ControlInv` is `TypeOK`, `MutexHeld` and `PollerJoined` with two strengthenings. While
the second loop runs, what it has still to visit is registered (`Dispatching`): it holds
the mutex, and every call that removes a port needs it, which is `MutexHeld`. `TypeOK`
bounds the second loop's position by the length of the first loop's lists and one more; it
needs `PollerJoined`, by which `startPolling()` begins a new thread, with lists of its own,
only when no other is in the middle of a round. And
by `Stopping` the flag stays clear from its clearing until the polling thread is joined
and the ports are removed. That the
first loop's list is a sequence, with one entry for each port, takes a fact about finite
sets (`CountPresent`). `DescriptorsOwned` is inductive on top of it; that callbacks
are attributed follows at the step that reports.

`UartPortProofs`, for any number of threads, devices and descriptors and any
configurations, from `NamesAssumption`, `ConfigsAssumption`, `InitialAssumption` and
`LimitsAssumption`:

| theorem | statement |
|---|---|
| `TypeCorrect` | `Spec => []TypeOK` |
| `DescriptorsAreOwned` | `Spec => []DescriptorsOwned` |
| `OpenPortIsRaw` | `Spec => []OpenIsRaw` |
| `WritesAreContiguous` | `Spec => WritesContiguous` |

`PortInv` adds to them who holds `mutex_` (`MutexHeld`), that its holder has the port open
(`FdKnown`), that the local copy of `configurePort()` is raw (`SavedIsRaw`), and
`RestIsComing`: a device that is in the middle of a `write()` is being written by the
holder of `mutex_`, with exactly the rest to come; a `write()` that fails leaves none.
Writes are contiguous because of the last, which needs all the others.

`TestProgramProofs`, for any documents, arguments and messages, from
`DocumentsAssumption`, `TextsAssumption`, `PollRoundsAssumption` and `NamesAssumption`
(the names of the threads, and of no message, are not taken):

| theorem | statement |
|---|---|
| `TypeCorrect` | `Spec => []TypeOK` |
| `LoadingIsMeant` | `Spec => LoadsMean` |
| `ProgramUsesClient` | `Spec => Client!Spec` |
| `ClientInProgram` | `Spec => []` of `Client!TypeOK`, `Client!MutexHeld`, `Client!StateOwned`, `Client!WorkersJoined` and `Client!ToldTruth` |
| `OutboxInProgram` | `Spec => Client!ImplementsOutbox` |
| `DropsOnlyIfLost` | `Spec => DroppedOnlyIfLost` |
| `AbortsOnlyIfLost` | `Spec => []AbortedOnlyIfLost` |

`LoadsMean` speaks of the step with which `loadConfig()` returns or throws; it holds
because of `LoadingInv`, what holds between two sections: the configuration is the
defaults with the sections read so far put in. `LoadedMerges` and `LoadedSkips` are the
two ways one more section changes that, and rest on no member's name being in two
sections. `ProgramUsesClient` is the refinement between the composition and its part;
`ClientInProgram` and `OutboxInProgram` are the theorems of `MqttClientProofs` for that
part. They come from the lemmas about single steps of an instance of that module,
`Proved`, which `OneClient` shows to speak of the same actions.

The last two theorems are the other side of `MqttClientOfflineQueue` and
`MqttClientThreads`: the queue thread and the destructor go wrong only after a connection
was refused or lost. Their invariant is `Calm`, which holds until then: the reconnect
thread was never started, a request that was answered succeeded and its link is still
up, and the queue thread of a running client finds the client connected. `Calm` joins the
state of the client, of Paho and the history variable `lost`. The end of `connect()`
keeps it because the link that was accepted cannot have gone down unseen (`LostSeen`),
`disconnect()` because it clears `running_` before the link goes, and the destructor
finds no thread because, without a loss, `disconnect()` returns early only when there is
no queue thread. `Calm` was model-checked as an invariant too.

Only model-checked is all liveness, because the prover has no rules for fairness and
`ENABLED` that would reach it: `EveryCallReturns` of the client and of the manager,
`CallbackReturns`, `QueueDrains`, `Recovers`, `ArrivalsRead`, `CallsReturn`, `ProgramEnds`
and `FeedReturns`. Every other property of the passing runs is a theorem.

## 5. Not modelled

- Results of `subscribe()` and the broker's view of subscriptions: the client keeps no
  record of them. Qos, retained messages, delivery tokens.
- The setters of the callbacks, callbacks that call back into the object (those in the
  sources only print), two threads that connect and disconnect the same client (the
  sources have one).
- Callbacks and publishers that come when the members of the client are being destroyed
  or are gone: `DestroyMembers` is one step and the last.
- `getUart()` inside `UartManager`: no file of the sources calls it. `UartPort` has what
  its pointer leads to.
- `reconnectAttempts_` and the delay computed from it, and all other durations.
- spdlog, which is not in the repository, with what depends on it: rotation, flushing,
  overflow of the log queue; a second initialisation of the logger, which no caller
  makes.
- Output, counters and statistics of the tests, and how often a test repeats a call.
- Vendored headers and binaries (`lib/`, `lib_aarch64/`, nearly all of the repository's
  lines) and build scripts: no logic of this program.

## 6. Plan

Order: what several threads share first. Done: `Outbox`, `MqttClient`, `UartManager`,
`UartPort`, `FrameParser` and `FrameReference`, `Configuration`, `TestProgram`, and the
proofs about all of them. Left, each for callers that the sources do not have:

1. Callbacks that call back: `connectionCallback_` under `stateMutex_`, the manager's
   callbacks under `mutex_`, `frame_callback_` before the erase.
2. Two threads that connect and disconnect the same client.
3. `Backoff`: the delay of the reconnect loop, against its bound and its width.
4. Proofs about what 1 and 2 add. For the present models all safety is proved.
