------------------------------ MODULE UartPort ------------------------------
(***************************************************************************)
(* The class Uart: threads that open, close, read, write and flush one     *)
(* serial port.  UartManager does this under a mutex of its own, but       *)
(* getUart() hands the object out, and then only mutex_ of the Uart is     *)
(* left.                                                                   *)
(*                                                                         *)
(* Steps are system calls: between two of them other threads run, the rest *)
(* of the process opens and closes files, and a device may be unplugged    *)
(* and come back.  A system call may also fail for a reason of its own, a  *)
(* signal or a line error, on a device that is there.                      *)
(* isOpen() and getFd() only read fd_, and a call refused because fd_ is   *)
(* -1 changes nothing.  The destructor is a close().                       *)
(***************************************************************************)
EXTENDS Naturals

CONSTANTS
  Threads,    \* the threads that use the object
  Devices,    \* the serial devices
  NoDevice,   \* what a free descriptor is open on
  Elsewhere,  \* a file that some other part of the process has open
  Configs,    \* the configurations that open() is called with
  Default,    \* the Config that a new object holds
  Initial,    \* the settings of the devices before the program ran
  MaxFd,      \* the descriptors the process may have open
  MaxLength   \* bound on the bytes of one write()

Fds  == 1..MaxFd
NoFd == 0          \* -1
Free == "free"     \* mutex_ is not held

Speeds == {300, 1200, 2400, 4800, 9600, 19200, 38400, 57600, 115200, 230400,
           460800, 500000, 921600, 1000000}

\* Uart::Config.
Config == [port : Devices, baud_rate : Nat, data_bits : Nat,
           parity : {"none", "odd", "even"}, stop_bits : {"1", "1.5", "2"},
           flow_control : BOOLEAN]

\* The parts of struct termios that the class writes.
Settings == [raw : BOOLEAN, vmin : Nat, speed : Nat, csize : 5..8,
             parenb : BOOLEAN, parodd : BOOLEAN, cstopb : BOOLEAN,
             crtscts : BOOLEAN]

ASSUME NamesAssumption ==
  Free \notin Threads /\ NoDevice \notin Devices \cup {Elsewhere}
    /\ Elsewhere \notin Devices
ASSUME ConfigsAssumption == Configs \subseteq Config /\ Default \in Config
ASSUME InitialAssumption == Initial \in Settings
ASSUME LimitsAssumption == MaxFd \in Nat /\ MaxLength \in Nat

VARIABLES
  fd,        \* fd_
  config,    \* config_
  mutex,     \* the thread that holds mutex_, or Free
  pc,        \* what each thread is doing
  setting,   \* how many of its setters configurePort() has called
  saved,     \* its local termios
  left,      \* the bytes that write() has still to write
  seen,      \* fd_ as each thread's flush() read it
  opened,    \* kernel: what each descriptor is open on
  termios,   \* kernel: the settings of each device
  input,     \* kernel: the devices with something to read
  last,      \* kernel: whose byte each device took last, and how many of the
             \* same write() are still to come
  gone       \* kernel: the devices that are unplugged

object == <<fd, config>>
locals == <<setting, saved, left, seen>>
kernel == <<opened, termios, input, last, gone>>
vars   == <<object, mutex, pc, locals, kernel>>

Init ==
  /\ fd = NoFd /\ config = Default
  /\ mutex = Free /\ pc = [t \in Threads |-> "idle"]
  /\ setting = 0 /\ saved = Initial /\ left = 0
  /\ seen = [t \in Threads |-> NoFd]
  /\ opened = [f \in Fds |-> NoDevice]
  /\ termios = [d \in Devices |-> Initial]
  /\ input = {} /\ gone = {}
  /\ last = [d \in Devices |-> [by |-> Free, left |-> 0]]

Goto(t, l) == pc' = [pc EXCEPT ![t] = l]

\* Thread t returns to its caller; the lock_guard lets go of mutex_.
Return(t) == Goto(t, "idle") /\ mutex' = Free

Lock(t, from, to) ==
  /\ pc[t] = from
  /\ mutex = Free
  /\ mutex' = t
  /\ Goto(t, to)

Call(t, operation) ==
  /\ pc[t] = "idle"
  /\ Goto(t, operation)
  /\ UNCHANGED <<object, mutex, locals, kernel>>

Device == opened[fd]     \* the device that the object's system calls reach

CloseFd ==
  /\ fd' = NoFd
  /\ opened' = [f \in Fds |-> IF f = fd THEN NoDevice ELSE opened[f]]

-----------------------------------------------------------------------------
(* open() and configurePort()                                              *)

\* A port that is open is closed first.
OpenStart(t) ==
  /\ Lock(t, "open", "opening")
  /\ CloseFd
  /\ UNCHANGED <<config, locals, termios, input, last, gone>>

FreeFds == {f \in Fds : opened[f] = NoDevice}

OpenDevice(t, c) ==
  /\ pc[t] = "opening"
  /\ c.port \notin gone
  /\ \E f \in FreeFds :
        /\ \A g \in FreeFds : f <= g
        /\ opened' = [opened EXCEPT ![f] = c.port]
        /\ fd' = f
  /\ config' = c
  /\ Goto(t, "configure")
  /\ UNCHANGED <<mutex, locals, termios, input, last, gone>>

\* No such device, no descriptor left, or not allowed.
OpenDeviceFails(t) ==
  /\ pc[t] = "opening"
  /\ Return(t)
  /\ UNCHANGED <<object, locals, kernel>>

\* Variant: VMIN stays as it was.
MakeRawBlocking(s) == [s EXCEPT !.raw = TRUE, !.csize = 8, !.parenb = FALSE]

\* cfmakeraw(), and VMIN = VTIME = 0; both in the local copy.
MakeRaw(s) == [s EXCEPT !.raw = TRUE, !.csize = 8, !.parenb = FALSE,
                        !.vmin = 0]

ConfigureStart(t) ==
  /\ pc[t] = "configure"
  /\ Device \notin gone
  /\ saved' = MakeRaw(termios[Device])
  /\ setting' = 0
  /\ Goto(t, "set")
  /\ UNCHANGED <<object, mutex, left, seen, kernel>>

\* Variant: any number of data bits goes.
SupportedAnyBits(c, n) ==
  /\ n = 1 => c.baud_rate \in Speeds
  /\ n = 4 => c.stop_bits \in {"1", "2"}

\* The n-th of setBaudRate(), setDataBits(), setParity(), setStopBits() and
\* setFlowControl() refuses values it does not know.
Supported(c, n) ==
  /\ n = 1 => c.baud_rate \in Speeds
  /\ n = 2 => c.data_bits \in 5..8
  /\ n = 4 => c.stop_bits \in {"1", "2"}

\* What it makes of the settings of the device.
Set(s, c, n) ==
  CASE n = 1 -> [s EXCEPT !.speed = c.baud_rate]
    [] n = 2 -> [s EXCEPT !.csize = c.data_bits]
    [] n = 3 -> [s EXCEPT !.parenb = c.parity # "none",
                          !.parodd = c.parity = "odd"]
    [] n = 4 -> [s EXCEPT !.cstopb = c.stop_bits = "2"]
    [] n = 5 -> [s EXCEPT !.crtscts = c.flow_control]

\* Each setter reads the settings of the device and writes them back.
CallSetter(t) ==
  /\ pc[t] = "set" /\ setting < 5
  /\ Device \notin gone
  /\ Supported(config, setting + 1)
  /\ termios' = [termios EXCEPT ![Device] = Set(@, config, setting + 1)]
  /\ setting' = setting + 1
  /\ UNCHANGED <<object, mutex, pc, saved, left, seen, opened, input, last,
                 gone>>

\* The locals of configurePort() go out of scope.
ForgetLocals == setting' = 0 /\ saved' = Initial

\* The last tcsetattr() writes the copy made before the setters ran.
ConfigureEnd(t) ==
  /\ pc[t] = "set" /\ setting = 5
  /\ Device \notin gone
  /\ termios' = [termios EXCEPT ![Device] = saved]
  /\ ForgetLocals
  /\ Return(t)
  /\ UNCHANGED <<object, left, seen, opened, input, last, gone>>

\* Variant: the descriptor is forgotten.
ConfigureFailsOpen(t) ==
  /\ pc[t] \in {"configure", "set"}
  /\ fd' = NoFd
  /\ ForgetLocals
  /\ Return(t)
  /\ UNCHANGED <<config, left, seen, kernel>>

\* configurePort() fails, at a value that it does not know or at any system
\* call, with the settings made so far left on the device.
ConfigureFails(t) ==
  /\ pc[t] \in {"configure", "set"}
  /\ CloseFd
  /\ ForgetLocals
  /\ Return(t)
  /\ UNCHANGED <<config, left, seen, termios, input, last, gone>>

-----------------------------------------------------------------------------
(* close(), setDataCallback() and flush()                                  *)

Close(t) ==
  /\ pc[t] = "close" /\ mutex = Free
  /\ CloseFd
  /\ Goto(t, "idle")
  /\ UNCHANGED <<config, mutex, locals, termios, input, last, gone>>

\* data_callback_ is set, under the mutex, and never called.
SetDataCallback(t) ==
  /\ pc[t] = "setDataCallback" /\ mutex = Free
  /\ Goto(t, "idle")
  /\ UNCHANGED <<object, mutex, locals, kernel>>

\* flush(), flushInput() and flushOutput() test fd_ and use it without the
\* mutex, reading it once or twice: what tcflush() is given may be the
\* descriptor of another file by then.
FlushTest(t) ==
  /\ pc[t] = "flush"
  /\ seen' = [seen EXCEPT ![t] = fd]
  /\ Goto(t, IF fd = NoFd THEN "idle" ELSE "flushing")
  /\ UNCHANGED <<object, mutex, setting, saved, left, kernel>>

Flush(t) ==
  /\ pc[t] = "flushing"
  /\ \/ \E f \in {seen[t], fd} \ {NoFd} : input' = input \ {opened[f]}
     \/ UNCHANGED input
  /\ seen' = [seen EXCEPT ![t] = NoFd]
  /\ Goto(t, "idle")
  /\ UNCHANGED <<object, mutex, setting, saved, left, opened, termios, last,
                 gone>>

-----------------------------------------------------------------------------
(* write()                                                                 *)

\* A port that is not open is neither written nor read: -1.
Refuse(t) ==
  /\ pc[t] \in {"write", "read"} /\ mutex = Free
  /\ fd = NoFd
  /\ Goto(t, "idle")
  /\ UNCHANGED <<object, mutex, locals, kernel>>

WriteStart(t) ==
  /\ fd # NoFd
  /\ Lock(t, "write", "writing")
  /\ left' \in 0..MaxLength
  /\ UNCHANGED <<object, setting, saved, seen, kernel>>

\* ::write() takes some of the bytes.
WriteSome(t) ==
  /\ pc[t] = "writing" /\ left > 0
  /\ Device \notin gone
  /\ left' \in 0..left - 1
  /\ last' = [last EXCEPT ![Device] = [by |-> t, left |-> left']]
  /\ UNCHANGED <<object, mutex, pc, setting, saved, seen, opened, termios,
                 input, gone>>

\* Variant: ::write() is called once, whatever it takes.
WriteEndEarly(t) ==
  /\ pc[t] = "writing"
  /\ left' = 0
  /\ Return(t)
  /\ UNCHANGED <<object, setting, saved, seen, kernel>>

\* Everything is written.  Until then the thread keeps the mutex, also while
\* EAGAIN makes it wait for WriteSome.
WriteEnd(t) ==
  /\ pc[t] = "writing" /\ left = 0
  /\ Return(t)
  /\ UNCHANGED <<object, locals, kernel>>

\* Variant: every error is taken for EAGAIN.
WriteRetries(t) ==
  /\ pc[t] = "writing" /\ left > 0
  /\ UNCHANGED vars

\* ::write() fails for another reason than EAGAIN, with a part of the bytes
\* written: the rest never comes.
WriteFails(t) ==
  /\ pc[t] = "writing" /\ left > 0
  /\ left' = 0
  /\ last' = [last EXCEPT ![Device].left = 0]
  /\ Return(t)
  /\ UNCHANGED <<object, setting, saved, seen, opened, termios, input, gone>>

-----------------------------------------------------------------------------
(* read() and waitForData()                                                *)

Readable(f) == opened[f] \in input \cup gone

\* read() with a time-out, or with -1, which waits as long as it takes.
ReadStart(t) ==
  /\ fd # NoFd
  /\ \E wait \in {"poll", "pollForever"} : Lock(t, "read", wait)
  /\ UNCHANGED <<object, locals, kernel>>

PollReady(t) ==
  /\ pc[t] \in {"poll", "pollForever"}
  /\ Readable(fd)
  /\ Goto(t, "reading")
  /\ UNCHANGED <<object, mutex, locals, kernel>>

\* The time is over, or a signal interrupts poll(): read() returns 0.
PollTimeout(t) ==
  /\ pc[t] \in {"poll", "pollForever"}
  /\ Return(t)
  /\ UNCHANGED <<object, locals, kernel>>

\* ::read() of a raw port takes what there is.
Read(t) ==
  /\ pc[t] = "reading"
  /\ input' = input \ {Device}
  /\ Return(t)
  /\ UNCHANGED <<object, locals, opened, termios, last, gone>>

-----------------------------------------------------------------------------
(* The rest of the process, and the devices                                *)

OpenElsewhere ==
  /\ \E f \in FreeFds :
        /\ \A g \in FreeFds : f <= g
        /\ opened' = [opened EXCEPT ![f] = Elsewhere]
  /\ UNCHANGED <<object, mutex, pc, locals, termios, input, last, gone>>

CloseElsewhere ==
  /\ \E f \in Fds : /\ opened[f] = Elsewhere
                     /\ opened' = [opened EXCEPT ![f] = NoDevice]
  /\ UNCHANGED <<object, mutex, pc, locals, termios, input, last, gone>>

Arrive(d) ==
  /\ d \notin input \cup gone
  /\ input' = input \cup {d}
  /\ UNCHANGED <<object, mutex, pc, locals, opened, termios, last, gone>>

Unplug(d) ==
  /\ d \notin gone
  /\ gone' = gone \cup {d} /\ input' = input \ {d}
  /\ UNCHANGED <<object, mutex, pc, locals, opened, termios, last>>

\* The device comes back with the settings of a new one.  Its name is taken
\* as long as somebody has the device open that went.
Replug(d) ==
  /\ d \in gone /\ \A f \in Fds : opened[f] # d
  /\ gone' = gone \ {d}
  /\ termios' = [termios EXCEPT ![d] = Initial]
  /\ UNCHANGED <<object, mutex, pc, locals, opened, input, last>>

-----------------------------------------------------------------------------
Calls == {"open", "close", "write", "read", "flush", "setDataCallback"}

\* A call gets mutex_, or does not want it.
Enter(t) == OpenStart(t) \/ Close(t) \/ SetDataCallback(t) \/ FlushTest(t)
              \/ Refuse(t) \/ WriteStart(t) \/ ReadStart(t)

\* A call goes on, whatever the device does.
Proceed(t) ==
  \/ \E c \in Configs : OpenDevice(t, c)
  \/ OpenDeviceFails(t)
  \/ ConfigureStart(t) \/ CallSetter(t) \/ ConfigureEnd(t) \/ ConfigureFails(t)
  \/ Flush(t) \/ WriteEnd(t) \/ PollReady(t) \/ Read(t)

\* What a call may have to wait for: a device that takes bytes, an error, a
\* signal.
Await(t) == WriteSome(t) \/ WriteFails(t) \/ PollTimeout(t)

\* The waits that end: ::write() to a device that is gone fails, and a
\* time-out passes.
AwaitEnds(t) ==
  \/ pc[t] = "writing" /\ Device \in gone /\ WriteFails(t)
  \/ pc[t] = "poll" /\ PollTimeout(t)

Next ==
  \/ \E t \in Threads : \/ \E c \in Calls : Call(t, c)
                        \/ Enter(t) \/ Proceed(t) \/ Await(t)
  \/ OpenElsewhere \/ CloseElsewhere
  \/ \E d \in Devices : Arrive(d) \/ Unplug(d) \/ Replug(d)

Spec == Init /\ [][Next]_vars

\* A thread that can go on does, and one that waits for mutex_ gets it if it
\* is free again and again.  No device has to take what is written to it.
FairSpec ==
  Spec /\ \A t \in Threads : SF_vars(Enter(t) \/ Proceed(t) \/ AwaitEnds(t))

-----------------------------------------------------------------------------
(* Properties                                                              *)

\* The steps at which a thread is between lock and unlock of mutex_.
Critical == {"opening", "configure", "set", "writing", "poll", "pollForever",
             "reading"}

TypeOK ==
  /\ fd \in Fds \cup {NoFd} /\ config \in Config
  /\ mutex \in Threads \cup {Free}
  /\ pc \in [Threads -> Calls \cup Critical \cup {"idle", "flushing"}]
  /\ setting \in 0..5 /\ saved \in Settings /\ left \in Nat
  /\ seen \in [Threads -> Fds \cup {NoFd}]
  /\ opened \in [Fds -> Devices \cup {NoDevice, Elsewhere}]
  /\ termios \in [Devices -> Settings]
  /\ input \in SUBSET Devices /\ gone \in SUBSET Devices
  /\ last \in [Devices -> [by : Threads \cup {Free}, left : Nat]]

\* The port has the device of its configuration open, through fd_ and
\* through no other descriptor; a port that is not open, for instance because
\* one of the steps of configurePort() failed, has left none behind.
DescriptorsOwned ==
  /\ fd # NoFd => opened[fd] = config.port
  /\ \A f \in Fds : opened[f] \in Devices => f = fd

\* Whatever open() calls failed before, half way through their settings, the
\* port that is open is raw and its reads do not wait.
OpenIsRaw ==
  fd # NoFd /\ (\A t \in Threads : pc[t] \notin {"configure", "set"})
    => termios[config.port].raw /\ termios[config.port].vmin = 0

\* Two threads that write do not mix their bytes on the line: between the
\* first byte of a write() and its last, or the error that ends it, a device
\* takes only the bytes that follow, although ::write() takes a part at a
\* time and the descriptor may be closed and opened again.
WritesContiguous ==
  [][\A d \in Devices :
       last'[d] # last[d] /\ last[d].left > 0
         => last'[d].by = last[d].by /\ last'[d].left < last[d].left]_vars

\* The two calls that may keep mutex_ for ever: a write() to a device that
\* takes no more bytes, and a read() without a time-out when nothing comes.
Stalled(t) ==
  \/ pc[t] = "writing" /\ left > 0 /\ Device \notin gone
  \/ pc[t] = "pollForever" /\ ~Readable(fd)

\* A call gets mutex_ and returns, unless one of the calls is stalled for
\* ever: flow control, an error or a device that goes away, while other
\* threads wait, must not leave the mutex held.
CallsReturn ==
  \A t \in Threads :
    pc[t] # "idle" ~> pc[t] = "idle" \/ \E s \in Threads : []Stalled(s)

\* A port that open() has opened has the settings it was asked for.
SettingsAsAsked ==
  fd # NoFd /\ (\A t \in Threads : pc[t] \notin {"configure", "set"})
    => \A n \in 1..5 : Set(termios[config.port], config, n)
                         = termios[config.port]
=============================================================================
