--------------------------- MODULE UartPortProofs ---------------------------
(***************************************************************************)
(* Proofs about UartPort, for any number of threads, devices and           *)
(* descriptors and any configurations: the type invariant, that no step of *)
(* open() leaks or loses a descriptor, that an open port is raw, and that  *)
(* the bytes of two write() calls do not mix.                              *)
(*                                                                         *)
(* All of it rests on mutex_: PortInv says who holds it, that fd_ is valid *)
(* while a system call of its holder uses it, that the local termios of    *)
(* configurePort() is raw, and that a device which is in the middle of a   *)
(* write() is being written by the thread that holds mutex_.               *)
(***************************************************************************)
EXTENDS UartPort, TLAPS

\* The holder of mutex_ is the one thread between lock and unlock.
MutexHeld == \A t \in Threads : mutex = t <=> pc[t] \in Critical

\* It has the port open once ::open() has succeeded.
FdKnown ==
  \A t \in Threads : /\ pc[t] = "opening" => fd = NoFd
                     /\ pc[t] \in Critical \ {"opening"} => fd # NoFd

SavedIsRaw ==
  \A t \in Threads : pc[t] = "set" => saved.raw /\ saved.vmin = 0

\* A device that waits for the rest of a write() is the one being written.
RestIsComing ==
  \A d \in Devices :
    last[d].left > 0 =>
      \E t \in Threads : /\ pc[t] = "writing" /\ last[d].by = t
                         /\ left = last[d].left /\ opened[fd] = d

PortInv == /\ TypeOK /\ MutexHeld /\ FdKnown /\ DescriptorsOwned
           /\ SavedIsRaw /\ OpenIsRaw /\ RestIsComing

LEMMA NextSteps ==
  ASSUME Next
  PROVE  \/ \E t \in Threads, c \in Calls : Call(t, c)
         \/ \E t \in Threads :
               \/ OpenStart(t) \/ Close(t) \/ SetDataCallback(t)
               \/ FlushTest(t) \/ Refuse(t) \/ WriteStart(t) \/ ReadStart(t)
         \/ \E t \in Threads, c \in Configs : OpenDevice(t, c)
         \/ \E t \in Threads :
               \/ ConfigureStart(t) \/ CallSetter(t) \/ ConfigureEnd(t)
               \/ ConfigureFails(t) \/ Flush(t) \/ WriteSome(t) \/ WriteEnd(t)
               \/ PollReady(t) \/ PollTimeout(t) \/ Read(t)
               \/ OpenDeviceFails(t) \/ WriteFails(t)
         \/ OpenElsewhere \/ CloseElsewhere
         \/ \E d \in Devices : Arrive(d) \/ Unplug(d) \/ Replug(d)
<1>1. CASE \E t \in Threads : Enter(t)
  BY <1>1 DEF Enter
<1>2. CASE \E t \in Threads : Proceed(t)
  BY <1>2 DEF Proceed
<1>3. CASE \E t \in Threads : Await(t)
  BY <1>3 DEF Await
<1>4. CASE ~\E t \in Threads : Enter(t) \/ Proceed(t) \/ Await(t)
  BY <1>4 DEF Next
<1> QED
  BY <1>1, <1>2, <1>3, <1>4

-----------------------------------------------------------------------------
(* What the operators on settings return                                   *)

LEMMA RawSettings ==
  ASSUME NEW s \in Settings
  PROVE  /\ MakeRaw(s) \in Settings
         /\ MakeRaw(s).raw /\ MakeRaw(s).vmin = 0
<1>1. MakeRaw(s) \in Settings
  <2> DEFINE yes == TRUE
             no == FALSE
             eight == 8
             zero == 0
  <2>1. yes \in BOOLEAN /\ no \in BOOLEAN /\ eight \in 5..8 /\ zero \in Nat
    OBVIOUS
  <2>2. MakeRaw(s) = [s EXCEPT !.raw = yes, !.csize = eight, !.parenb = no,
                               !.vmin = zero]
    BY DEF MakeRaw
  <2> HIDE DEF yes, no, eight, zero
  <2> QED
    BY <2>1, <2>2 DEF Settings
<1>2. MakeRaw(s).raw = TRUE
  BY DEF Settings, MakeRaw
<1>3. MakeRaw(s).vmin = 0
  BY DEF Settings, MakeRaw
<1> QED
  BY <1>1, <1>2, <1>3

LEMMA SetterTyped ==
  ASSUME NEW s \in Settings, NEW c \in Config, NEW n \in 1..5,
         Supported(c, n)
  PROVE  Set(s, c, n) \in Settings
<1>1. CASE n = 1
  BY <1>1 DEF Set, Settings, Config
<1>2. CASE n = 2
  BY <1>2 DEF Set, Settings, Supported
<1>3. CASE n = 3
  <2> DEFINE odd == c.parity = "odd"
             some == c.parity # "none"
  <2>1. odd \in BOOLEAN /\ some \in BOOLEAN
    OBVIOUS
  <2>2. Set(s, c, n) = [s EXCEPT !.parenb = some, !.parodd = odd]
    BY <1>3 DEF Set
  <2> HIDE DEF odd, some
  <2> QED
    BY <2>1, <2>2 DEF Settings
<1>4. CASE n = 4
  <2> DEFINE two == c.stop_bits = "2"
  <2>1. two \in BOOLEAN
    OBVIOUS
  <2>2. Set(s, c, n) = [s EXCEPT !.cstopb = two]
    BY <1>4 DEF Set
  <2> HIDE DEF two
  <2> QED
    BY <2>1, <2>2 DEF Settings
<1>5. CASE n = 5
  BY <1>5 DEF Set, Settings, Config
<1> QED
  BY <1>1, <1>2, <1>3, <1>4, <1>5

LEMMA OneHolder ==
  ASSUME TypeOK, MutexHeld, NEW t \in Threads, pc[t] \in Critical
  PROVE  mutex = t /\ \A s \in Threads : pc[s] \in Critical => s = t
  BY DEF MutexHeld

LEMMA NoHolder ==
  ASSUME MutexHeld, mutex = Free
  PROVE  \A s \in Threads : pc[s] \notin Critical
  BY NamesAssumption DEF MutexHeld

\* The device that a holder's system call reaches is a device.
LEMMA DeviceKnown ==
  ASSUME TypeOK, FdKnown, DescriptorsOwned, NEW t \in Threads,
         pc[t] \in Critical \ {"opening"}
  PROVE  fd \in Fds /\ Device = config.port /\ Device \in Devices
  BY DEF TypeOK, FdKnown, DescriptorsOwned, Device, Config

-----------------------------------------------------------------------------
(* Every part of PortInv is preserved                                      *)

LEMMA TypeStep ==
  ASSUME TypeOK, FdKnown, DescriptorsOwned, [Next]_vars
  PROVE  TypeOK'
<1> USE DEF TypeOK, Goto, Return, Lock, CloseFd, ForgetLocals, Calls, Critical,
         object, locals, kernel
<1>1. CASE UNCHANGED vars
  BY <1>1 DEF vars
<1>2. ASSUME NEW t \in Threads, NEW c \in Calls, Call(t, c)
      PROVE  TypeOK'
  BY <1>2 DEF Call
<1>3. ASSUME NEW t \in Threads, OpenStart(t)
      PROVE  TypeOK'
  BY <1>3 DEF OpenStart
<1>4. ASSUME NEW t \in Threads, Close(t)
      PROVE  TypeOK'
  BY <1>4 DEF Close
<1>5. ASSUME NEW t \in Threads, SetDataCallback(t)
      PROVE  TypeOK'
  BY <1>5 DEF SetDataCallback
<1>6. ASSUME NEW t \in Threads, FlushTest(t)
      PROVE  TypeOK'
  BY <1>6 DEF FlushTest
<1>7. ASSUME NEW t \in Threads, Refuse(t)
      PROVE  TypeOK'
  BY <1>7 DEF Refuse
<1>8. ASSUME NEW t \in Threads, WriteStart(t)
      PROVE  TypeOK'
  <2>1. left' \in Nat
    BY <1>8, LimitsAssumption DEF WriteStart
  <2> QED
    BY <1>8, <2>1 DEF WriteStart
<1>9. ASSUME NEW t \in Threads, ReadStart(t)
      PROVE  TypeOK'
  BY <1>9 DEF ReadStart
<1>10. ASSUME NEW t \in Threads, NEW c \in Configs, OpenDevice(t, c)
      PROVE  TypeOK'
  <2>1. c \in Config /\ c.port \in Devices
    BY ConfigsAssumption DEF Config
  <2> QED
    BY <1>10, <2>1 DEF OpenDevice, FreeFds
<1>11. ASSUME NEW t \in Threads, OpenDeviceFails(t)
      PROVE  TypeOK'
  BY <1>11 DEF OpenDeviceFails
<1>12. ASSUME NEW t \in Threads, ConfigureStart(t)
      PROVE  TypeOK'
  <2>1. Device \in Devices /\ termios[Device] \in Settings
    BY <1>12, DeviceKnown DEF ConfigureStart
  <2>2. MakeRaw(termios[Device]) \in Settings
    BY <2>1, RawSettings
  <2> QED
    BY <1>12, <2>2 DEF ConfigureStart
<1>13. ASSUME NEW t \in Threads, CallSetter(t)
      PROVE  TypeOK'
  <2>1. Device \in Devices /\ termios[Device] \in Settings
    BY <1>13, DeviceKnown DEF CallSetter
  <2>2. setting + 1 \in 1..5 /\ Supported(config, setting + 1)
    BY <1>13 DEF CallSetter
  <2>3. Set(termios[Device], config, setting + 1) \in Settings
    BY <2>1, <2>2, SetterTyped
  <2>4. termios' \in [Devices -> Settings]
    BY <1>13, <2>1, <2>3 DEF CallSetter
  <2> QED
    BY <1>13, <2>2, <2>4 DEF CallSetter
<1>14. ASSUME NEW t \in Threads, ConfigureEnd(t)
      PROVE  TypeOK'
  <2>1. Device \in Devices
    BY <1>14, DeviceKnown DEF ConfigureEnd
  <2>2. termios' \in [Devices -> Settings]
    BY <1>14, <2>1 DEF ConfigureEnd
  <2> QED
    BY <1>14, <2>2, InitialAssumption DEF ConfigureEnd
<1>15. ASSUME NEW t \in Threads, ConfigureFails(t)
      PROVE  TypeOK'
  BY <1>15, InitialAssumption DEF ConfigureFails
<1>16. ASSUME NEW t \in Threads, Flush(t)
      PROVE  TypeOK'
  BY <1>16 DEF Flush
<1>17. ASSUME NEW t \in Threads, WriteSome(t)
      PROVE  TypeOK'
  <2>1. Device \in Devices
    BY <1>17, DeviceKnown DEF WriteSome
  <2>2. left' \in Nat
    BY <1>17 DEF WriteSome
  <2> QED
    BY <1>17, <2>1, <2>2 DEF WriteSome
<1>18. ASSUME NEW t \in Threads, WriteEnd(t)
      PROVE  TypeOK'
  BY <1>18 DEF WriteEnd
<1>19. ASSUME NEW t \in Threads, PollReady(t)
      PROVE  TypeOK'
  BY <1>19 DEF PollReady
<1>20. ASSUME NEW t \in Threads, PollTimeout(t)
      PROVE  TypeOK'
  BY <1>20 DEF PollTimeout
<1>21. ASSUME NEW t \in Threads, Read(t)
      PROVE  TypeOK'
  BY <1>21 DEF Read
<1>22. CASE OpenElsewhere
  BY <1>22 DEF OpenElsewhere
<1>23. CASE CloseElsewhere
  BY <1>23 DEF CloseElsewhere
<1>24. ASSUME NEW d \in Devices, Arrive(d)
      PROVE  TypeOK'
  BY <1>24 DEF Arrive
<1>25. ASSUME NEW d \in Devices, Unplug(d)
      PROVE  TypeOK'
  BY <1>25 DEF Unplug
<1>26. ASSUME NEW t \in Threads, WriteFails(t)
      PROVE  TypeOK'
  <2>1. Device \in Devices
    BY <1>26, DeviceKnown DEF WriteFails
  <2> QED
    BY <1>26, <2>1 DEF WriteFails
<1>27. ASSUME NEW d \in Devices, Replug(d)
      PROVE  TypeOK'
  BY <1>27, InitialAssumption DEF Replug
<1> QED
  BY NextSteps, <1>1, <1>2, <1>3, <1>4, <1>5, <1>6, <1>7, <1>8, <1>9, <1>10, <1>11, <1>12, <1>13, <1>14, <1>15, <1>16, <1>17, <1>18, <1>19, <1>20, <1>21, <1>22, <1>23, <1>24, <1>25, <1>26, <1>27

LEMMA MutexStep ==
  ASSUME TypeOK, MutexHeld, [Next]_vars
  PROVE  MutexHeld'
<1> USE NamesAssumption DEF MutexHeld, TypeOK, Goto, Return, Lock, Calls, Critical,
         object, locals, kernel
<1>1. CASE UNCHANGED vars
  BY <1>1 DEF vars
<1>2. ASSUME NEW t \in Threads, NEW c \in Calls, Call(t, c)
      PROVE  MutexHeld'
  BY <1>2 DEF Call
<1>3. ASSUME NEW t \in Threads, OpenStart(t)
      PROVE  MutexHeld'
  BY <1>3 DEF OpenStart
<1>4. ASSUME NEW t \in Threads, Close(t)
      PROVE  MutexHeld'
  BY <1>4 DEF Close
<1>5. ASSUME NEW t \in Threads, SetDataCallback(t)
      PROVE  MutexHeld'
  BY <1>5 DEF SetDataCallback
<1>6. ASSUME NEW t \in Threads, FlushTest(t)
      PROVE  MutexHeld'
  BY <1>6 DEF FlushTest
<1>7. ASSUME NEW t \in Threads, Refuse(t)
      PROVE  MutexHeld'
  BY <1>7 DEF Refuse
<1>8. ASSUME NEW t \in Threads, WriteStart(t)
      PROVE  MutexHeld'
  BY <1>8 DEF WriteStart
<1>9. ASSUME NEW t \in Threads, ReadStart(t)
      PROVE  MutexHeld'
  BY <1>9 DEF ReadStart
<1>10. ASSUME NEW t \in Threads, NEW c \in Configs, OpenDevice(t, c)
      PROVE  MutexHeld'
  BY <1>10 DEF OpenDevice
<1>11. ASSUME NEW t \in Threads, OpenDeviceFails(t)
      PROVE  MutexHeld'
  BY <1>11 DEF OpenDeviceFails
<1>12. ASSUME NEW t \in Threads, ConfigureStart(t)
      PROVE  MutexHeld'
  BY <1>12 DEF ConfigureStart
<1>13. ASSUME NEW t \in Threads, CallSetter(t)
      PROVE  MutexHeld'
  BY <1>13 DEF CallSetter
<1>14. ASSUME NEW t \in Threads, ConfigureEnd(t)
      PROVE  MutexHeld'
  BY <1>14 DEF ConfigureEnd
<1>15. ASSUME NEW t \in Threads, ConfigureFails(t)
      PROVE  MutexHeld'
  BY <1>15 DEF ConfigureFails
<1>16. ASSUME NEW t \in Threads, Flush(t)
      PROVE  MutexHeld'
  BY <1>16 DEF Flush
<1>17. ASSUME NEW t \in Threads, WriteSome(t)
      PROVE  MutexHeld'
  BY <1>17 DEF WriteSome
<1>18. ASSUME NEW t \in Threads, WriteEnd(t)
      PROVE  MutexHeld'
  BY <1>18 DEF WriteEnd
<1>19. ASSUME NEW t \in Threads, PollReady(t)
      PROVE  MutexHeld'
  BY <1>19 DEF PollReady
<1>20. ASSUME NEW t \in Threads, PollTimeout(t)
      PROVE  MutexHeld'
  BY <1>20 DEF PollTimeout
<1>21. ASSUME NEW t \in Threads, Read(t)
      PROVE  MutexHeld'
  BY <1>21 DEF Read
<1>22. CASE OpenElsewhere
  BY <1>22 DEF OpenElsewhere
<1>23. CASE CloseElsewhere
  BY <1>23 DEF CloseElsewhere
<1>24. ASSUME NEW d \in Devices, Arrive(d)
      PROVE  MutexHeld'
  BY <1>24 DEF Arrive
<1>25. ASSUME NEW d \in Devices, Unplug(d)
      PROVE  MutexHeld'
  BY <1>25 DEF Unplug
<1>26. ASSUME NEW t \in Threads, WriteFails(t)
      PROVE  MutexHeld'
  BY <1>26 DEF WriteFails
<1>27. ASSUME NEW d \in Devices, Replug(d)
      PROVE  MutexHeld'
  BY <1>27 DEF Replug
<1> QED
  BY NextSteps, <1>1, <1>2, <1>3, <1>4, <1>5, <1>6, <1>7, <1>8, <1>9, <1>10, <1>11, <1>12, <1>13, <1>14, <1>15, <1>16, <1>17, <1>18, <1>19, <1>20, <1>21, <1>22, <1>23, <1>24, <1>25, <1>26, <1>27

LEMMA FdStep ==
  ASSUME TypeOK, MutexHeld, FdKnown, DescriptorsOwned, [Next]_vars
  PROVE  FdKnown'
<1> USE OneHolder, NoHolder
         DEF FdKnown, TypeOK, Goto, Return, Lock, CloseFd, Calls, Critical,
         object, locals, kernel
<1>1. CASE UNCHANGED vars
  BY <1>1 DEF vars
<1>2. ASSUME NEW t \in Threads, NEW c \in Calls, Call(t, c)
      PROVE  FdKnown'
  BY <1>2 DEF Call
<1>3. ASSUME NEW t \in Threads, OpenStart(t)
      PROVE  FdKnown'
  BY <1>3 DEF OpenStart
<1>4. ASSUME NEW t \in Threads, Close(t)
      PROVE  FdKnown'
  BY <1>4 DEF Close
<1>5. ASSUME NEW t \in Threads, SetDataCallback(t)
      PROVE  FdKnown'
  BY <1>5 DEF SetDataCallback
<1>6. ASSUME NEW t \in Threads, FlushTest(t)
      PROVE  FdKnown'
  BY <1>6 DEF FlushTest
<1>7. ASSUME NEW t \in Threads, Refuse(t)
      PROVE  FdKnown'
  BY <1>7 DEF Refuse
<1>8. ASSUME NEW t \in Threads, WriteStart(t)
      PROVE  FdKnown'
  BY <1>8 DEF WriteStart
<1>9. ASSUME NEW t \in Threads, ReadStart(t)
      PROVE  FdKnown'
  BY <1>9 DEF ReadStart
<1>10. ASSUME NEW t \in Threads, NEW c \in Configs, OpenDevice(t, c)
      PROVE  FdKnown'
  BY <1>10 DEF OpenDevice, FreeFds, Fds, NoFd
<1>11. ASSUME NEW t \in Threads, OpenDeviceFails(t)
      PROVE  FdKnown'
  BY <1>11 DEF OpenDeviceFails
<1>12. ASSUME NEW t \in Threads, ConfigureStart(t)
      PROVE  FdKnown'
  BY <1>12 DEF ConfigureStart
<1>13. ASSUME NEW t \in Threads, CallSetter(t)
      PROVE  FdKnown'
  BY <1>13 DEF CallSetter
<1>14. ASSUME NEW t \in Threads, ConfigureEnd(t)
      PROVE  FdKnown'
  BY <1>14 DEF ConfigureEnd
<1>15. ASSUME NEW t \in Threads, ConfigureFails(t)
      PROVE  FdKnown'
  BY <1>15 DEF ConfigureFails
<1>16. ASSUME NEW t \in Threads, Flush(t)
      PROVE  FdKnown'
  BY <1>16 DEF Flush
<1>17. ASSUME NEW t \in Threads, WriteSome(t)
      PROVE  FdKnown'
  BY <1>17 DEF WriteSome
<1>18. ASSUME NEW t \in Threads, WriteEnd(t)
      PROVE  FdKnown'
  BY <1>18 DEF WriteEnd
<1>19. ASSUME NEW t \in Threads, PollReady(t)
      PROVE  FdKnown'
  BY <1>19 DEF PollReady
<1>20. ASSUME NEW t \in Threads, PollTimeout(t)
      PROVE  FdKnown'
  BY <1>20 DEF PollTimeout
<1>21. ASSUME NEW t \in Threads, Read(t)
      PROVE  FdKnown'
  BY <1>21 DEF Read
<1>22. CASE OpenElsewhere
  BY <1>22 DEF OpenElsewhere
<1>23. CASE CloseElsewhere
  BY <1>23 DEF CloseElsewhere
<1>24. ASSUME NEW d \in Devices, Arrive(d)
      PROVE  FdKnown'
  BY <1>24 DEF Arrive
<1>25. ASSUME NEW d \in Devices, Unplug(d)
      PROVE  FdKnown'
  BY <1>25 DEF Unplug
<1>26. ASSUME NEW t \in Threads, WriteFails(t)
      PROVE  FdKnown'
  BY <1>26 DEF WriteFails
<1>27. ASSUME NEW d \in Devices, Replug(d)
      PROVE  FdKnown'
  BY <1>27 DEF Replug
<1> QED
  BY NextSteps, <1>1, <1>2, <1>3, <1>4, <1>5, <1>6, <1>7, <1>8, <1>9, <1>10, <1>11, <1>12, <1>13, <1>14, <1>15, <1>16, <1>17, <1>18, <1>19, <1>20, <1>21, <1>22, <1>23, <1>24, <1>25, <1>26, <1>27

LEMMA DescriptorStep ==
  ASSUME TypeOK, MutexHeld, FdKnown, DescriptorsOwned, [Next]_vars
  PROVE  DescriptorsOwned'
<1> USE NamesAssumption
         DEF DescriptorsOwned, TypeOK, Goto, Return, Lock, CloseFd, Critical,
         object, locals, kernel
<1>1. CASE UNCHANGED vars
  BY <1>1 DEF vars
<1>2. ASSUME NEW t \in Threads, NEW c \in Calls, Call(t, c)
      PROVE  DescriptorsOwned'
  BY <1>2 DEF Call
<1>3. ASSUME NEW t \in Threads, OpenStart(t)
      PROVE  DescriptorsOwned'
  BY <1>3 DEF OpenStart
<1>4. ASSUME NEW t \in Threads, Close(t)
      PROVE  DescriptorsOwned'
  BY <1>4 DEF Close
<1>5. ASSUME NEW t \in Threads, SetDataCallback(t)
      PROVE  DescriptorsOwned'
  BY <1>5 DEF SetDataCallback
<1>6. ASSUME NEW t \in Threads, FlushTest(t)
      PROVE  DescriptorsOwned'
  BY <1>6 DEF FlushTest
<1>7. ASSUME NEW t \in Threads, Refuse(t)
      PROVE  DescriptorsOwned'
  BY <1>7 DEF Refuse
<1>8. ASSUME NEW t \in Threads, WriteStart(t)
      PROVE  DescriptorsOwned'
  BY <1>8 DEF WriteStart
<1>9. ASSUME NEW t \in Threads, ReadStart(t)
      PROVE  DescriptorsOwned'
  BY <1>9 DEF ReadStart
<1>10. ASSUME NEW t \in Threads, NEW c \in Configs, OpenDevice(t, c)
      PROVE  DescriptorsOwned'
  <2>1. c.port \in Devices
    BY ConfigsAssumption DEF Config
  <2>2. fd = NoFd
    BY <1>10 DEF OpenDevice, FdKnown
  <2> QED
    BY <1>10, <2>1, <2>2 DEF OpenDevice, FreeFds, Fds, NoFd
<1>11. ASSUME NEW t \in Threads, OpenDeviceFails(t)
      PROVE  DescriptorsOwned'
  BY <1>11 DEF OpenDeviceFails
<1>12. ASSUME NEW t \in Threads, ConfigureStart(t)
      PROVE  DescriptorsOwned'
  BY <1>12 DEF ConfigureStart
<1>13. ASSUME NEW t \in Threads, CallSetter(t)
      PROVE  DescriptorsOwned'
  BY <1>13 DEF CallSetter
<1>14. ASSUME NEW t \in Threads, ConfigureEnd(t)
      PROVE  DescriptorsOwned'
  BY <1>14 DEF ConfigureEnd
<1>15. ASSUME NEW t \in Threads, ConfigureFails(t)
      PROVE  DescriptorsOwned'
  BY <1>15 DEF ConfigureFails
<1>16. ASSUME NEW t \in Threads, Flush(t)
      PROVE  DescriptorsOwned'
  BY <1>16 DEF Flush
<1>17. ASSUME NEW t \in Threads, WriteSome(t)
      PROVE  DescriptorsOwned'
  BY <1>17 DEF WriteSome
<1>18. ASSUME NEW t \in Threads, WriteEnd(t)
      PROVE  DescriptorsOwned'
  BY <1>18 DEF WriteEnd
<1>19. ASSUME NEW t \in Threads, PollReady(t)
      PROVE  DescriptorsOwned'
  BY <1>19 DEF PollReady
<1>20. ASSUME NEW t \in Threads, PollTimeout(t)
      PROVE  DescriptorsOwned'
  BY <1>20 DEF PollTimeout
<1>21. ASSUME NEW t \in Threads, Read(t)
      PROVE  DescriptorsOwned'
  BY <1>21 DEF Read
<1>22. CASE OpenElsewhere
  BY <1>22 DEF OpenElsewhere, FreeFds, Config
<1>23. CASE CloseElsewhere
  BY <1>23 DEF CloseElsewhere, Config
<1>24. ASSUME NEW d \in Devices, Arrive(d)
      PROVE  DescriptorsOwned'
  BY <1>24 DEF Arrive
<1>25. ASSUME NEW d \in Devices, Unplug(d)
      PROVE  DescriptorsOwned'
  BY <1>25 DEF Unplug
<1>26. ASSUME NEW t \in Threads, WriteFails(t)
      PROVE  DescriptorsOwned'
  BY <1>26 DEF WriteFails
<1>27. ASSUME NEW d \in Devices, Replug(d)
      PROVE  DescriptorsOwned'
  BY <1>27 DEF Replug
<1> QED
  BY NextSteps, <1>1, <1>2, <1>3, <1>4, <1>5, <1>6, <1>7, <1>8, <1>9, <1>10, <1>11, <1>12, <1>13, <1>14, <1>15, <1>16, <1>17, <1>18, <1>19, <1>20, <1>21, <1>22, <1>23, <1>24, <1>25, <1>26, <1>27

LEMMA RawStep ==
  ASSUME PortInv, [Next]_vars
  PROVE  SavedIsRaw' /\ OpenIsRaw'
<1> USE OneHolder, NoHolder
         DEF PortInv, SavedIsRaw, OpenIsRaw, TypeOK, Goto, Return, Lock, CloseFd,
         Calls, Critical, object, locals, kernel
<1>1. CASE UNCHANGED vars
  BY <1>1 DEF vars
<1>2. ASSUME NEW t \in Threads, NEW c \in Calls, Call(t, c)
      PROVE  SavedIsRaw' /\ OpenIsRaw'
  BY <1>2 DEF Call
<1>3. ASSUME NEW t \in Threads, OpenStart(t)
      PROVE  SavedIsRaw' /\ OpenIsRaw'
  BY <1>3 DEF OpenStart
<1>4. ASSUME NEW t \in Threads, Close(t)
      PROVE  SavedIsRaw' /\ OpenIsRaw'
  BY <1>4 DEF Close
<1>5. ASSUME NEW t \in Threads, SetDataCallback(t)
      PROVE  SavedIsRaw' /\ OpenIsRaw'
  BY <1>5 DEF SetDataCallback
<1>6. ASSUME NEW t \in Threads, FlushTest(t)
      PROVE  SavedIsRaw' /\ OpenIsRaw'
  BY <1>6 DEF FlushTest
<1>7. ASSUME NEW t \in Threads, Refuse(t)
      PROVE  SavedIsRaw' /\ OpenIsRaw'
  BY <1>7 DEF Refuse
<1>8. ASSUME NEW t \in Threads, WriteStart(t)
      PROVE  SavedIsRaw' /\ OpenIsRaw'
  BY <1>8 DEF WriteStart
<1>9. ASSUME NEW t \in Threads, ReadStart(t)
      PROVE  SavedIsRaw' /\ OpenIsRaw'
  BY <1>9 DEF ReadStart
<1>10. ASSUME NEW t \in Threads, NEW c \in Configs, OpenDevice(t, c)
      PROVE  SavedIsRaw' /\ OpenIsRaw'
  BY <1>10 DEF OpenDevice
<1>11. ASSUME NEW t \in Threads, OpenDeviceFails(t)
      PROVE  SavedIsRaw' /\ OpenIsRaw'
  BY <1>11 DEF OpenDeviceFails
<1>12. ASSUME NEW t \in Threads, ConfigureStart(t)
      PROVE  SavedIsRaw' /\ OpenIsRaw'
  <2>1. termios[Device] \in Settings
    BY <1>12, DeviceKnown DEF ConfigureStart
  <2>2. saved'.raw /\ saved'.vmin = 0
    BY <1>12, <2>1, RawSettings DEF ConfigureStart
  <2> QED
    BY <1>12, <2>2 DEF ConfigureStart
<1>13. ASSUME NEW t \in Threads, CallSetter(t)
      PROVE  SavedIsRaw' /\ OpenIsRaw'
  BY <1>13 DEF CallSetter
<1>14. ASSUME NEW t \in Threads, ConfigureEnd(t)
      PROVE  SavedIsRaw' /\ OpenIsRaw'
  <2>1. Device = config.port /\ Device \in Devices
    BY <1>14, DeviceKnown DEF ConfigureEnd
  <2> QED
    BY <1>14, <2>1 DEF ConfigureEnd
<1>15. ASSUME NEW t \in Threads, ConfigureFails(t)
      PROVE  SavedIsRaw' /\ OpenIsRaw'
  BY <1>15 DEF ConfigureFails
<1>16. ASSUME NEW t \in Threads, Flush(t)
      PROVE  SavedIsRaw' /\ OpenIsRaw'
  BY <1>16 DEF Flush
<1>17. ASSUME NEW t \in Threads, WriteSome(t)
      PROVE  SavedIsRaw' /\ OpenIsRaw'
  BY <1>17 DEF WriteSome
<1>18. ASSUME NEW t \in Threads, WriteEnd(t)
      PROVE  SavedIsRaw' /\ OpenIsRaw'
  BY <1>18 DEF WriteEnd
<1>19. ASSUME NEW t \in Threads, PollReady(t)
      PROVE  SavedIsRaw' /\ OpenIsRaw'
  BY <1>19 DEF PollReady
<1>20. ASSUME NEW t \in Threads, PollTimeout(t)
      PROVE  SavedIsRaw' /\ OpenIsRaw'
  BY <1>20 DEF PollTimeout
<1>21. ASSUME NEW t \in Threads, Read(t)
      PROVE  SavedIsRaw' /\ OpenIsRaw'
  BY <1>21 DEF Read
<1>22. CASE OpenElsewhere
  BY <1>22 DEF OpenElsewhere
<1>23. CASE CloseElsewhere
  BY <1>23 DEF CloseElsewhere
<1>24. ASSUME NEW d \in Devices, Arrive(d)
      PROVE  SavedIsRaw' /\ OpenIsRaw'
  BY <1>24 DEF Arrive
<1>25. ASSUME NEW d \in Devices, Unplug(d)
      PROVE  SavedIsRaw' /\ OpenIsRaw'
  BY <1>25 DEF Unplug
<1>26. ASSUME NEW t \in Threads, WriteFails(t)
      PROVE  SavedIsRaw' /\ OpenIsRaw'
  BY <1>26 DEF WriteFails
<1>27. ASSUME NEW d \in Devices, Replug(d)
      PROVE  SavedIsRaw' /\ OpenIsRaw'
  <2>1. fd # NoFd => config.port # d
    BY <1>27 DEF Replug, DescriptorsOwned
  <2> QED
    BY <1>27, <2>1 DEF Replug
<1> QED
  BY NextSteps, <1>1, <1>2, <1>3, <1>4, <1>5, <1>6, <1>7, <1>8, <1>9, <1>10, <1>11, <1>12, <1>13, <1>14, <1>15, <1>16, <1>17, <1>18, <1>19, <1>20, <1>21, <1>22, <1>23, <1>24, <1>25, <1>26, <1>27

LEMMA RestStep ==
  ASSUME PortInv, [Next]_vars
  PROVE  RestIsComing'
<1> USE OneHolder, NoHolder
         DEF PortInv, RestIsComing, TypeOK, Goto, Return, Lock, CloseFd,
         Calls, Critical, object, locals, kernel
<1>1. CASE UNCHANGED vars
  BY <1>1 DEF vars
<1>2. ASSUME NEW t \in Threads, NEW c \in Calls, Call(t, c)
      PROVE  RestIsComing'
  BY <1>2 DEF Call
<1>3. ASSUME NEW t \in Threads, OpenStart(t)
      PROVE  RestIsComing'
  BY <1>3 DEF OpenStart
<1>4. ASSUME NEW t \in Threads, Close(t)
      PROVE  RestIsComing'
  BY <1>4 DEF Close
<1>5. ASSUME NEW t \in Threads, SetDataCallback(t)
      PROVE  RestIsComing'
  BY <1>5 DEF SetDataCallback
<1>6. ASSUME NEW t \in Threads, FlushTest(t)
      PROVE  RestIsComing'
  BY <1>6 DEF FlushTest
<1>7. ASSUME NEW t \in Threads, Refuse(t)
      PROVE  RestIsComing'
  BY <1>7 DEF Refuse
<1>8. ASSUME NEW t \in Threads, WriteStart(t)
      PROVE  RestIsComing'
  BY <1>8 DEF WriteStart
<1>9. ASSUME NEW t \in Threads, ReadStart(t)
      PROVE  RestIsComing'
  BY <1>9 DEF ReadStart
<1>10. ASSUME NEW t \in Threads, NEW c \in Configs, OpenDevice(t, c)
      PROVE  RestIsComing'
  BY <1>10 DEF OpenDevice
<1>11. ASSUME NEW t \in Threads, OpenDeviceFails(t)
      PROVE  RestIsComing'
  BY <1>11 DEF OpenDeviceFails
<1>12. ASSUME NEW t \in Threads, ConfigureStart(t)
      PROVE  RestIsComing'
  BY <1>12 DEF ConfigureStart
<1>13. ASSUME NEW t \in Threads, CallSetter(t)
      PROVE  RestIsComing'
  BY <1>13 DEF CallSetter
<1>14. ASSUME NEW t \in Threads, ConfigureEnd(t)
      PROVE  RestIsComing'
  BY <1>14 DEF ConfigureEnd
<1>15. ASSUME NEW t \in Threads, ConfigureFails(t)
      PROVE  RestIsComing'
  BY <1>15 DEF ConfigureFails
<1>16. ASSUME NEW t \in Threads, Flush(t)
      PROVE  RestIsComing'
  BY <1>16 DEF Flush
<1>17. ASSUME NEW t \in Threads, WriteSome(t)
      PROVE  RestIsComing'
  <2>1. Device \in Devices
    BY <1>17, DeviceKnown DEF WriteSome
  <2> QED
    BY <1>17, <2>1 DEF WriteSome, Device
<1>18. ASSUME NEW t \in Threads, WriteEnd(t)
      PROVE  RestIsComing'
  BY <1>18 DEF WriteEnd, Device
<1>19. ASSUME NEW t \in Threads, PollReady(t)
      PROVE  RestIsComing'
  BY <1>19 DEF PollReady
<1>20. ASSUME NEW t \in Threads, PollTimeout(t)
      PROVE  RestIsComing'
  BY <1>20 DEF PollTimeout
<1>21. ASSUME NEW t \in Threads, Read(t)
      PROVE  RestIsComing'
  BY <1>21 DEF Read
<1>22. CASE OpenElsewhere
  BY <1>22, NamesAssumption DEF OpenElsewhere, FreeFds
<1>23. CASE CloseElsewhere
  BY <1>23, NamesAssumption DEF CloseElsewhere
<1>24. ASSUME NEW d \in Devices, Arrive(d)
      PROVE  RestIsComing'
  BY <1>24 DEF Arrive
<1>25. ASSUME NEW d \in Devices, Unplug(d)
      PROVE  RestIsComing'
  BY <1>25 DEF Unplug
<1>26. ASSUME NEW t \in Threads, WriteFails(t)
      PROVE  RestIsComing'
  BY <1>26 DEF WriteFails, Device
<1>27. ASSUME NEW d \in Devices, Replug(d)
      PROVE  RestIsComing'
  BY <1>27 DEF Replug
<1> QED
  BY NextSteps, <1>1, <1>2, <1>3, <1>4, <1>5, <1>6, <1>7, <1>8, <1>9, <1>10, <1>11, <1>12, <1>13, <1>14, <1>15, <1>16, <1>17, <1>18, <1>19, <1>20, <1>21, <1>22, <1>23, <1>24, <1>25, <1>26, <1>27

-----------------------------------------------------------------------------
(* The theorems                                                            *)

\* PortInv holds of every reachable state.
LEMMA PortInvariant == Spec => []PortInv
<1>1. Init => PortInv
  <2> SUFFICES ASSUME Init PROVE PortInv
    OBVIOUS
  <2>1. TypeOK
    BY NamesAssumption, ConfigsAssumption, InitialAssumption DEF Init, TypeOK
  <2>2. MutexHeld /\ FdKnown /\ SavedIsRaw /\ OpenIsRaw
    BY NamesAssumption DEF Init, MutexHeld, FdKnown, SavedIsRaw, OpenIsRaw,
                           Critical
  <2>3. DescriptorsOwned /\ RestIsComing
    BY NamesAssumption DEF Init, DescriptorsOwned, RestIsComing
  <2> QED
    BY <2>1, <2>2, <2>3 DEF PortInv
<1>2. PortInv /\ [Next]_vars => PortInv'
  BY TypeStep, MutexStep, FdStep, DescriptorStep, RawStep, RestStep
     DEF PortInv
<1> QED
  BY <1>1, <1>2, PTL DEF Spec

\* Type correctness of Uart, whatever its threads do.
THEOREM TypeCorrect == Spec => []TypeOK
<1>1. PortInv => TypeOK
  BY DEF PortInv
<1> QED
  BY <1>1, PortInvariant, PTL

\* No call of open(), wherever it fails, leaks a descriptor, and fd_ is the
\* descriptor of the port asked for.
THEOREM DescriptorsAreOwned == Spec => []DescriptorsOwned
<1>1. PortInv => DescriptorsOwned
  BY DEF PortInv
<1> QED
  BY <1>1, PortInvariant, PTL

\* A port that open() has opened is raw, whatever failed before.
THEOREM OpenPortIsRaw == Spec => []OpenIsRaw
<1>1. PortInv => OpenIsRaw
  BY DEF PortInv
<1> QED
  BY <1>1, PortInvariant, PTL

\* The bytes of two write() calls never mix on the line.
THEOREM WritesAreContiguous == Spec => WritesContiguous
<1>1. PortInv /\ [Next]_vars =>
        [\A d \in Devices :
           last'[d] # last[d] /\ last[d].left > 0
             => last'[d].by = last[d].by /\ last'[d].left < last[d].left]_vars
  <2> SUFFICES ASSUME PortInv, [Next]_vars, NEW d \in Devices,
                      last'[d] # last[d], last[d].left > 0
               PROVE  last'[d].by = last[d].by /\ last'[d].left < last[d].left
    OBVIOUS
  <2>1. PICK t \in Threads : WriteSome(t) \/ WriteFails(t)
    BY NextSteps DEF vars, Call, OpenStart, Close, SetDataCallback, FlushTest,
       Refuse, WriteStart, ReadStart, OpenDevice, OpenDeviceFails,
       ConfigureStart, CallSetter, ConfigureEnd, ConfigureFails, Flush,
       WriteEnd, PollReady, PollTimeout, Read, OpenElsewhere, CloseElsewhere,
       Arrive, Unplug, Replug, kernel
  <2>2. Device = d /\ pc[t] = "writing"
    BY <2>1, DeviceKnown DEF WriteSome, WriteFails, PortInv, TypeOK
  <2>3. last[d].by = t /\ left = last[d].left
    BY <2>2, OneHolder DEF PortInv, RestIsComing, Critical
  <2>4. last'[d].by = t /\ left' < left /\ last'[d].left = left'
    <3>1. CASE WriteSome(t)
      BY <3>1, <2>2 DEF WriteSome, PortInv, TypeOK
    <3>2. CASE WriteFails(t)
      BY <3>2, <2>2, <2>3 DEF WriteFails, PortInv, TypeOK
    <3> QED
      BY <2>1, <3>1, <3>2
  <2> QED
    BY <2>3, <2>4
<1> QED
  BY <1>1, PortInvariant, PTL DEF Spec, WritesContiguous
=============================================================================
