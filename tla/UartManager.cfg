CONSTANTS
  Owner = o
  Users = {u}
  Ports = {a, b}
  NoPort = noPort
  MaxId = 3
  MaxFd = 2

SPECIFICATION FairSpec
INVARIANTS
  TypeOK
  MutexHeld
  DescriptorsOwned
  PollerJoined
PROPERTIES
  CallbacksAttributed
  EveryCallReturns
  ArrivalsRead

\* The manager may be destroyed.
CHECK_DEADLOCK FALSE
