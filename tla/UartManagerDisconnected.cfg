CONSTANTS
  Owner = o
  Users = {u}
  Ports = {a, b}
  NoPort = noPort
  MaxId = 3
  MaxFd = 2

SPECIFICATION Spec
INVARIANT DisconnectedIsTrue
SYMMETRY Symmetry

\* The manager may be destroyed.
CHECK_DEADLOCK FALSE
