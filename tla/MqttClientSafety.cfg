CONSTANTS
  Owner = o
  Users = {u}
  Msgs = {m1, m2, m3}
  NoMsg = noMsg
  AutoReconnect = TRUE
  Republish = FALSE

SPECIFICATION Spec
INVARIANTS
  TypeOK
  MutexHeld
  WorkersJoined
  StateOwned
  ToldTruth
PROPERTY ImplementsOutbox
SYMMETRY Symmetry

\* The process may end, and the object be destroyed.
CHECK_DEADLOCK FALSE
