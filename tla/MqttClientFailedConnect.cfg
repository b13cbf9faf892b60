CONSTANTS
  Owner = o
  Users = {u}
  Msgs = {m1}
  NoMsg = noMsg
  AutoReconnect = TRUE
  Republish = FALSE

SPECIFICATION Spec
INVARIANT FailedConnectIsOver

\* The process may end, and the object be destroyed.
CHECK_DEADLOCK FALSE
