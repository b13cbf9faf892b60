CONSTANTS
  Owner = o
  Users = {u}
  Msgs = {m1}
  NoMsg = noMsg
  AutoReconnect = TRUE
  Republish = TRUE

SPECIFICATION FairSpec
PROPERTIES
  EveryCallReturns
  CallbackReturns
  QueueDrains
  Recovers

\* The process may end, and the object be destroyed.
CHECK_DEADLOCK FALSE
