SPECIFICATION Spec
CONSTANTS
  a = a
  b = b
  Clients = {a, b, c, d}
  MAX_CLIENTS = 4
  mq_maxmsg = 2
  Script <- Conversation
  MayExit = {c}
  ServerMayStop = TRUE
INVARIANTS
  TypeOK
  RunningKnowsItsId
  IdAlwaysFits
  NoEchoNoDuplicate
  OneOrder
  ShownWasTyped
\* the system is quiet when every bounded line is shown
CHECK_DEADLOCK FALSE
