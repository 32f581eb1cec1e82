SPECIFICATION FairSpec
CONSTANTS
  a = a
  b = b
  Clients = {a, b, c}
  MAX_CLIENTS = 2
  mq_maxmsg = 2
  Script <- Conversation
  MayExit = {c}
  ServerMayStop = TRUE
PROPERTIES
  EveryClientConnects
  LinesReachEveryone
\* the system is quiet when every bounded line is shown
CHECK_DEADLOCK FALSE
