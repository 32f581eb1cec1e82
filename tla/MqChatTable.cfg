SPECIFICATION Spec
CONSTANTS
  a = a
  b = b
  Clients = {a, b}
  MAX_CLIENTS = 2
  mq_maxmsg = 1
  Script <- TwoLines
  MayExit = {b}
  ServerMayStop = FALSE
INVARIANTS
  TableHoldsCurrentClients
\* the system is quiet when every bounded line is shown
CHECK_DEADLOCK FALSE
