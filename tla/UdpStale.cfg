CONSTANTS
  ala = ala
  ola = ola
  Clients = {ala, ola}
  Name <- MCName
  MAX_CLIENTS = 2
  ALIVE_CHECK_INTERVAL = 1
  CLIENT_TIMEOUT = 2
  Typed = {"blank", "STOP"}
  MaxLines = 2
  Faults = {}
  MaxFaults = 0
SPECIFICATION Spec
INVARIANTS LoggedStopWasSent
