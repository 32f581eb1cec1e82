SPECIFICATION Spec
CONSTANTS
  ala = ala
  ola = ola
  ula = ula
  None = None
  Clients = {ala, ola, ula}
  Name <- MCName
  MAX_CLIENTS = 2
  CLIENT_TIMEOUT = 1
  Typed <- MCTyped
  MaxEvents = 4
  Latecomers = {ula}
  MayPressCtrlC = {ula}
  MayShutDown = TRUE
INVARIANTS
  TypeOK
  SessionsAreSeparate
  NamesAreUnique
  LinesAreSigned NobodyWaitsInVain StopIsObeyed
PROPERTIES
  DroppedWereSilent
CHECK_DEADLOCK FALSE
