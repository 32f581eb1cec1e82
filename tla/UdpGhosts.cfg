CONSTANTS
  ala = ala
  ola = ola
  Clients = {ala, ola}
  Name <- MCName
  MAX_CLIENTS = 1
  ALIVE_CHECK_INTERVAL = 1
  CLIENT_TIMEOUT = 2
  Typed = {"text"}
  MaxLines = 1
  Faults = {"doubled", "late"}
  MaxFaults = 1
SPECIFICATION FairSpec
PROPERTIES GhostsVanish
