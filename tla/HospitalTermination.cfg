SPECIFICATION FairSpec
CONSTANTS
  total_patients_arg = 3
  num_pharmacists = 2
  MAX_PATIENTS_IN_WAITING_ROOM = 3
  PATIENTS_PER_CONSULTATION = 3
  MEDICINE_PER_CONSULTATION = 3
  MAX_MEDICINE_CAPACITY = 6
  SpuriousWakeups = {}
PROPERTIES
  Terminates
\* main may wait for ever for a pharmacist that nobody releases
CHECK_DEADLOCK FALSE
