SPECIFICATION FairSpec
CONSTANTS
  total_patients_arg = 6
  num_pharmacists = 2
  MAX_PATIENTS_IN_WAITING_ROOM = 2
  PATIENTS_PER_CONSULTATION = 2
  MEDICINE_PER_CONSULTATION = 3
  MAX_MEDICINE_CAPACITY = 6
  SpuriousWakeups = {"doctor", "outside", "queueing"}
INVARIANTS
  TypeOK
  DoctorChecksStayValid
  NoSleeperForgotten
  AcceptanceReachesItsPharmacist
  ServedAreReleased
  ShiftServesEverybody
PROPERTIES
  ReleasedByDelivery
  Terminates
\* the program ends: main is done
CHECK_DEADLOCK FALSE
