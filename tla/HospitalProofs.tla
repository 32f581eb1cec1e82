--------------------------- MODULE HospitalProofs ---------------------------
(***************************************************************************)
(* Proofs about Hospital for every number of patients and pharmacists and  *)
(* every value of the #defines that satisfies HospitalAssumption.          *)
(***************************************************************************)
EXTENDS Hospital, FiniteSetTheorems, TLAPS

(* The invariant that is inductive by itself, spurious wakeups included.    *)
MonitorInv ==
  /\ TypeOK
  /\ DoctorChecksStayValid
  /\ DoctorSleepsOnlyWhenIdle
  /\ PatientOutsideOnlyWhenFull
  /\ QueueingPharmacistNotForgotten
  /\ AcceptanceReachesItsPharmacist

(* Patient id 0 exists: the value memset leaves in the chairs is an id.      *)
LEMMA EmptyChairs == [i \in Chairs |-> 0] \in [Chairs -> Patients]
<1>1. 0 \in Patients
  BY HospitalAssumption DEF Patients
<1> QED
  BY <1>1

LEMMA InitMonitorInv == Init => MonitorInv
<1> SUFFICES ASSUME Init PROVE MonitorInv
  OBVIOUS
<1>1. TypeOK
  <2>1. pharmacist_wants_to_deliver \in BOOLEAN
    BY Zenon DEF Init
  <2> QED
    BY <2>1, HospitalAssumption, EmptyChairs DEF Init, TypeOK
<1> QED
  BY <1>1
  DEF Init, MonitorInv, DoctorChecksStayValid, DoctorSleepsOnlyWhenIdle,
      PatientOutsideOnlyWhenFull, QueueingPharmacistNotForgotten,
      DeliveryWouldBeEarly, MustQueue,
      AcceptanceReachesItsPharmacist

(* The doctor's tests lead to a legal control state whose check has just    *)
(* been made.                                                               *)
LEMMA InnerLoopChecks ==
  /\ InnerLoop \in {"asleep", "consulting", "delivering"}
  /\ InnerLoop = "asleep" => ~DoctorHasWork
  /\ InnerLoop = "consulting" => CanConsult
  /\ InnerLoop = "delivering" => CanAccept
  BY DEF InnerLoop, DoctorHasWork

LEMMA OuterLoopChecks ==
  /\ OuterLoop \in {"asleep", "consulting", "delivering", "off_duty"}
  /\ OuterLoop = "asleep" => ~DoctorHasWork
  /\ OuterLoop = "consulting" => CanConsult
  /\ OuterLoop = "delivering" => CanAccept
  BY InnerLoopChecks DEF OuterLoop

(* The same for the tests made on the values a critical section has just    *)
(* written.                                                                 *)
LEMMA OuterLoopChecksNext ==
  /\ OuterLoop' \in {"asleep", "consulting", "delivering", "off_duty"}
  /\ OuterLoop' = "asleep" => ~DoctorHasWork'
  /\ OuterLoop' = "consulting" => CanConsult'
  /\ OuterLoop' = "delivering" => CanAccept'
  BY DEF OuterLoop, InnerLoop, DoctorHasWork

LEMMA FinishConsultationMonitorInv ==
  ASSUME MonitorInv, FinishConsultation
  PROVE  MonitorInv'
<1> USE HospitalAssumption DEF MonitorInv
<1>1. CanConsult
  BY DEF FinishConsultation, DoctorChecksStayValid
<1>2. TypeOK'
  <2>1. pharmacist_wants_to_deliver' \in BOOLEAN
    BY Zenon DEF FinishConsultation, desk, TypeOK
  <2> QED
    BY <1>1, <2>1, EmptyChairs, OuterLoopChecksNext
    DEF FinishConsultation, TypeOK, CanConsult, BroadcastEnter,
        BroadcastDeliver, desk
<1>3. DoctorChecksStayValid' /\ DoctorSleepsOnlyWhenIdle'
  BY OuterLoopChecksNext
  DEF FinishConsultation, DoctorChecksStayValid, DoctorSleepsOnlyWhenIdle
<1>4. PatientOutsideOnlyWhenFull'
  BY DEF FinishConsultation, PatientOutsideOnlyWhenFull, BroadcastEnter
<1>5. QueueingPharmacistNotForgotten'
  BY <1>2 DEF FinishConsultation, QueueingPharmacistNotForgotten,
              DeliveryWouldBeEarly, MustQueue,
              BroadcastDeliver, TypeOK, desk
<1>6. AcceptanceReachesItsPharmacist'
  BY DEF FinishConsultation, AcceptanceReachesItsPharmacist,
         BroadcastDeliver, TypeOK, desk
<1> QED
  BY <1>2, <1>3, <1>4, <1>5, <1>6

LEMMA FinishDeliveryMonitorInv ==
  ASSUME MonitorInv, FinishDelivery
  PROVE  MonitorInv'
<1> USE HospitalAssumption DEF MonitorInv
<1>1. PICK w \in SignalAccepted :
        pharmacist' = [f \in Pharmacists |->
                         IF f = w THEN "released" ELSE BroadcastDeliver(f)]
  BY DEF FinishDelivery
<1>2. \A f \in Pharmacists : pharmacist'[f] \notin {"queueing", "registered"}
  BY <1>1 DEF SignalAccepted, AcceptedWaiters, BroadcastDeliver, TypeOK,
              AcceptanceReachesItsPharmacist
<1>3. TypeOK'
  <2>1. pharmacist' \in [Pharmacists -> {"walking", "queueing", "notified",
                                         "registered", "released", "gone"}]
    BY <1>1 DEF TypeOK, BroadcastDeliver
  <2>2. pharmacist_wants_to_deliver' \in BOOLEAN
    BY Zenon DEF FinishDelivery
  <2> QED
    BY <2>1, <2>2, OuterLoopChecksNext DEF FinishDelivery, TypeOK, room, Nobody
<1>4. DoctorChecksStayValid' /\ DoctorSleepsOnlyWhenIdle'
  BY OuterLoopChecksNext
  DEF FinishDelivery, DoctorChecksStayValid, DoctorSleepsOnlyWhenIdle
<1>5. PatientOutsideOnlyWhenFull'
  BY DEF FinishDelivery, PatientOutsideOnlyWhenFull, room
<1>6. QueueingPharmacistNotForgotten' /\ AcceptanceReachesItsPharmacist'
  BY <1>2 DEF QueueingPharmacistNotForgotten,
              DeliveryWouldBeEarly, MustQueue, AcceptanceReachesItsPharmacist
<1> QED
  BY <1>3, <1>4, <1>5, <1>6

LEMMA DoctorLoopMonitorInv ==
  ASSUME MonitorInv, DoctorStart \/ DoctorWake
  PROVE  MonitorInv'
  BY InnerLoopChecks, OuterLoopChecks
  DEF MonitorInv, DoctorStart, DoctorWake, TypeOK, DoctorChecksStayValid,
      DoctorSleepsOnlyWhenIdle, PatientOutsideOnlyWhenFull,
      QueueingPharmacistNotForgotten,
      DeliveryWouldBeEarly, MustQueue, AcceptanceReachesItsPharmacist,
      DoctorHasWork, CanConsult, CanAccept, room, desk

LEMMA PatientMonitorInv ==
  ASSUME MonitorInv, NEW p \in Patients, PatientStep(p)
  PROVE  MonitorInv'
<1> USE HospitalAssumption DEF MonitorInv
<1>1. CASE PatientFindsRoomFull(p)
  BY <1>1
  DEF PatientFindsRoomFull, TypeOK, DoctorChecksStayValid,
      DoctorSleepsOnlyWhenIdle, PatientOutsideOnlyWhenFull,
      QueueingPharmacistNotForgotten,
      DeliveryWouldBeEarly, MustQueue, AcceptanceReachesItsPharmacist,
      DoctorHasWork, CanConsult, CanAccept, room, desk
<1>2. CASE PatientEnters(p)
  <2>1. TypeOK'
    <3>1. patients_in_waiting_room \in Chairs
      BY <1>2 DEF PatientEnters, TypeOK, Chairs
    <3>2. patient_ids_for_current_consultation' \in [Chairs -> Patients]
      BY <1>2, <3>1 DEF PatientEnters, TypeOK
    <3>3. patients_in_waiting_room' \in 0 .. MAX_PATIENTS_IN_WAITING_ROOM
      BY <1>2 DEF PatientEnters, TypeOK
    <3>4. doctor' \in {"starting", "asleep", "woken", "consulting",
                       "delivering", "off_duty"}
      BY <1>2 DEF PatientEnters, TypeOK, SignalDoctor
    <3> QED
      BY <1>2, <3>2, <3>3, <3>4 DEF PatientEnters, TypeOK, desk
  <2>2. DoctorChecksStayValid' /\ DoctorSleepsOnlyWhenIdle'
    BY <1>2
    DEF PatientEnters, TypeOK, DoctorChecksStayValid, DoctorSleepsOnlyWhenIdle,
        SignalDoctor, DoctorHasWork, CanConsult, CanAccept, desk
  <2>3. PatientOutsideOnlyWhenFull'
    BY <1>2 DEF PatientEnters, PatientOutsideOnlyWhenFull, TypeOK
  <2>4. QueueingPharmacistNotForgotten' /\ AcceptanceReachesItsPharmacist'
    BY <1>2
    DEF PatientEnters, QueueingPharmacistNotForgotten,
        DeliveryWouldBeEarly, MustQueue,
        AcceptanceReachesItsPharmacist, desk
  <2> QED
    BY <2>1, <2>2, <2>3, <2>4
<1>3. CASE PatientLeaves(p)
  BY <1>3
  DEF PatientLeaves, TypeOK, DoctorChecksStayValid,
      DoctorSleepsOnlyWhenIdle, PatientOutsideOnlyWhenFull,
      QueueingPharmacistNotForgotten,
      DeliveryWouldBeEarly, MustQueue, AcceptanceReachesItsPharmacist,
      DoctorHasWork, CanConsult, CanAccept, room, desk
<1> QED
  BY <1>1, <1>2, <1>3 DEF PatientStep

LEMMA PharmacistMonitorInv ==
  ASSUME MonitorInv, NEW f \in Pharmacists, PharmacistStep(f)
  PROVE  MonitorInv'
<1> USE HospitalAssumption DEF MonitorInv
<1>1. CASE PharmacistQueues(f)
  BY <1>1
  DEF PharmacistQueues, MustQueue, TypeOK, DoctorChecksStayValid,
      DoctorSleepsOnlyWhenIdle, PatientOutsideOnlyWhenFull,
      QueueingPharmacistNotForgotten,
      DeliveryWouldBeEarly, MustQueue, AcceptanceReachesItsPharmacist,
      DoctorHasWork, CanConsult, CanAccept, room, desk
<1>2. CASE PharmacistRegisters(f)
  <2>1. TypeOK'
    <3>1. pharmacist_wants_to_deliver' \in BOOLEAN
      BY <1>2, Zenon DEF PharmacistRegisters
    <3> QED
      BY <1>2, <3>1 DEF PharmacistRegisters, SignalDoctor, TypeOK, room
  <2>2. DoctorChecksStayValid' /\ DoctorSleepsOnlyWhenIdle'
    BY <1>2
    DEF PharmacistRegisters, PharmacistSignals, MustQueue, SignalDoctor,
        TypeOK, DoctorChecksStayValid, DoctorSleepsOnlyWhenIdle,
        DoctorHasWork, CanConsult, CanAccept, room
  <2>3. PatientOutsideOnlyWhenFull'
    BY <1>2 DEF PharmacistRegisters, PatientOutsideOnlyWhenFull, room
  <2>4. QueueingPharmacistNotForgotten' /\ AcceptanceReachesItsPharmacist'
    BY <1>2
    DEF PharmacistRegisters, QueueingPharmacistNotForgotten,
        DeliveryWouldBeEarly, MustQueue,
        AcceptanceReachesItsPharmacist, TypeOK
  <2> QED
    BY <2>1, <2>2, <2>3, <2>4
<1>3. CASE PharmacistLeaves(f)
  BY <1>3
  DEF PharmacistLeaves, TypeOK, DoctorChecksStayValid,
      DoctorSleepsOnlyWhenIdle, PatientOutsideOnlyWhenFull,
      QueueingPharmacistNotForgotten,
      DeliveryWouldBeEarly, MustQueue, AcceptanceReachesItsPharmacist,
      DoctorHasWork, CanConsult, CanAccept, room, desk
<1> QED
  BY <1>1, <1>2, <1>3 DEF PharmacistStep

LEMMA MainMonitorInv ==
  ASSUME MonitorInv, MainStep
  PROVE  MonitorInv'
<1> USE HospitalAssumption DEF MonitorInv
<1>1. CASE MainSignalsPatients
  BY <1>1
  DEF MainSignalsPatients, TypeOK, DoctorChecksStayValid,
      DoctorSleepsOnlyWhenIdle, PatientOutsideOnlyWhenFull,
      QueueingPharmacistNotForgotten,
      DeliveryWouldBeEarly, MustQueue, AcceptanceReachesItsPharmacist,
      DoctorHasWork, CanConsult, CanAccept, room, desk
<1>2. CASE MainReleasesPharmacists
  <2>1. PICK w \in SignalAccepted :
          pharmacist' = [f \in Pharmacists |->
                           IF f = w THEN "released" ELSE BroadcastDeliver(f)]
    BY <1>2 DEF MainReleasesPharmacists
  <2>2. \A f \in Pharmacists : pharmacist'[f] \notin {"queueing", "registered"}
    BY <2>1 DEF SignalAccepted, AcceptedWaiters, BroadcastDeliver, TypeOK,
                AcceptanceReachesItsPharmacist
  <2>3. pharmacist' \in [Pharmacists -> {"walking", "queueing", "notified",
                                         "registered", "released", "gone"}]
    BY <2>1 DEF TypeOK, BroadcastDeliver
  <2>4. TypeOK'
    BY <1>2, <2>3 DEF MainReleasesPharmacists, TypeOK, room, desk
  <2>5. DoctorChecksStayValid' /\ DoctorSleepsOnlyWhenIdle'
        /\ PatientOutsideOnlyWhenFull'
    BY <1>2
    DEF MainReleasesPharmacists, DoctorChecksStayValid,
        DoctorSleepsOnlyWhenIdle, PatientOutsideOnlyWhenFull,
        DoctorHasWork, CanConsult, CanAccept, room, desk
  <2>6. QueueingPharmacistNotForgotten' /\ AcceptanceReachesItsPharmacist'
    BY <2>2 DEF QueueingPharmacistNotForgotten,
                DeliveryWouldBeEarly, MustQueue, AcceptanceReachesItsPharmacist
  <2> QED
    BY <2>4, <2>5, <2>6
<1>3. CASE MainFinishes
  BY <1>3
  DEF MainFinishes, TypeOK, DoctorChecksStayValid,
      DoctorSleepsOnlyWhenIdle, PatientOutsideOnlyWhenFull,
      QueueingPharmacistNotForgotten,
      DeliveryWouldBeEarly, MustQueue, AcceptanceReachesItsPharmacist,
      DoctorHasWork, CanConsult, CanAccept, room, desk
<1> QED
  BY <1>1, <1>2, <1>3 DEF MainStep

LEMMA SpuriousMonitorInv ==
  ASSUME MonitorInv,
         \/ SpuriousDoctor
         \/ \E p \in Patients : SpuriousPatient(p)
         \/ \E f \in Pharmacists : SpuriousPharmacist(f)
  PROVE  MonitorInv'
<1> USE DEF MonitorInv, TypeOK, DoctorChecksStayValid,
      DoctorSleepsOnlyWhenIdle, PatientOutsideOnlyWhenFull,
      QueueingPharmacistNotForgotten,
      DeliveryWouldBeEarly, MustQueue, AcceptanceReachesItsPharmacist,
      DoctorHasWork, CanConsult, CanAccept, room, desk
<1>1. CASE SpuriousDoctor
  BY <1>1 DEF SpuriousDoctor
<1>2. ASSUME NEW p \in Patients, SpuriousPatient(p) PROVE MonitorInv'
  BY <1>2 DEF SpuriousPatient
<1>3. ASSUME NEW f \in Pharmacists, SpuriousPharmacist(f) PROVE MonitorInv'
  BY <1>3 DEF SpuriousPharmacist
<1> QED
  BY <1>1, <1>2, <1>3

(* MonitorInv is an invariant of the hospital, whether or not               *)
(* pthread_cond_wait may return without a signal.                           *)
THEOREM MonitorCorrect == Spec => []MonitorInv
<1>1. ASSUME MonitorInv, [Next]_vars PROVE MonitorInv'
  <2>1. CASE DoctorStep
    BY <1>1, <2>1, DoctorLoopMonitorInv, FinishConsultationMonitorInv,
       FinishDeliveryMonitorInv DEF DoctorStep
  <2>2. CASE \E p \in Patients : PatientStep(p)
    BY <1>1, <2>2, PatientMonitorInv
  <2>3. CASE \E f \in Pharmacists : PharmacistStep(f)
    BY <1>1, <2>3, PharmacistMonitorInv
  <2>4. CASE MainStep
    BY <1>1, <2>4, MainMonitorInv
  <2>5. CASE \/ SpuriousDoctor
             \/ \E p \in Patients : SpuriousPatient(p)
             \/ \E f \in Pharmacists : SpuriousPharmacist(f)
    BY <1>1, <2>5, SpuriousMonitorInv
  <2>6. CASE UNCHANGED vars
    BY <1>1, <2>6
    DEF vars, room, desk, MonitorInv, TypeOK, DoctorChecksStayValid,
        DoctorSleepsOnlyWhenIdle, PatientOutsideOnlyWhenFull,
        QueueingPharmacistNotForgotten,
        DeliveryWouldBeEarly, MustQueue, AcceptanceReachesItsPharmacist,
        DoctorHasWork, CanConsult, CanAccept
  <2> QED
    BY <1>1, <2>1, <2>2, <2>3, <2>4, <2>5, <2>6 DEF Next
<1> QED
  BY <1>1, InitMonitorInv, PTL DEF Spec

(* The variables keep their types: in particular the medicine stays between *)
(* zero and the capacity of the cabinet and a patient always sits down      *)
(* inside the array of ids.                                                 *)
THEOREM TypesCorrect == Spec => []TypeOK
<1>1. MonitorInv => TypeOK
  BY DEF MonitorInv
<1> QED
  BY <1>1, MonitorCorrect, PTL

(* What the doctor checks before an unlocked sleep holds after it.          *)
THEOREM ChecksStayValid == Spec => []DoctorChecksStayValid
<1>1. MonitorInv => DoctorChecksStayValid
  BY DEF MonitorInv
<1> QED
  BY <1>1, MonitorCorrect, PTL

(* No wakeup is lost: no doctor sleeps on work it would do, no patient      *)
(* outside a room with a free chair, and no pharmacist in the queue whose   *)
(* delivery the doctor would take.  A pharmacist whose delivery would be    *)
(* early may sleep although its loop test does not hold any more.           *)
THEOREM NoLostWakeup == Spec => []NoSleeperForgotten
<1>1. MonitorInv => NoSleeperForgotten
  BY DEF MonitorInv, NoSleeperForgotten
<1> QED
  BY <1>1, MonitorCorrect, PTL

(* The acceptance signal has exactly one possible receiver.                 *)
THEOREM AcceptanceCorrect == Spec => []AcceptanceReachesItsPharmacist
<1>1. MonitorInv => AcceptanceReachesItsPharmacist
  BY DEF MonitorInv
<1> QED
  BY <1>1, MonitorCorrect, PTL

-----------------------------------------------------------------------------
(***************************************************************************)
(* The count of served patients, when the wait of a seated patient (the    *)
(* one wait of line 147, which is not in a loop) returns only after a      *)
(* signal.                                                                 *)
(***************************************************************************)
(* The occupied chairs hold different patients, exactly the ones that wait  *)
(* for their consultation to end.  (Only if that wait, which is not in a    *)
(* loop, returns after a signal only.)                                      *)
Seated == {patient_ids_for_current_consultation[i] :
             i \in 0 .. patients_in_waiting_room - 1}

InRoom == {p \in Patients : patient[p] = "in_room"}

RoomHoldsItsPatients ==
  /\ Seated = InRoom
  /\ Cardinality(Seated) = patients_in_waiting_room

CountInv ==
  /\ MonitorInv
  /\ RoomHoldsItsPatients
  /\ ServedAreReleased
  /\ doctor = "off_duty" => patients_served_count >= total_patients_arg

LEMMA PatientSetsFinite ==
  /\ IsFiniteSet(Patients) /\ Cardinality(Patients) = total_patients_arg
  /\ IsFiniteSet(InRoom) /\ Cardinality(InRoom) \in Nat
  /\ IsFiniteSet(Released) /\ Cardinality(Released) \in Nat
<1>1. IsFiniteSet(Patients) /\ Cardinality(Patients) = total_patients_arg
  BY HospitalAssumption, FS_Interval DEF Patients
<1>2. InRoom \in SUBSET Patients /\ Released \in SUBSET Patients
  BY DEF InRoom, Released
<1> QED
  BY <1>1, <1>2, FS_Subset, FS_CardinalityType

(* A step that moves nobody into or out of the room keeps the count.        *)
LEMMA CountInvKept ==
  ASSUME CountInv, MonitorInv',
         UNCHANGED <<room, patients_served_count>>,
         InRoom' = InRoom, Released' = Released,
         doctor' = "off_duty" => patients_served_count >= total_patients_arg
  PROVE  CountInv'
  BY DEF CountInv, RoomHoldsItsPatients, ServedAreReleased, Seated, room

(* At the end of a shift nobody is left in the room.                        *)
LEMMA OffDutyReleased ==
  ASSUME CountInv, doctor = "off_duty"
  PROVE  Released = Patients /\ InRoom = {}
<1>1. Released \in SUBSET Patients
  BY DEF Released
<1>2. Cardinality(Released) <= Cardinality(Patients)
  BY <1>1, PatientSetsFinite, FS_Subset
<1>3. Cardinality(Patients) = Cardinality(Released)
  BY <1>2, PatientSetsFinite, HospitalAssumption
  DEF CountInv, ServedAreReleased
<1>4. Released = Patients
  BY <1>1, <1>3, PatientSetsFinite, FS_Subset
<1> QED
  BY <1>4 DEF Released, InRoom

LEMMA FinishConsultationCountInv ==
  ASSUME CountInv, FinishConsultation
  PROVE  CountInv'
<1> USE HospitalAssumption
<1>1. MonitorInv' /\ CanConsult
  BY FinishConsultationMonitorInv
  DEF CountInv, MonitorInv, FinishConsultation, DoctorChecksStayValid
<1>2. InRoom = {patient_ids_for_current_consultation[i] : i \in Chairs}
      /\ Cardinality(InRoom) = PATIENTS_PER_CONSULTATION
  BY <1>1 DEF CountInv, RoomHoldsItsPatients, Seated, CanConsult, Chairs
<1>3. InRoom' = {} /\ Released' = Released \cup InRoom
  BY <1>2 DEF FinishConsultation, InRoom, Released, BroadcastEnter,
              CountInv, MonitorInv, TypeOK
<1>4. RoomHoldsItsPatients'
  <2>1. Seated' = {}
    BY DEF Seated, FinishConsultation
  <2> QED
    BY <2>1, <1>3, FS_EmptySet
    DEF RoomHoldsItsPatients, FinishConsultation
<1>5. ServedAreReleased'
  <2>1. Released \cap InRoom = {}
    BY DEF Released, InRoom
  <2>2. Cardinality(Released \cup InRoom)
          = Cardinality(Released) + Cardinality(InRoom)
    <3>1. Cardinality(Released \cup InRoom)
            = Cardinality(Released) + Cardinality(InRoom)
              - Cardinality(Released \cap InRoom)
      BY PatientSetsFinite, FS_Union
    <3>2. Cardinality(Released \cap InRoom) = 0
      BY <2>1, FS_EmptySet
    <3>3. Cardinality(Released) \in Nat /\ Cardinality(InRoom) \in Nat
      BY PatientSetsFinite
    <3> QED
      BY <3>1, <3>2, <3>3
  <2> QED
    BY <1>2, <1>3, <2>2 DEF ServedAreReleased, CountInv, FinishConsultation
<1>6. doctor' = "off_duty" => patients_served_count' >= total_patients_arg
  BY <1>1, OuterLoopChecksNext
  DEF FinishConsultation, OuterLoop, InnerLoop, MonitorInv, TypeOK
<1> QED
  BY <1>1, <1>4, <1>5, <1>6 DEF CountInv

LEMMA PatientEntersCountInv ==
  ASSUME CountInv, NEW p \in Patients, PatientEnters(p)
  PROVE  CountInv'
<1> USE HospitalAssumption
<1>1. MonitorInv'
  BY PatientMonitorInv DEF CountInv, PatientStep
<1>2. p \notin InRoom /\ InRoom' = InRoom \cup {p} /\ Released' = Released
  BY DEF PatientEnters, InRoom, Released, CountInv, MonitorInv, TypeOK
<1>3. RoomHoldsItsPatients'
  <2>1. patients_in_waiting_room \in Chairs
    BY DEF PatientEnters, CountInv, MonitorInv, TypeOK, Chairs
  <2>2. Seated' = Seated \cup {p}
    <3> DEFINE n == patients_in_waiting_room
               ids == patient_ids_for_current_consultation
    <3>1. n \in Nat /\ n' = n + 1 /\ ids' = [ids EXCEPT ![n] = p]
          /\ ids \in [Chairs -> Patients]
      BY <2>1 DEF PatientEnters, CountInv, MonitorInv, TypeOK, Chairs
    <3>2. ids'[n] = p
      BY <2>1, <3>1
    <3>3. \A i \in 0 .. n - 1 : i \in Chairs /\ ids'[i] = ids[i]
      BY <2>1, <3>1 DEF Chairs
    <3>4. 0 .. n' - 1 = (0 .. n - 1) \cup {n}
      BY <3>1
    <3>5. Seated' = {ids'[i] : i \in 0 .. n' - 1}
      BY DEF Seated
    <3>6. Seated = {ids[i] : i \in 0 .. n - 1}
      BY DEF Seated
    <3> HIDE DEF n, ids
    <3> QED
      BY <3>2, <3>3, <3>4, <3>5, <3>6
  <2>3. Cardinality(InRoom \cup {p}) = Cardinality(InRoom) + 1
    BY <1>2, PatientSetsFinite, FS_AddElement
  <2> QED
    BY <1>2, <2>2, <2>3 DEF RoomHoldsItsPatients, CountInv, PatientEnters
<1>4. ServedAreReleased'
  BY <1>2 DEF ServedAreReleased, CountInv, PatientEnters
<1>5. doctor' = "off_duty" => patients_served_count' >= total_patients_arg
  BY DEF PatientEnters, SignalDoctor, CountInv
<1> QED
  BY <1>1, <1>3, <1>4, <1>5 DEF CountInv

LEMMA DoctorLoopCountInv ==
  ASSUME CountInv, DoctorStart \/ DoctorWake
  PROVE  CountInv'
<1> USE HospitalAssumption
<1>1. MonitorInv'
  BY DoctorLoopMonitorInv DEF CountInv
<1>2. UNCHANGED <<room, patients_served_count>>
      /\ InRoom' = InRoom /\ Released' = Released
  BY DEF DoctorStart, DoctorWake, InRoom, Released
<1>3. doctor' = "off_duty" => patients_served_count >= total_patients_arg
  BY InnerLoopChecks
  DEF DoctorStart, DoctorWake, OuterLoop, CountInv, MonitorInv, TypeOK
<1> QED
  BY <1>1, <1>2, <1>3, CountInvKept

LEMMA FinishDeliveryCountInv ==
  ASSUME CountInv, FinishDelivery
  PROVE  CountInv'
<1> USE HospitalAssumption
<1>1. MonitorInv'
  BY FinishDeliveryMonitorInv DEF CountInv
<1>2. UNCHANGED <<room, patients_served_count>>
      /\ InRoom' = InRoom /\ Released' = Released
  BY DEF FinishDelivery, InRoom, Released
<1>3. doctor' = "off_duty" => patients_served_count >= total_patients_arg
  BY <1>1, <1>2, OuterLoopChecksNext
  DEF FinishDelivery, OuterLoop, InnerLoop, MonitorInv, TypeOK
<1> QED
  BY <1>1, <1>2, <1>3, CountInvKept

LEMMA PatientCountInv ==
  ASSUME CountInv, NEW p \in Patients, PatientStep(p)
  PROVE  CountInv'
<1>1. CASE PatientEnters(p)
  BY <1>1, PatientEntersCountInv
<1>2. CASE PatientFindsRoomFull(p) \/ PatientLeaves(p)
  <2>1. MonitorInv'
    BY PatientMonitorInv DEF CountInv
  <2>2. UNCHANGED <<room, patients_served_count, doctor>>
    BY <1>2 DEF PatientFindsRoomFull, PatientLeaves
  <2>3. InRoom' = InRoom /\ Released' = Released
    BY <1>2 DEF PatientFindsRoomFull, PatientLeaves, InRoom, Released,
                CountInv, MonitorInv, TypeOK
  <2> QED
    BY <2>1, <2>2, <2>3, CountInvKept DEF CountInv
<1> QED
  BY <1>1, <1>2 DEF PatientStep

LEMMA PharmacistCountInv ==
  ASSUME CountInv, NEW f \in Pharmacists, PharmacistStep(f)
  PROVE  CountInv'
<1>1. MonitorInv'
  BY PharmacistMonitorInv DEF CountInv
<1>2. UNCHANGED <<room, patients_served_count, patient>>
  BY DEF PharmacistStep, PharmacistQueues, PharmacistRegisters, PharmacistLeaves
<1>3. doctor' = "off_duty" => doctor = "off_duty"
  BY DEF PharmacistStep, PharmacistQueues, PharmacistRegisters,
         PharmacistLeaves, SignalDoctor
<1> QED
  BY <1>1, <1>2, <1>3, CountInvKept DEF CountInv, InRoom, Released

LEMMA MainCountInv ==
  ASSUME CountInv, MainStep
  PROVE  CountInv'
<1>1. MonitorInv'
  BY MainMonitorInv DEF CountInv
<1>2. UNCHANGED <<room, patients_served_count, doctor>>
  BY DEF MainStep, MainSignalsPatients, MainReleasesPharmacists, MainFinishes
<1>3. InRoom' = InRoom /\ Released' = Released
  <2>1. CASE MainSignalsPatients
    <3>1. InRoom = {}
      BY <2>1, OffDutyReleased DEF MainSignalsPatients
    <3>2. patient' = patient
      BY <2>1, <3>1
      DEF MainSignalsPatients, InRoom, CountInv, MonitorInv, TypeOK
    <3> QED
      BY <3>2 DEF InRoom, Released
  <2>2. CASE MainReleasesPharmacists \/ MainFinishes
    BY <2>2 DEF MainReleasesPharmacists, MainFinishes, InRoom, Released
  <2> QED
    BY <2>1, <2>2 DEF MainStep
<1> QED
  BY <1>1, <1>2, <1>3, CountInvKept DEF CountInv

(* The wait of a seated patient is the only one whose spurious return moves *)
(* anybody out of the room.                                                 *)
LEMMA SpuriousCountInv ==
  ASSUME CountInv, "in_room" \notin SpuriousWakeups,
         \/ SpuriousDoctor
         \/ \E p \in Patients : SpuriousPatient(p)
         \/ \E f \in Pharmacists : SpuriousPharmacist(f)
  PROVE  CountInv'
<1>1. MonitorInv'
  BY SpuriousMonitorInv DEF CountInv
<1>2. UNCHANGED <<room, patients_served_count>>
      /\ (doctor' = "off_duty" => doctor = "off_duty")
  BY DEF SpuriousDoctor, SpuriousPatient, SpuriousPharmacist
<1>3. InRoom' = InRoom /\ Released' = Released
  <2>1. ASSUME NEW p \in Patients, SpuriousPatient(p)
        PROVE  InRoom' = InRoom /\ Released' = Released
    <3>1. patient[p] = "outside"
      BY <2>1 DEF SpuriousPatient
    <3>2. patient' = [patient EXCEPT ![p] = "let_in"]
      BY <2>1, <3>1 DEF SpuriousPatient
    <3> QED
      BY <3>1, <3>2 DEF InRoom, Released, CountInv, MonitorInv, TypeOK
  <2>2. CASE UNCHANGED patient
    BY <2>2 DEF InRoom, Released
  <2> QED
    BY <2>1, <2>2 DEF SpuriousDoctor, SpuriousPharmacist
<1> QED
  BY <1>1, <1>2, <1>3, CountInvKept DEF CountInv

LEMMA InitCountInv == Init => CountInv
<1> SUFFICES ASSUME Init PROVE CountInv
  OBVIOUS
<1>1. Seated = {} /\ InRoom = {} /\ Released = {}
  BY DEF Init, Seated, InRoom, Released
<1> QED
  BY <1>1, InitMonitorInv, FS_EmptySet
  DEF Init, CountInv, RoomHoldsItsPatients, ServedAreReleased

(* If a seated patient is woken only by a signal, the doctor's counter      *)
(* counts the released patients and the chairs hold the waiting ones.       *)
THEOREM CountCorrect ==
  ASSUME "in_room" \notin SpuriousWakeups
  PROVE  Spec => []CountInv
<1>1. ASSUME CountInv, [Next]_vars PROVE CountInv'
  <2>1. CASE DoctorStep
    BY <1>1, <2>1, DoctorLoopCountInv, FinishConsultationCountInv,
       FinishDeliveryCountInv DEF DoctorStep
  <2>2. CASE \E p \in Patients : PatientStep(p)
    BY <1>1, <2>2, PatientCountInv
  <2>3. CASE \E f \in Pharmacists : PharmacistStep(f)
    BY <1>1, <2>3, PharmacistCountInv
  <2>4. CASE MainStep
    BY <1>1, <2>4, MainCountInv
  <2>5. CASE \/ SpuriousDoctor
             \/ \E p \in Patients : SpuriousPatient(p)
             \/ \E f \in Pharmacists : SpuriousPharmacist(f)
    BY <1>1, <2>5, SpuriousCountInv
  <2>6. CASE UNCHANGED vars
    <3>1. MonitorInv'
      BY <1>1, <2>6
      DEF CountInv, vars, room, desk, MonitorInv, TypeOK,
          DoctorChecksStayValid, DoctorSleepsOnlyWhenIdle,
          PatientOutsideOnlyWhenFull, QueueingPharmacistNotForgotten,
          DeliveryWouldBeEarly, MustQueue,
          AcceptanceReachesItsPharmacist, DoctorHasWork, CanConsult, CanAccept
    <3> QED
      BY <1>1, <2>6, <3>1, CountInvKept DEF vars, InRoom, Released, CountInv
  <2> QED
    BY <1>1, <2>1, <2>2, <2>3, <2>4, <2>5, <2>6 DEF Next
<1> QED
  BY <1>1, InitCountInv, PTL DEF Spec

(* Nobody is counted as served twice, or forgotten.                         *)
THEOREM ServedCorrect ==
  ASSUME "in_room" \notin SpuriousWakeups
  PROVE  Spec => []ServedAreReleased
<1>1. CountInv => ServedAreReleased
  BY DEF CountInv
<1> QED
  BY <1>1, CountCorrect, PTL

(* A shift ends only when every patient has been released.                  *)
THEOREM ShiftCorrect ==
  ASSUME "in_room" \notin SpuriousWakeups
  PROVE  Spec => []ShiftServesEverybody
<1>1. CountInv => ShiftServesEverybody
  BY OffDutyReleased DEF ShiftServesEverybody
<1> QED
  BY <1>1, CountCorrect, PTL

-----------------------------------------------------------------------------
(***************************************************************************)
(* A pharmacist leaves its wait at the desk through its own delivery.      *)
(***************************************************************************)

(* main releases pharmacists only after it has joined the doctor.           *)
MainFollowsDoctor == main # "join_doctor" => doctor = "off_duty"

LEMMA MainFollowsDoctorKept ==
  ASSUME MainFollowsDoctor, [Next]_vars
  PROVE  MainFollowsDoctor'
<1> USE DEF MainFollowsDoctor
<1>1. CASE DoctorStep
  BY <1>1 DEF DoctorStep, DoctorStart, DoctorWake, FinishConsultation,
              FinishDelivery
<1>2. ASSUME NEW p \in Patients, PatientStep(p) PROVE MainFollowsDoctor'
  BY <1>2 DEF PatientStep, PatientFindsRoomFull, PatientEnters, PatientLeaves,
              SignalDoctor
<1>3. ASSUME NEW f \in Pharmacists, PharmacistStep(f) PROVE MainFollowsDoctor'
  BY <1>3 DEF PharmacistStep, PharmacistQueues, PharmacistRegisters,
              PharmacistLeaves, SignalDoctor
<1>4. CASE MainStep
  BY <1>4 DEF MainStep, MainSignalsPatients, MainReleasesPharmacists,
              MainFinishes
<1>5. CASE \/ SpuriousDoctor
           \/ \E p \in Patients : SpuriousPatient(p)
           \/ \E f \in Pharmacists : SpuriousPharmacist(f)
  BY <1>5 DEF SpuriousDoctor, SpuriousPatient, SpuriousPharmacist
<1>6. CASE UNCHANGED vars
  BY <1>6 DEF vars
<1> QED
  BY <1>1, <1>2, <1>3, <1>4, <1>5, <1>6 DEF Next

LEMMA StepReleasesByDelivery ==
  ASSUME MonitorInv, MainFollowsDoctor, Next, "registered" \notin SpuriousWakeups,
         NEW f \in Pharmacists, doctor # "off_duty",
         pharmacist[f] = "registered", pharmacist'[f] # "registered"
  PROVE  delivering_pharmacist_id = f /\ medicine_count' = MAX_MEDICINE_CAPACITY
<1>1. delivering_pharmacist_id = f
  BY DEF MonitorInv, AcceptanceReachesItsPharmacist
<1>2. CASE DoctorStep
  <2>1. CASE FinishConsultation
    <3>1. pharmacist'[f] = "registered"
      BY <2>1 DEF FinishConsultation, BroadcastDeliver
    <3> QED
      BY <3>1
  <2> QED
    BY <1>1, <1>2, <2>1 DEF DoctorStep, DoctorStart, DoctorWake, FinishDelivery
<1>3. ASSUME NEW p \in Patients, PatientStep(p) PROVE FALSE
  BY <1>3 DEF PatientStep, PatientFindsRoomFull, PatientEnters, PatientLeaves
<1>4. ASSUME NEW g \in Pharmacists, PharmacistStep(g) PROVE FALSE
  BY <1>4 DEF PharmacistStep, PharmacistQueues, PharmacistRegisters,
              PharmacistLeaves, MonitorInv, TypeOK
<1>5. CASE MainStep
  BY <1>5 DEF MainStep, MainSignalsPatients, MainReleasesPharmacists,
              MainFinishes, MainFollowsDoctor
<1>6. CASE SpuriousDoctor \/ \E p \in Patients : SpuriousPatient(p)
  BY <1>6 DEF SpuriousDoctor, SpuriousPatient
<1>7. ASSUME NEW g \in Pharmacists, SpuriousPharmacist(g) PROVE FALSE
  <2>1. pharmacist[g] = "queueing"
    BY <1>7 DEF SpuriousPharmacist
  <2> QED
    BY <1>7, <2>1 DEF SpuriousPharmacist, MonitorInv, TypeOK
<1> QED
  BY <1>2, <1>3, <1>4, <1>5, <1>6, <1>7 DEF Next

(* While the shift lasts a pharmacist is released by nothing but the        *)
(* delivery it registered, provided its wait, which is not in a loop,       *)
(* returns after a signal only.                                             *)
THEOREM ReleaseCorrect ==
  ASSUME "registered" \notin SpuriousWakeups
  PROVE  Spec => ReleasedByDelivery
<1>1. Init => MainFollowsDoctor
  BY DEF Init, MainFollowsDoctor
<1>2. MonitorInv /\ MainFollowsDoctor /\ [Next]_vars =>
        [\A f \in Pharmacists :
           /\ doctor # "off_duty"
           /\ pharmacist[f] = "registered"
           /\ pharmacist'[f] # "registered"
           => /\ delivering_pharmacist_id = f
              /\ medicine_count' = MAX_MEDICINE_CAPACITY]_vars
  BY StepReleasesByDelivery
<1> QED
  BY <1>1, <1>2, MainFollowsDoctorKept, MonitorCorrect, PTL
  DEF Spec, ReleasedByDelivery
=============================================================================
