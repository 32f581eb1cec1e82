------------------------------ MODULE Hospital ------------------------------
(***************************************************************************)
(* The hospital of lab10/hospital.c: one doctor, a set of patients, a set  *)
(* of pharmacists and the main thread, synchronised by one mutex           *)
(* (hospital_mutex) and by POSIX condition variables.                      *)
(*                                                                         *)
(* Every access to the shared variables is made while hospital_mutex is    *)
(* held, and the only blocking call made while holding it is               *)
(* pthread_cond_wait, which releases it.  One action is therefore one      *)
(* critical section: from taking the mutex (or returning from              *)
(* pthread_cond_wait) to releasing it (or calling pthread_cond_wait).      *)
(* The two places where the doctor unlocks, sleeps and locks again are the *)
(* control states "consulting" and "delivering".                           *)
(*                                                                         *)
(* The wait set of a condition variable is the set of threads whose        *)
(* control state says that they wait on it:                                *)
(*    doctor_cond                        doctor = "asleep"                 *)
(*    patient_can_enter_cond             patient[p] = "outside"            *)
(*    patient_consultation_finished_cond[p]   patient[p] = "in_room"       *)
(*    pharmacist_can_deliver_cond        pharmacist[f] = "queueing"        *)
(*    pharmacist_delivery_accepted_cond  pharmacist[f] = "registered"      *)
(* consultation_slots_filled_cond is initialised and destroyed, never used.*)
(***************************************************************************)
EXTENDS Integers, FiniteSets

CONSTANTS
  total_patients_arg,            \* argv[1]
  num_pharmacists,               \* argv[2]
  MAX_PATIENTS_IN_WAITING_ROOM,
  PATIENTS_PER_CONSULTATION,
  MEDICINE_PER_CONSULTATION,
  MAX_MEDICINE_CAPACITY,
  SpuriousWakeups                \* the waits that may return unsignalled

(***************************************************************************)
(* What main checks of its arguments, and what the #defines satisfy.  The  *)
(* waiting room is no larger than the array of patient ids it indexes.     *)
(***************************************************************************)
ASSUME HospitalAssumption ==
  /\ total_patients_arg \in Nat \ {0}
  /\ num_pharmacists \in Nat \ {0}
  /\ PATIENTS_PER_CONSULTATION \in Nat \ {0}
  /\ MAX_PATIENTS_IN_WAITING_ROOM \in 1 .. PATIENTS_PER_CONSULTATION
  /\ MEDICINE_PER_CONSULTATION \in Nat \ {0}
  /\ MAX_MEDICINE_CAPACITY \in Nat
  /\ MEDICINE_PER_CONSULTATION <= MAX_MEDICINE_CAPACITY
  /\ SpuriousWakeups \subseteq
       {"doctor", "outside", "in_room", "queueing", "registered"}

VARIABLES
  patients_in_waiting_room,
  patient_ids_for_current_consultation,
  medicine_count,
  patients_served_count,
  pharmacist_wants_to_deliver,
  delivering_pharmacist_id,
  doctor,        \* control state of doctor_thread_func
  patient,       \* control state of each patient_thread_func
  pharmacist,    \* control state of each pharmacist_thread_func
  main           \* control state of main after the threads are created

room   == <<patients_in_waiting_room, patient_ids_for_current_consultation>>
desk   == <<pharmacist_wants_to_deliver, delivering_pharmacist_id>>
vars   == <<room, medicine_count, patients_served_count, desk,
            doctor, patient, pharmacist, main>>

Patients    == 0 .. total_patients_arg - 1
Pharmacists == 0 .. num_pharmacists - 1
Chairs      == 0 .. PATIENTS_PER_CONSULTATION - 1
Nobody      == -1

-----------------------------------------------------------------------------
(* The doctor's loop tests.                                                 *)

(* Mutant: the loop test forgets the medicine.                              *)
MutantConsultsWithoutMedicine ==
  patients_in_waiting_room = PATIENTS_PER_CONSULTATION

CanConsult ==
  /\ patients_in_waiting_room = PATIENTS_PER_CONSULTATION
  /\ medicine_count >= MEDICINE_PER_CONSULTATION

CanAccept ==
  /\ pharmacist_wants_to_deliver
  /\ medicine_count < MAX_MEDICINE_CAPACITY
  /\ medicine_count < MEDICINE_PER_CONSULTATION

DoctorHasWork == CanConsult \/ CanAccept

(* Where the inner while and the if that follows it lead: the doctor sleeps *)
(* on doctor_cond, or unlocks and works on one of the two jobs.             *)
InnerLoop ==
  CASE ~DoctorHasWork -> "asleep"
    [] CanConsult     -> "consulting"
    [] OTHER          -> "delivering"

(* Mutant: the shift also counts the patients that still wait in the room.  *)
MutantShiftCountsTheRoom ==
  IF patients_served_count + patients_in_waiting_room < total_patients_arg
  THEN InnerLoop ELSE "off_duty"

(* The outer while: the shift ends once every patient is counted as served. *)
OuterLoop ==
  IF patients_served_count < total_patients_arg THEN InnerLoop ELSE "off_duty"

(* Waking the threads that wait on a condition variable.                    *)
SignalDoctor == IF doctor = "asleep" THEN "woken" ELSE doctor

BroadcastEnter(p) == IF patient[p] = "outside" THEN "let_in" ELSE patient[p]

BroadcastDeliver(f) ==
  IF pharmacist[f] = "queueing" THEN "notified" ELSE pharmacist[f]

(* pthread_cond_signal wakes one waiter, if there is one.                   *)
AcceptedWaiters == {f \in Pharmacists : pharmacist[f] = "registered"}
(* Mutant: nobody signals pharmacist_delivery_accepted_cond.                *)
MutantNoSignalAccepted == {Nobody}

SignalAccepted == IF AcceptedWaiters = {} THEN {Nobody} ELSE AcceptedWaiters

-----------------------------------------------------------------------------
(* The doctor thread.                                                       *)

DoctorStart ==
  /\ doctor = "starting"
  /\ doctor' = OuterLoop
  /\ UNCHANGED <<room, medicine_count, patients_served_count, desk,
                 patient, pharmacist, main>>

(* Mutant: an if in place of the inner while: what woke the doctor is not   *)
(* tested again.                                                            *)
MutantDoctorWakeWithoutLoop ==
  /\ doctor = "woken"
  /\ doctor' = IF pharmacist_wants_to_deliver THEN "delivering" ELSE "consulting"
  /\ UNCHANGED <<room, medicine_count, patients_served_count, desk,
                 patient, pharmacist, main>>

DoctorWake ==
  /\ doctor = "woken"
  /\ doctor' = InnerLoop
  /\ UNCHANGED <<room, medicine_count, patients_served_count, desk,
                 patient, pharmacist, main>>

(* Mutant: the consultation counts as one served patient.                   *)
MutantCountsOnePatient ==
  /\ doctor = "consulting"
  /\ medicine_count' = medicine_count - MEDICINE_PER_CONSULTATION
  /\ patients_served_count' = patients_served_count + 1
  /\ patient' = [p \in Patients |->
       IF /\ patient[p] = "in_room"
          /\ \E i \in Chairs : patient_ids_for_current_consultation[i] = p
       THEN "released" ELSE BroadcastEnter(p)]
  /\ patient_ids_for_current_consultation' = [i \in Chairs |-> 0]
  /\ patients_in_waiting_room' = 0
  /\ pharmacist' = IF medicine_count' < MEDICINE_PER_CONSULTATION
                   THEN [f \in Pharmacists |-> BroadcastDeliver(f)]
                   ELSE pharmacist
  /\ UNCHANGED <<desk, main>>
  /\ doctor' = OuterLoop'

(* After the unlocked sleep: the medicine is used up, the patients of the   *)
(* consultation are signalled, the room is emptied, everybody outside is    *)
(* woken, the pharmacists too if the medicine ran low; then the loop tests. *)
FinishConsultation ==
  /\ doctor = "consulting"
  /\ medicine_count' = medicine_count - MEDICINE_PER_CONSULTATION
  /\ patients_served_count' = patients_served_count + PATIENTS_PER_CONSULTATION
  /\ patient' = [p \in Patients |->
       IF /\ patient[p] = "in_room"
          /\ \E i \in Chairs : patient_ids_for_current_consultation[i] = p
       THEN "released" ELSE BroadcastEnter(p)]
  /\ patient_ids_for_current_consultation' = [i \in Chairs |-> 0]
  /\ patients_in_waiting_room' = 0
  /\ pharmacist' = IF medicine_count' < MEDICINE_PER_CONSULTATION
                   THEN [f \in Pharmacists |-> BroadcastDeliver(f)]
                   ELSE pharmacist
  /\ UNCHANGED <<desk, main>>
  /\ doctor' = OuterLoop'

(* Mutant: a delivery brings the medicine of one consultation.              *)
MutantDeliversTooLittle ==
  /\ doctor = "delivering"
  /\ medicine_count' = medicine_count + MEDICINE_PER_CONSULTATION
  /\ pharmacist_wants_to_deliver' = FALSE
  /\ delivering_pharmacist_id' = Nobody
  /\ \E w \in SignalAccepted :
       pharmacist' = [f \in Pharmacists |->
                        IF f = w THEN "released" ELSE BroadcastDeliver(f)]
  /\ UNCHANGED <<room, patients_served_count, patient, main>>
  /\ doctor' = OuterLoop'

(* After the unlocked sleep: the medicine cabinet is full, the desk is free,*)
(* one pharmacist is told that the delivery is accepted and every queueing  *)
(* one is woken; then the loop tests.                                       *)
FinishDelivery ==
  /\ doctor = "delivering"
  /\ medicine_count' = MAX_MEDICINE_CAPACITY
  /\ pharmacist_wants_to_deliver' = FALSE
  /\ delivering_pharmacist_id' = Nobody
  /\ \E w \in SignalAccepted :
       pharmacist' = [f \in Pharmacists |->
                        IF f = w THEN "released" ELSE BroadcastDeliver(f)]
  /\ UNCHANGED <<room, patients_served_count, patient, main>>
  /\ doctor' = OuterLoop'

-----------------------------------------------------------------------------
(* The patient threads.                                                     *)

PatientFindsRoomFull(p) ==
  /\ patient[p] \in {"walking", "let_in"}
  /\ patients_in_waiting_room >= MAX_PATIENTS_IN_WAITING_ROOM
  /\ patient' = [patient EXCEPT ![p] = "outside"]
  /\ UNCHANGED <<room, medicine_count, patients_served_count, desk,
                 doctor, pharmacist, main>>

PatientEnters(p) ==
  /\ patient[p] \in {"walking", "let_in"}
  /\ patients_in_waiting_room < MAX_PATIENTS_IN_WAITING_ROOM
  /\ patient_ids_for_current_consultation' =
       [patient_ids_for_current_consultation EXCEPT
          ![patients_in_waiting_room] = p]
  /\ patients_in_waiting_room' = patients_in_waiting_room + 1
  /\ doctor' = IF patients_in_waiting_room' = PATIENTS_PER_CONSULTATION
               THEN SignalDoctor ELSE doctor
  /\ patient' = [patient EXCEPT ![p] = "in_room"]
  /\ UNCHANGED <<medicine_count, patients_served_count, desk, pharmacist, main>>

PatientLeaves(p) ==
  /\ patient[p] = "released"
  /\ patient' = [patient EXCEPT ![p] = "gone"]
  /\ UNCHANGED <<room, medicine_count, patients_served_count, desk,
                 doctor, pharmacist, main>>

-----------------------------------------------------------------------------
(* The pharmacist threads.                                                  *)

(* Mutant: a pharmacist does not look whether the desk is free.             *)
MutantQueuesOnlyWhenFull == medicine_count = MAX_MEDICINE_CAPACITY

MustQueue ==
  medicine_count = MAX_MEDICINE_CAPACITY \/ pharmacist_wants_to_deliver

PharmacistQueues(f) ==
  /\ pharmacist[f] \in {"walking", "notified"}
  /\ MustQueue
  /\ pharmacist' = [pharmacist EXCEPT ![f] = "queueing"]
  /\ UNCHANGED <<room, medicine_count, patients_served_count, desk,
                 doctor, patient, main>>

(* Mutant: only the second of the two branches signals the doctor.          *)
MutantSignalsOnlyHalfFull ==
  /\ medicine_count >= MEDICINE_PER_CONSULTATION
  /\ medicine_count < MAX_MEDICINE_CAPACITY
  /\ ~CanConsult

(* The two branches that signal the doctor: too little medicine, or a       *)
(* cabinet that is not full while no consultation is due.  The second says  *)
(* that the doctor "may accept the delivery", which CanAccept denies as long*)
(* as there is medicine for a consultation: the doctor sleeps again.        *)
PharmacistSignals ==
  \/ medicine_count < MEDICINE_PER_CONSULTATION
  \/ medicine_count < MAX_MEDICINE_CAPACITY /\ ~CanConsult

PharmacistRegisters(f) ==
  /\ pharmacist[f] \in {"walking", "notified"}
  /\ ~MustQueue
  /\ delivering_pharmacist_id' = f
  /\ pharmacist_wants_to_deliver' = TRUE
  /\ doctor' = IF PharmacistSignals THEN SignalDoctor ELSE doctor
  /\ pharmacist' = [pharmacist EXCEPT ![f] = "registered"]
  /\ UNCHANGED <<room, medicine_count, patients_served_count, patient, main>>

PharmacistLeaves(f) ==
  /\ pharmacist[f] = "released"
  /\ pharmacist' = [pharmacist EXCEPT ![f] = "gone"]
  /\ UNCHANGED <<room, medicine_count, patients_served_count, desk,
                 doctor, patient, main>>

-----------------------------------------------------------------------------
(* The main thread, from pthread_join(doctor_tid) on.                       *)

MainSignalsPatients ==
  /\ main = "join_doctor"
  /\ doctor = "off_duty"
  /\ patient' = [p \in Patients |->
                   IF patient[p] = "in_room" THEN "released" ELSE patient[p]]
  /\ main' = "join_patients"
  /\ UNCHANGED <<room, medicine_count, patients_served_count, desk,
                 doctor, pharmacist>>

MainReleasesPharmacists ==
  /\ main = "join_patients"
  /\ \A p \in Patients : patient[p] = "gone"
  /\ \E w \in SignalAccepted :
       pharmacist' = [f \in Pharmacists |->
                        IF f = w THEN "released" ELSE BroadcastDeliver(f)]
  /\ main' = "join_pharmacists"
  /\ UNCHANGED <<room, medicine_count, patients_served_count, desk,
                 doctor, patient>>

MainFinishes ==
  /\ main = "join_pharmacists"
  /\ \A f \in Pharmacists : pharmacist[f] = "gone"
  /\ main' = "done"
  /\ UNCHANGED <<room, medicine_count, patients_served_count, desk,
                 doctor, patient, pharmacist>>

-----------------------------------------------------------------------------
(* POSIX allows pthread_cond_wait to return although nobody signalled.      *)

SpuriousDoctor ==
  /\ "doctor" \in SpuriousWakeups
  /\ doctor = "asleep"
  /\ doctor' = "woken"
  /\ UNCHANGED <<room, medicine_count, patients_served_count, desk,
                 patient, pharmacist, main>>

SpuriousPatient(p) ==
  /\ patient[p] \in {"outside", "in_room"} \cap SpuriousWakeups
  /\ patient' = [patient EXCEPT
       ![p] = IF patient[p] = "outside" THEN "let_in" ELSE "released"]
  /\ UNCHANGED <<room, medicine_count, patients_served_count, desk,
                 doctor, pharmacist, main>>

SpuriousPharmacist(f) ==
  /\ pharmacist[f] \in {"queueing", "registered"} \cap SpuriousWakeups
  /\ pharmacist' = [pharmacist EXCEPT
       ![f] = IF pharmacist[f] = "queueing" THEN "notified" ELSE "released"]
  /\ UNCHANGED <<room, medicine_count, patients_served_count, desk,
                 doctor, patient, main>>

-----------------------------------------------------------------------------
Init ==
  /\ patients_in_waiting_room = 0
  /\ patient_ids_for_current_consultation = [i \in Chairs |-> 0]
  /\ medicine_count = 0
  /\ patients_served_count = 0
  /\ pharmacist_wants_to_deliver = FALSE
  /\ delivering_pharmacist_id = Nobody
  /\ doctor = "starting"
  /\ patient = [p \in Patients |-> "walking"]
  /\ pharmacist = [f \in Pharmacists |-> "walking"]
  /\ main = "join_doctor"

DoctorStep == DoctorStart \/ DoctorWake \/ FinishConsultation \/ FinishDelivery
PatientStep(p) == PatientFindsRoomFull(p) \/ PatientEnters(p) \/ PatientLeaves(p)
PharmacistStep(f) ==
  PharmacistQueues(f) \/ PharmacistRegisters(f) \/ PharmacistLeaves(f)
MainStep == MainSignalsPatients \/ MainReleasesPharmacists \/ MainFinishes

Next ==
  \/ DoctorStep
  \/ \E p \in Patients : PatientStep(p)
  \/ \E f \in Pharmacists : PharmacistStep(f)
  \/ MainStep
  \/ SpuriousDoctor
  \/ \E p \in Patients : SpuriousPatient(p)
  \/ \E f \in Pharmacists : SpuriousPharmacist(f)

Spec == Init /\ [][Next]_vars

(* Every runnable thread eventually runs its critical section: the sleeps   *)
(* end, and each thread enters the mutex a finite number of times between   *)
(* signals, so none is kept from it for ever.  A spurious wakeup is never   *)
(* owed.                                                                    *)
Fairness ==
  /\ WF_vars(DoctorStep)
  /\ \A p \in Patients : WF_vars(PatientStep(p))
  /\ \A f \in Pharmacists : WF_vars(PharmacistStep(f))
  /\ WF_vars(MainStep)

FairSpec == Spec /\ Fairness

-----------------------------------------------------------------------------
(* Types of the variables; the ids array is only ever indexed inside its    *)
(* bounds (patient_thread_func writes at index patients_in_waiting_room).   *)
TypeOK ==
  /\ patients_in_waiting_room \in 0 .. MAX_PATIENTS_IN_WAITING_ROOM
  /\ patient_ids_for_current_consultation \in [Chairs -> Patients]
  /\ medicine_count \in 0 .. MAX_MEDICINE_CAPACITY
  /\ patients_served_count \in Nat
  /\ pharmacist_wants_to_deliver \in BOOLEAN
  /\ delivering_pharmacist_id \in Pharmacists \cup {Nobody}
  /\ doctor \in {"starting", "asleep", "woken", "consulting", "delivering",
                 "off_duty"}
  /\ patient \in [Patients -> {"walking", "outside", "let_in", "in_room",
                               "released", "gone"}]
  /\ pharmacist \in [Pharmacists -> {"walking", "queueing", "notified",
                                     "registered", "released", "gone"}]
  /\ main \in {"join_doctor", "join_patients", "join_pharmacists", "done"}

(* What the doctor tested before unlocking the mutex still holds when it is *)
(* locked again, although patients and pharmacists run during the sleep:    *)
(* a consultation has its full room and its medicine (so the medicine never *)
(* goes below zero), a delivery has its pharmacist registered.              *)
DoctorChecksStayValid ==
  /\ doctor = "consulting" => CanConsult
  /\ doctor = "delivering" => CanAccept

(* No wakeup of the doctor is lost: whenever the doctor sleeps on           *)
(* doctor_cond there is nothing to do, whichever thread made the work ready *)
(* and whatever the doctor was doing at the time.                           *)
DoctorSleepsOnlyWhenIdle == doctor = "asleep" => ~DoctorHasWork

(* No wakeup of a patient is lost: a patient waits outside only while the   *)
(* room is full.                                                            *)
PatientOutsideOnlyWhenFull ==
  \A p \in Patients : patient[p] = "outside" =>
     patients_in_waiting_room >= MAX_PATIENTS_IN_WAITING_ROOM

(* The desk is free and the cabinet is not full, but it still holds the     *)
(* medicine of a consultation: the doctor would turn a delivery down        *)
(* (CanAccept).  A consultation that ends like this wakes no pharmacist.    *)
DeliveryWouldBeEarly ==
  ~MustQueue /\ medicine_count >= MEDICINE_PER_CONSULTATION

(* A pharmacist sleeps in the queue only while its own loop test tells it   *)
(* to, or while a delivery would be early.  The second is an exception to   *)
(* "nobody sleeps on a condition that holds": a pharmacist that went to     *)
(* sleep before a full cabinet is left asleep by the consultation that takes*)
(* medicine out and leaves enough for another, and the consultation that    *)
(* takes the rest wakes it.                                                 *)
QueueingPharmacistNotForgotten ==
  \A f \in Pharmacists : pharmacist[f] = "queueing" =>
     MustQueue \/ DeliveryWouldBeEarly

(* No thread sleeps while it could get on with its work, in any             *)
(* interleaving: not the doctor on work it would do, not a patient outside a*)
(* room with a free chair, not a pharmacist whose delivery the doctor would *)
(* take.  It does not say that a pharmacist's own loop test holds while it  *)
(* sleeps (QueueingPharmacistNotForgotten).                                 *)
NoSleeperForgotten ==
  /\ DoctorSleepsOnlyWhenIdle
  /\ PatientOutsideOnlyWhenFull
  /\ QueueingPharmacistNotForgotten

(* At most one pharmacist waits for the acceptance of a delivery, and it is *)
(* the one whose id is at the desk: the single signal of FinishDelivery     *)
(* reaches the right thread.                                                *)
AcceptanceReachesItsPharmacist ==
  \A f \in Pharmacists : pharmacist[f] = "registered" =>
     pharmacist_wants_to_deliver /\ delivering_pharmacist_id = f

(* The number of patients that were released from the room is the number    *)
(* the doctor counts as served: nobody is counted twice or forgotten, so a  *)
(* shift that ends has served everybody.                                    *)
Released == {p \in Patients : patient[p] \in {"released", "gone"}}

ServedAreReleased == patients_served_count = Cardinality(Released)

(* While the shift lasts, a pharmacist that waits for the acceptance of its *)
(* delivery leaves only when the doctor has taken it: the cabinet is full.  *)
ReleasedByDelivery ==
  [][\A f \in Pharmacists :
       /\ doctor # "off_duty"
       /\ pharmacist[f] = "registered"
       /\ pharmacist'[f] # "registered"
       => /\ delivering_pharmacist_id = f
          /\ medicine_count' = MAX_MEDICINE_CAPACITY
    ]_vars

(* A shift ends only when every patient has been released from the room by  *)
(* a consultation ("Koncze dyzur, wszyscy pacjenci obsluzeni").             *)
ShiftServesEverybody == doctor = "off_duty" => Released = Patients

-----------------------------------------------------------------------------
(* The program ends: main joins every thread.                               *)
Terminates == <>(main = "done")
=============================================================================
