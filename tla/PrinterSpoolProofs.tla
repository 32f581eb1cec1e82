------------------------- MODULE PrinterSpoolProofs -------------------------
(***************************************************************************)
(* Proof that Printer implements PrintSpool, for every number of users,    *)
(* printers and places.                                                    *)
(***************************************************************************)
EXTENDS PrinterProofs, SequenceTheorems

(* The waiting jobs are a sequence of jobs, as long as Length says.         *)
WaitingSeq ==
  /\ WaitingJobs \in Seq(Jobs)
  /\ Len(WaitingJobs) = Length
  /\ \A i \in 1 .. Length : WaitingJobs[i] = jobs[Place(i - 1)]

LEMMA WaitingIsSeq == QueueInv => WaitingSeq
<1> SUFFICES ASSUME QueueInv PROVE WaitingSeq
  OBVIOUS
<1>1. Length \in Nat
  BY LengthBounds, PrinterAssumption DEF QueueInv
<1>2. WaitingJobs \in [1 .. Length -> Jobs]
  BY <1>1 DEF WaitingJobs, QueueInv, JobsStored
<1>3. WaitingJobs \in Seq(Jobs)
  BY <1>1, <1>2, SeqDef
<1>4. Len(WaitingJobs) = Length
  BY <1>1, <1>2, <1>3, LenProperties
<1> QED
  BY <1>3, <1>4 DEF WaitingJobs, WaitingSeq

LEMMA WaitingIsSeqNext == ASSUME QueueInv' PROVE WaitingSeq'
  BY WaitingIsSeq, PTL

(* A step that leaves the places of the waiting jobs alone.                 *)
LEMMA WaitingKept ==
  ASSUME QueueInv, QueueInv', Length' = Length, head' = head,
         \A i \in 0 .. Length - 1 : jobs'[Place(i)] = jobs[Place(i)]
  PROVE  WaitingJobs' = WaitingJobs
<1>1. \A i : Place(i)' = Place(i)
  BY DEF Place
<1>2. Length \in Nat
  BY LengthBounds, PrinterAssumption DEF QueueInv
<1> QED
  BY <1>1, <1>2 DEF WaitingJobs

(* Moving tail past a stored job submits it.                                *)
LEMMA MoveTailSubmits ==
  ASSUME QueueInv, QueueInv', NEW u \in Users, UserMovesTail(u)
  PROVE  Spool!Submit(user_job[u]) /\ user_job[u] \in Jobs
<1>1. user_job[u] \in Jobs
  BY DEF QueueInv, Types
<1>2. Length < QUEUE_SIZE /\ Length \in Nat
  BY LengthBounds, PrinterAssumption
  DEF QueueInv, UserMovesTail, UserGoes, printers, UsersAtWork, UsersUnannounced,
      UserStates
<1>3. Length' = Length + 1
  <2>1. /\ Cardinality(UsersUnannounced') = Cardinality(UsersUnannounced) + 1
        /\ UNCHANGED PrintersGranted
    BY UserMoves, CountsFinite DEF UserMovesTail, UserStates, QueueInv
  <2> QED
    BY <2>1, CountsFinite
    DEF UserMovesTail, semaphores, Length, QueueInv, Types
<1>4. jobs[Place(Length)] = user_job[u]
  BY DEF QueueInv, UserHasStored, TailAgrees, UserMovesTail, UserGoes, printers
<1>5. WaitingJobs' = Append(WaitingJobs, user_job[u])
  <2>1. /\ Append(WaitingJobs, user_job[u]) \in Seq(Jobs)
        /\ Len(Append(WaitingJobs, user_job[u])) = Length + 1
        /\ \A i \in 1 .. Length :
             Append(WaitingJobs, user_job[u])[i] = jobs[Place(i - 1)]
        /\ Append(WaitingJobs, user_job[u])[Length + 1] = user_job[u]
    BY <1>1, WaitingIsSeq, AppendProperties DEF WaitingSeq
  <2>2. /\ WaitingJobs' \in Seq(Jobs)
        /\ Len(WaitingJobs') = Length + 1
        /\ \A i \in 1 .. Length + 1 : WaitingJobs'[i] = jobs[Place(i - 1)]
    <3>1. /\ WaitingJobs' \in Seq(Jobs)
          /\ Len(WaitingJobs') = Length'
          /\ \A i \in 1 .. Length' : WaitingJobs'[i] = jobs'[Place(i - 1)']
      BY WaitingIsSeqNext DEF WaitingSeq
    <3>2. jobs' = jobs /\ \A i : Place(i)' = Place(i)
      BY DEF UserMovesTail, Place
    <3> QED
      BY <1>3, <3>1, <3>2
  <2>3. \A i \in 1 .. Length + 1 :
          WaitingJobs'[i] = Append(WaitingJobs, user_job[u])[i]
    <3> SUFFICES ASSUME NEW i \in 1 .. Length + 1
                 PROVE  WaitingJobs'[i] = Append(WaitingJobs, user_job[u])[i]
      OBVIOUS
    <3>1. WaitingJobs'[i] = jobs[Place(i - 1)]
      BY <2>2
    <3>2. CASE i = Length + 1
      <4>1. i - 1 = Length
        BY <1>2, <3>2
      <4> QED
        BY <1>4, <2>1, <3>1, <3>2, <4>1
    <3>3. CASE i # Length + 1
      <4>1. i \in 1 .. Length
        BY <1>2, <3>3
      <4> QED
        BY <2>1, <3>1, <4>1
    <3> QED
      BY <3>2, <3>3
  <2> QED
    BY <2>1, <2>2, <2>3, SeqEqual
<1>6. TakenJobs' = TakenJobs
  BY DEF UserMovesTail, UserGoes, printers, TakenJobs
<1> QED
  BY <1>1, <1>2, <1>5, <1>6, WaitingIsSeq DEF Spool!Submit, WaitingSeq

(* Moving head past a loaded job takes it.                                  *)
LEMMA MoveHeadTakes ==
  ASSUME QueueInv, QueueInv', NEW p \in Printers, PrinterMovesHead(p)
  PROVE  Spool!Take(p)
<1>1. Length \in 1 .. QUEUE_SIZE
  BY LengthBounds, PrinterAssumption
  DEF QueueInv, PrinterMovesHead, PrinterGoes, users, PrintersGranted
<1>2. Length' = Length - 1
  <2>1. /\ Cardinality(PrintersGranted') = Cardinality(PrintersGranted) - 1
        /\ UNCHANGED UsersUnannounced
    BY PrinterMoves, CountsFinite DEF PrinterMovesHead, PrinterStates, QueueInv
  <2> QED
    BY <2>1, CountsFinite
    DEF PrinterMovesHead, semaphores, Length, QueueInv, Types
<1>3. jobs' = jobs /\ \A n \in 0 .. QUEUE_SIZE - 1 : Place(n)' = Place(n + 1)
  <2>1. head' = (head + 1) % QUEUE_SIZE
    BY DEF QueueInv, NothingLost, PrinterMovesHead, PrinterGoes
  <2> QED
    BY <2>1, HeadMoves DEF QueueInv, PrinterMovesHead
<1>4. WaitingJobs # <<>> /\ Head(WaitingJobs) = printer_job[p]
  <2>1. WaitingJobs # <<>>
    BY <1>1, WaitingIsSeq, EmptySeq DEF WaitingSeq
  <2>2. Head(WaitingJobs) = jobs[Place(0)]
    BY <1>1, <2>1, WaitingIsSeq DEF WaitingSeq
  <2>3. Place(0) = head
    BY PrinterAssumption DEF Place, QueueInv, Types, Places
  <2> QED
    BY <2>1, <2>2, <2>3 DEF QueueInv, PrinterHasLoaded, PrinterMovesHead,
                            PrinterGoes, users
<1>5. WaitingJobs' = Tail(WaitingJobs)
  <2>1. /\ Tail(WaitingJobs) \in Seq(Jobs)
        /\ Len(Tail(WaitingJobs)) = Length - 1
        /\ \A i \in 1 .. Length - 1 :
             Tail(WaitingJobs)[i] = WaitingJobs[i + 1]
    BY <1>4, WaitingIsSeq, HeadTailProperties DEF WaitingSeq
  <2>2. \A i \in 1 .. Length - 1 : WaitingJobs[i + 1] = jobs[Place(i)]
    BY <1>1, WaitingIsSeq DEF WaitingSeq
  <2>3. /\ WaitingJobs' \in Seq(Jobs)
        /\ Len(WaitingJobs') = Length - 1
        /\ \A i \in 1 .. Length - 1 : WaitingJobs'[i] = jobs[Place(i)]
    <3>1. /\ WaitingJobs' \in Seq(Jobs)
          /\ Len(WaitingJobs') = Length'
          /\ \A i \in 1 .. Length' : WaitingJobs'[i] = jobs'[Place(i - 1)']
      BY WaitingIsSeqNext DEF WaitingSeq
    <3>2. ASSUME NEW i \in 1 .. Length - 1 PROVE Place(i - 1)' = Place(i)
      <4>1. i - 1 \in 0 .. QUEUE_SIZE - 1 /\ (i - 1) + 1 = i
        BY <1>1, PrinterAssumption
      <4> QED
        BY <1>3, <4>1
    <3> QED
      BY <1>2, <1>3, <3>1, <3>2
  <2> QED
    BY <2>1, <2>2, <2>3, SeqEqual
<1>6. TakenJobs[p] = NoJob
      /\ TakenJobs' = [TakenJobs EXCEPT ![p] = printer_job[p]]
  BY DEF PrinterMovesHead, PrinterGoes, users, TakenJobs, HasTaken, QueueInv, Types
<1> QED
  BY <1>4, <1>5, <1>6 DEF Spool!Take

(* A printed job is finished.                                               *)
LEMMA PrintFinishes ==
  ASSUME QueueInv, QueueInv', NEW p \in Printers, PrinterPrints(p)
  PROVE  Spool!Finish(p)
<1>1. Length' = Length
  <2>1. /\ Cardinality(PrintersGranted') = Cardinality(PrintersGranted)
        /\ UNCHANGED UsersUnannounced
    BY PrinterMoves, CountsFinite DEF PrinterPrints, PrinterStates, QueueInv
  <2> QED
    BY <2>1 DEF PrinterPrints, semaphores, Length
<1>2. WaitingJobs' = WaitingJobs
  BY <1>1, WaitingKept DEF PrinterPrints, queue
<1>3. TakenJobs[p] # NoJob /\ TakenJobs' = [TakenJobs EXCEPT ![p] = NoJob]
  <2>1. printer[p] \in HasTaken /\ printer_job[p] \in Jobs
    BY DEF PrinterPrints, PrinterGoes, users, HasTaken, QueueInv, PrinterHasLoaded
  <2>2. TakenJobs[p] # NoJob
    BY <2>1, PrinterAssumption DEF TakenJobs
  <2>3. \A q \in Printers : TakenJobs'[q] = IF q = p THEN NoJob ELSE TakenJobs[q]
    BY DEF PrinterPrints, PrinterGoes, users, TakenJobs, HasTaken, QueueInv, Types
  <2>4. TakenJobs' = [q \in Printers |-> IF q = p THEN NoJob ELSE TakenJobs[q]]
    BY <2>3 DEF TakenJobs
  <2>5. TakenJobs = [q \in Printers |-> TakenJobs[q]]
    BY DEF TakenJobs
  <2> QED
    BY <2>2, <2>4, <2>5
<1> QED
  BY <1>2, <1>3 DEF Spool!Finish

(* Every other step of a user is invisible to the spool.                    *)
LEMMA UserStutters ==
  ASSUME QueueInv, QueueInv', NEW u \in Users, UserStep(u), ~UserMovesTail(u)
  PROVE  UNCHANGED <<WaitingJobs, TakenJobs>>
<1>1. TakenJobs' = TakenJobs
  BY DEF UserStep, UserWaitsSlots, UserWaitsMutex, UserStores, UserReadsTail,
         UserReadsCount, UserCountsUp,
         UserPostsMutex, UserPostsItems, UserMakesJob, UserGoes, printers, TakenJobs
<1>2. Length' = Length
  <2>1. CASE UserPostsItems(u)
    BY <2>1, UserMoves, CountsFinite
    DEF UserPostsItems, UserStates, QueueInv, Types, Length
  <2>2. CASE ~UserPostsItems(u)
    <3>1. UsersUnannounced' = UsersUnannounced
          /\ PrintersGranted' = PrintersGranted
      BY <2>2
      DEF UserStep, UserWaitsSlots, UserWaitsMutex, UserStores, UserReadsTail,
         UserReadsCount, UserCountsUp,
          UserPostsMutex, UserMakesJob, UserGoes, printers, UsersUnannounced,
          PrintersGranted, QueueInv, Types
    <3>2. items' = items
      BY <2>2
      DEF UserStep, UserWaitsSlots, UserWaitsMutex, UserStores, UserReadsTail,
         UserReadsCount, UserCountsUp,
          UserPostsMutex, UserMakesJob, semaphores
    <3> QED
      BY <3>1, <3>2 DEF Length
  <2> QED
    BY <2>1, <2>2
<1>3. head' = head
  BY DEF UserStep, UserWaitsSlots, UserWaitsMutex, UserStores, UserReadsTail,
         UserReadsCount, UserCountsUp,
         UserPostsMutex, UserPostsItems, UserMakesJob, queue
<1>4. \A i \in 0 .. Length - 1 : jobs'[Place(i)] = jobs[Place(i)]
  <2>1. CASE UserStores(u)
    <3>1. Length < QUEUE_SIZE /\ Length \in Nat /\ tail = Place(Length)
      BY <2>1, LengthBounds, PrinterAssumption
      DEF QueueInv, TailAgrees, UserStores, UserGoes, printers, UsersAtWork,
          UsersUnannounced, UserStates
    <3>2. \A i \in 0 .. Length - 1 : Place(i) \in Places /\ Place(i) # tail
      BY <3>1, PrinterAssumption DEF Place, Places, QueueInv, Types
    <3> QED
      BY <2>1, <3>2 DEF UserStores, QueueInv, Types
  <2>2. CASE ~UserStores(u)
    BY <2>2
    DEF UserStep, UserWaitsSlots, UserWaitsMutex, UserReadsTail,
        UserReadsCount, UserCountsUp, UserPostsMutex, UserPostsItems, UserMakesJob, queue
  <2> QED
    BY <2>1, <2>2
<1> QED
  BY <1>1, <1>2, <1>3, <1>4, WaitingKept

(* Every other step of a printer is invisible too.                          *)
LEMMA PrinterStutters ==
  ASSUME QueueInv, QueueInv', NEW p \in Printers, PrinterStep(p),
         ~PrinterMovesHead(p), ~PrinterPrints(p)
  PROVE  UNCHANGED <<WaitingJobs, TakenJobs>>
<1>1. TakenJobs' = TakenJobs
  BY DEF PrinterStep, PrinterWaitsItems, PrinterWaitsMutex, PrinterLoads,
         PrinterReadsHead, PrinterReadsCount, PrinterCountsDown, PrinterPostsMutex, PrinterPostsSlots,
         PrinterGoes, users, TakenJobs, HasTaken, QueueInv, Types
<1>2. Length' = Length
  BY PrinterMoves, CountsFinite
  DEF PrinterStep, PrinterWaitsItems, PrinterWaitsMutex, PrinterLoads,
      PrinterReadsHead, PrinterReadsCount, PrinterCountsDown, PrinterPostsMutex, PrinterPostsSlots, PrinterStates,
      QueueInv, Types, Length, queue, semaphores
<1>3. head' = head /\ jobs' = jobs
  BY DEF PrinterStep, PrinterWaitsItems, PrinterWaitsMutex, PrinterLoads,
         PrinterReadsHead, PrinterReadsCount, PrinterCountsDown, PrinterPostsMutex, PrinterPostsSlots, queue
<1> QED
  BY <1>1, <1>2, <1>3, WaitingKept

(* The cyclic array with its three semaphores is a bounded first-in         *)
(* first-out spool.                                                         *)
THEOREM SpoolImplemented == Spec => ImplementsSpool
<1>1. Init => Spool!Init
  <2> SUFFICES ASSUME Init PROVE Spool!Init
    OBVIOUS
  <2>1. Length = 0
    <3>1. UsersUnannounced = {} /\ PrintersGranted = {}
      BY DEF Init, UsersUnannounced, PrintersGranted
    <3> QED
      BY <3>1, FS_EmptySet DEF Init, Length
  <2>2. WaitingJobs = <<>>
    BY <2>1, InitQueueInv, WaitingIsSeq, EmptySeq DEF WaitingSeq
  <2>3. TakenJobs = [p \in Printers |-> NoJob]
    BY DEF Init, TakenJobs, HasTaken
  <2> QED
    BY <2>2, <2>3 DEF Spool!Init
<1>2. ASSUME QueueInv, QueueInv', [Next]_vars
      PROVE  [Spool!Next]_<<WaitingJobs, TakenJobs>>
  <2>1. ASSUME NEW u \in Users, UserStep(u)
        PROVE  [Spool!Next]_<<WaitingJobs, TakenJobs>>
    BY <1>2, <2>1, MoveTailSubmits, UserStutters DEF Spool!Next
  <2>2. ASSUME NEW p \in Printers, PrinterStep(p)
        PROVE  [Spool!Next]_<<WaitingJobs, TakenJobs>>
    BY <1>2, <2>2, MoveHeadTakes, PrintFinishes, PrinterStutters
    DEF Spool!Next
  <2>3. CASE UNCHANGED vars
    BY <2>3
    DEF vars, queue, semaphores, users, printers, WaitingJobs, TakenJobs, Length, Place,
        UsersUnannounced, PrintersGranted
  <2> QED
    BY <1>2, <2>1, <2>2, <2>3 DEF Next
<1> QED
  BY <1>1, <1>2, QueueCorrect, PTL DEF Spec, ImplementsSpool, Spool!Spec
=============================================================================
