--------------------------- MODULE PrinterProofs ---------------------------
(***************************************************************************)
(* Proofs about Printer for every number of users, printers and places.    *)
(***************************************************************************)
EXTENDS Printer, FiniteSetTheorems, TLAPS

-----------------------------------------------------------------------------
(* Counting the threads of a kind by their control state.                   *)

(* Two subsets that agree on all elements but x have the same size, but for *)
(* x itself.                                                                *)
LEMMA MoveCounts ==
  ASSUME NEW T, IsFiniteSet(T), NEW x \in T,
         NEW A \in SUBSET T, NEW B \in SUBSET T,
         \A y \in T \ {x} : y \in A <=> y \in B
  PROVE  /\ Cardinality(A) \in Nat /\ Cardinality(B) \in Nat
         /\ Cardinality(B) + (IF x \in A THEN 1 ELSE 0)
              = Cardinality(A) + (IF x \in B THEN 1 ELSE 0)
<1>1. IsFiniteSet(A) /\ Cardinality(A) \in Nat
      /\ IsFiniteSet(B) /\ Cardinality(B) \in Nat
  BY FS_Subset, FS_CardinalityType
<1>2. CASE x \in A <=> x \in B
  <2>1. A = B
    BY <1>2
  <2> QED
    BY <1>1, <1>2, <2>1
<1>3. CASE x \notin A /\ x \in B
  <2>1. B = A \cup {x}
    BY <1>3
  <2> QED
    BY <1>1, <1>3, <2>1, FS_AddElement
<1>4. CASE x \in A /\ x \notin B
  <2>1. B = A \ {x}
    BY <1>4
  <2>2. Cardinality(B) = Cardinality(A) - 1
    BY <1>1, <1>4, <2>1, FS_RemoveElement
  <2> QED
    BY <1>1, <1>4, <2>2
<1> QED
  BY <1>1, <1>2, <1>3, <1>4

(* A larger set of control states counts at least as many threads, and a    *)
(* thread that only the larger one counts makes the difference.             *)
LEMMA SubsetCounts ==
  ASSUME NEW B, IsFiniteSet(B), NEW A \in SUBSET B
  PROVE  /\ IsFiniteSet(A)
         /\ Cardinality(A) \in Nat
         /\ Cardinality(B) \in Nat
         /\ Cardinality(A) <= Cardinality(B)
         /\ \A x \in B \ A : Cardinality(A) < Cardinality(B)
<1>1. IsFiniteSet(A) /\ Cardinality(A) <= Cardinality(B)
      /\ Cardinality(A) \in Nat /\ Cardinality(B) \in Nat
  BY FS_Subset, FS_CardinalityType
<1>2. ASSUME NEW x \in B \ A PROVE Cardinality(A) < Cardinality(B)
  BY <1>1, <1>2, FS_Subset
<1> QED
  BY <1>1, <1>2

(* A finite set with no more than one element.                              *)
LEMMA AtMostOne ==
  ASSUME NEW A, IsFiniteSet(A), Cardinality(A) <= 1, NEW x \in A
  PROVE  A = {x} /\ Cardinality(A) = 1
<1>1. IsFiniteSet(A \ {x}) /\ Cardinality(A \ {x}) = Cardinality(A) - 1
  BY FS_RemoveElement
<1>2. Cardinality(A \ {x}) \in Nat /\ Cardinality(A) \in Nat
  BY <1>1, FS_CardinalityType
<1>3. Cardinality(A \ {x}) = 0
  BY <1>1, <1>2
<1>4. A \ {x} = {}
  BY <1>1, <1>3, FS_EmptySet
<1> QED
  BY <1>1, <1>3, <1>4, <1>2

(* Threads that have moved an index and not yet the counter.                *)
UsersCounting    == {u \in Users : user[u] \in {"read_count", "count_up"}}
PrintersCounting == {p \in Printers : printer[p] \in {"read_count", "count_down"}}

(* The types the induction rests on; the bounds follow from it.             *)
Types ==
  /\ jobs \in [Places -> Jobs \cup {NoJob}]
  /\ head \in Places
  /\ tail \in Places
  /\ count \in Int
  /\ mutex \in Nat
  /\ slots \in Nat
  /\ items \in Nat
  /\ user \in [Users -> UserStates]
  /\ user_job \in [Users -> Jobs]
  /\ user_read \in [Users -> 0 .. QUEUE_SIZE]
  /\ printer \in [Printers -> PrinterStates]
  /\ printer_job \in [Printers -> Jobs \cup {NoJob}]
  /\ printer_read \in [Printers -> 0 .. QUEUE_SIZE]

MutexCount ==
  mutex + Cardinality(UsersInside) + Cardinality(PrintersInside) = 1

CountAgrees ==
  count + Cardinality(UsersCounting) = Length + Cardinality(PrintersCounting)

TailAgrees == tail = Place(Length)

JobsStored == \A i \in 0 .. Length - 1 : jobs[Place(i)] \in Jobs

UserHasStored ==
  \A u \in Users :
    user[u] \in {"read_tail", "move_tail"} => jobs[tail] = user_job[u]

PrinterHasLoaded ==
  \A p \in Printers :
    /\ printer[p] \in {"read_head", "move_head"} => printer_job[p] = jobs[head]
    /\ printer[p] \in HasTaken => printer_job[p] \in Jobs

(* What a thread has loaded of a field it is about to store is still what   *)
(* the field holds: nobody else has updated it in between.                  *)
NothingLost ==
  /\ \A u \in Users :
       /\ user[u] = "move_tail" => user_read[u] = tail
       /\ user[u] = "count_up" => user_read[u] = count
  /\ \A p \in Printers :
       /\ printer[p] = "move_head" => printer_read[p] = head
       /\ printer[p] = "count_down" => printer_read[p] = count

(* The inductive invariant.                                                 *)
QueueInv ==
  /\ Types
  /\ MutexCount
  /\ SlotsConserved
  /\ CountAgrees
  /\ TailAgrees
  /\ JobsStored
  /\ UserHasStored
  /\ PrinterHasLoaded
  /\ NothingLost

LEMMA CountsFinite ==
  /\ IsFiniteSet(UsersInside)      /\ Cardinality(UsersInside) \in Nat
  /\ IsFiniteSet(UsersAtWork)      /\ Cardinality(UsersAtWork) \in Nat
  /\ IsFiniteSet(UsersUnannounced) /\ Cardinality(UsersUnannounced) \in Nat
  /\ IsFiniteSet(UsersCounting)    /\ Cardinality(UsersCounting) \in Nat
  /\ IsFiniteSet(PrintersInside)   /\ Cardinality(PrintersInside) \in Nat
  /\ IsFiniteSet(PrintersAtWork)   /\ Cardinality(PrintersAtWork) \in Nat
  /\ IsFiniteSet(PrintersGranted)  /\ Cardinality(PrintersGranted) \in Nat
  /\ IsFiniteSet(PrintersCounting) /\ Cardinality(PrintersCounting) \in Nat
<1>1. /\ UsersInside \in SUBSET Users
      /\ UsersAtWork \in SUBSET Users
      /\ UsersUnannounced \in SUBSET Users
      /\ UsersCounting \in SUBSET Users
      /\ PrintersInside \in SUBSET Printers
      /\ PrintersAtWork \in SUBSET Printers
      /\ PrintersGranted \in SUBSET Printers
      /\ PrintersCounting \in SUBSET Printers
  BY DEF UsersInside, UsersAtWork, UsersUnannounced, UsersCounting,
         PrintersInside, PrintersAtWork, PrintersGranted, PrintersCounting
<1> QED
  BY <1>1, PrinterAssumption, SubsetCounts

(* How the counts change when a user goes from one state to another.      *)
LEMMA UserMoves ==
  ASSUME Types, NEW u \in Users, NEW from, NEW to, UserGoes(u, from, to)
  PROVE  LET In(S) == IF to \in S THEN 1 ELSE 0
             Out(S) == IF from \in S THEN 1 ELSE 0
             Inside == {"store", "read_tail", "move_tail", "read_count",
                        "count_up", "post_mutex"}
             AtWork == UserStates \ {"wait_slots", "sleep"}
             Unannounced == {"read_count", "count_up", "post_mutex",
                             "post_items"}
             Counting == {"read_count", "count_up"}
         IN /\ Cardinality(UsersInside') \in Nat
            /\ Cardinality(UsersInside') + Out(Inside)
                 = Cardinality(UsersInside) + In(Inside)
            /\ Cardinality(UsersAtWork') \in Nat
            /\ Cardinality(UsersAtWork') + Out(AtWork)
                 = Cardinality(UsersAtWork) + In(AtWork)
            /\ Cardinality(UsersUnannounced') \in Nat
            /\ Cardinality(UsersUnannounced') + Out(Unannounced)
                 = Cardinality(UsersUnannounced) + In(Unannounced)
            /\ Cardinality(UsersCounting') \in Nat
            /\ Cardinality(UsersCounting') + Out(Counting)
                 = Cardinality(UsersCounting) + In(Counting)
            /\ UNCHANGED <<PrintersInside, PrintersAtWork, PrintersGranted,
                           PrintersCounting>>
<1>1. /\ user[u] = from /\ user'[u] = to
      /\ \A y \in Users \ {u} : user'[y] = user[y]
      /\ printer' = printer
  BY DEF UserGoes, printers, Types
<1>2. UNCHANGED <<PrintersInside, PrintersAtWork,
                  PrintersGranted, PrintersCounting>>
  BY <1>1 DEF PrintersInside, PrintersAtWork, PrintersGranted,
              PrintersCounting
<1>3. /\ Cardinality(UsersInside') \in Nat
      /\ Cardinality(UsersInside') + (IF u \in UsersInside THEN 1 ELSE 0)
           = Cardinality(UsersInside) + (IF u \in UsersInside' THEN 1 ELSE 0)
  <2>1. /\ UsersInside \in SUBSET Users /\ UsersInside' \in SUBSET Users
        /\ \A y \in Users \ {u} : y \in UsersInside <=> y \in UsersInside'
    BY <1>1 DEF UsersInside
  <2> QED
    BY <2>1, MoveCounts, PrinterAssumption
<1>4. /\ Cardinality(UsersAtWork') \in Nat
      /\ Cardinality(UsersAtWork') + (IF u \in UsersAtWork THEN 1 ELSE 0)
           = Cardinality(UsersAtWork) + (IF u \in UsersAtWork' THEN 1 ELSE 0)
  <2>1. /\ UsersAtWork \in SUBSET Users /\ UsersAtWork' \in SUBSET Users
        /\ \A y \in Users \ {u} : y \in UsersAtWork <=> y \in UsersAtWork'
    BY <1>1 DEF UsersAtWork
  <2> QED
    BY <2>1, MoveCounts, PrinterAssumption
<1>5. /\ Cardinality(UsersUnannounced') \in Nat
      /\ Cardinality(UsersUnannounced') + (IF u \in UsersUnannounced THEN 1 ELSE 0)
           = Cardinality(UsersUnannounced) + (IF u \in UsersUnannounced' THEN 1 ELSE 0)
  <2>1. /\ UsersUnannounced \in SUBSET Users /\ UsersUnannounced' \in SUBSET Users
        /\ \A y \in Users \ {u} : y \in UsersUnannounced <=> y \in UsersUnannounced'
    BY <1>1 DEF UsersUnannounced
  <2> QED
    BY <2>1, MoveCounts, PrinterAssumption
<1>6. /\ Cardinality(UsersCounting') \in Nat
      /\ Cardinality(UsersCounting') + (IF u \in UsersCounting THEN 1 ELSE 0)
           = Cardinality(UsersCounting) + (IF u \in UsersCounting' THEN 1 ELSE 0)
  <2>1. /\ UsersCounting \in SUBSET Users /\ UsersCounting' \in SUBSET Users
        /\ \A y \in Users \ {u} : y \in UsersCounting <=> y \in UsersCounting'
    BY <1>1 DEF UsersCounting
  <2> QED
    BY <2>1, MoveCounts, PrinterAssumption
<1> QED
  BY <1>1, <1>2, <1>3, <1>4, <1>5, <1>6
  DEF UsersInside, UsersAtWork,
      UsersUnannounced, UsersCounting

(* How the counts change when a printer goes from one state to another.   *)
LEMMA PrinterMoves ==
  ASSUME Types, NEW p \in Printers, NEW from, NEW to, PrinterGoes(p, from, to)
  PROVE  LET In(S) == IF to \in S THEN 1 ELSE 0
             Out(S) == IF from \in S THEN 1 ELSE 0
             Inside == {"load", "read_head", "move_head", "read_count",
                        "count_down", "post_mutex"}
             AtWork == PrinterStates \ {"wait_items", "print"}
             Granted == {"wait_mutex", "load", "read_head", "move_head"}
             Counting == {"read_count", "count_down"}
         IN /\ Cardinality(PrintersInside') \in Nat
            /\ Cardinality(PrintersInside') + Out(Inside)
                 = Cardinality(PrintersInside) + In(Inside)
            /\ Cardinality(PrintersAtWork') \in Nat
            /\ Cardinality(PrintersAtWork') + Out(AtWork)
                 = Cardinality(PrintersAtWork) + In(AtWork)
            /\ Cardinality(PrintersGranted') \in Nat
            /\ Cardinality(PrintersGranted') + Out(Granted)
                 = Cardinality(PrintersGranted) + In(Granted)
            /\ Cardinality(PrintersCounting') \in Nat
            /\ Cardinality(PrintersCounting') + Out(Counting)
                 = Cardinality(PrintersCounting) + In(Counting)
            /\ UNCHANGED <<UsersInside, UsersAtWork, UsersUnannounced,
                           UsersCounting>>
<1>1. /\ printer[p] = from /\ printer'[p] = to
      /\ \A y \in Printers \ {p} : printer'[y] = printer[y]
      /\ user' = user
  BY DEF PrinterGoes, users, Types
<1>2. UNCHANGED <<UsersInside, UsersAtWork,
                  UsersUnannounced, UsersCounting>>
  BY <1>1 DEF UsersInside, UsersAtWork, UsersUnannounced,
              UsersCounting
<1>3. /\ Cardinality(PrintersInside') \in Nat
      /\ Cardinality(PrintersInside') + (IF p \in PrintersInside THEN 1 ELSE 0)
           = Cardinality(PrintersInside) + (IF p \in PrintersInside' THEN 1 ELSE 0)
  <2>1. /\ PrintersInside \in SUBSET Printers /\ PrintersInside' \in SUBSET Printers
        /\ \A y \in Printers \ {p} : y \in PrintersInside <=> y \in PrintersInside'
    BY <1>1 DEF PrintersInside
  <2> QED
    BY <2>1, MoveCounts, PrinterAssumption
<1>4. /\ Cardinality(PrintersAtWork') \in Nat
      /\ Cardinality(PrintersAtWork') + (IF p \in PrintersAtWork THEN 1 ELSE 0)
           = Cardinality(PrintersAtWork) + (IF p \in PrintersAtWork' THEN 1 ELSE 0)
  <2>1. /\ PrintersAtWork \in SUBSET Printers /\ PrintersAtWork' \in SUBSET Printers
        /\ \A y \in Printers \ {p} : y \in PrintersAtWork <=> y \in PrintersAtWork'
    BY <1>1 DEF PrintersAtWork
  <2> QED
    BY <2>1, MoveCounts, PrinterAssumption
<1>5. /\ Cardinality(PrintersGranted') \in Nat
      /\ Cardinality(PrintersGranted') + (IF p \in PrintersGranted THEN 1 ELSE 0)
           = Cardinality(PrintersGranted) + (IF p \in PrintersGranted' THEN 1 ELSE 0)
  <2>1. /\ PrintersGranted \in SUBSET Printers /\ PrintersGranted' \in SUBSET Printers
        /\ \A y \in Printers \ {p} : y \in PrintersGranted <=> y \in PrintersGranted'
    BY <1>1 DEF PrintersGranted
  <2> QED
    BY <2>1, MoveCounts, PrinterAssumption
<1>6. /\ Cardinality(PrintersCounting') \in Nat
      /\ Cardinality(PrintersCounting') + (IF p \in PrintersCounting THEN 1 ELSE 0)
           = Cardinality(PrintersCounting) + (IF p \in PrintersCounting' THEN 1 ELSE 0)
  <2>1. /\ PrintersCounting \in SUBSET Printers /\ PrintersCounting' \in SUBSET Printers
        /\ \A y \in Printers \ {p} : y \in PrintersCounting <=> y \in PrintersCounting'
    BY <1>1 DEF PrintersCounting
  <2> QED
    BY <2>1, MoveCounts, PrinterAssumption
<1> QED
  BY <1>1, <1>2, <1>3, <1>4, <1>5, <1>6
  DEF PrintersInside, PrintersAtWork,
      PrintersGranted, PrintersCounting

-----------------------------------------------------------------------------
(* What the invariant says of the queue at any moment.                      *)

LEMMA LengthBounds ==
  ASSUME Types, SlotsConserved
  PROVE  /\ Length \in 0 .. QUEUE_SIZE
         /\ slots \in 0 .. QUEUE_SIZE
         /\ items \in 0 .. QUEUE_SIZE
         /\ \A u \in UsersAtWork \ UsersUnannounced : Length < QUEUE_SIZE
         /\ \A u \in UsersUnannounced : Length > 0
         /\ \A p \in PrintersAtWork \ PrintersGranted : Length < QUEUE_SIZE
         /\ \A p \in PrintersGranted : Length > 0
<1>1. /\ UsersUnannounced \in SUBSET UsersAtWork
      /\ PrintersGranted \in SUBSET PrintersAtWork
  BY DEF UsersUnannounced, UsersAtWork, PrintersGranted, PrintersAtWork,
         UserStates, PrinterStates
<1>2. /\ Cardinality(UsersUnannounced) <= Cardinality(UsersAtWork)
      /\ \A u \in UsersAtWork \ UsersUnannounced :
           Cardinality(UsersUnannounced) < Cardinality(UsersAtWork)
  BY <1>1, CountsFinite, SubsetCounts
<1>3. /\ Cardinality(PrintersGranted) <= Cardinality(PrintersAtWork)
      /\ \A p \in PrintersAtWork \ PrintersGranted :
           Cardinality(PrintersGranted) < Cardinality(PrintersAtWork)
  BY <1>1, CountsFinite, SubsetCounts
<1>4. /\ \A u \in UsersUnannounced : Cardinality(UsersUnannounced) # 0
      /\ \A p \in PrintersGranted : Cardinality(PrintersGranted) # 0
  BY CountsFinite, FS_EmptySet
<1> QED
  BY <1>2, <1>3, <1>4, CountsFinite, PrinterAssumption
  DEF Types, SlotsConserved, Length

(* The thread inside the critical section is alone there.                   *)
LEMMA InsideAlone ==
  ASSUME Types, MutexCount
  PROVE  /\ mutex \in {0, 1}
         /\ mutex = 1 => UsersInside = {} /\ PrintersInside = {}
         /\ MutualExclusion
<1>1. mutex \in {0, 1}
      /\ Cardinality(UsersInside) <= 1
      /\ Cardinality(PrintersInside) <= 1
      /\ (mutex = 1 => Cardinality(UsersInside) = 0
                       /\ Cardinality(PrintersInside) = 0)
      /\ (Cardinality(UsersInside) = 1 => Cardinality(PrintersInside) = 0)
      /\ (Cardinality(PrintersInside) = 1 => Cardinality(UsersInside) = 0)
  BY CountsFinite DEF Types, MutexCount
<1>2. ASSUME NEW u \in UsersInside
      PROVE  UsersInside = {u} /\ PrintersInside = {}
  BY <1>1, CountsFinite, AtMostOne, FS_EmptySet
<1>3. ASSUME NEW p \in PrintersInside
      PROVE  PrintersInside = {p} /\ UsersInside = {}
  BY <1>1, CountsFinite, AtMostOne, FS_EmptySet
<1>4. mutex = 1 => UsersInside = {} /\ PrintersInside = {}
  BY <1>1, CountsFinite, FS_EmptySet
<1> QED
  BY <1>1, <1>2, <1>3, <1>4 DEF MutualExclusion

(* Moving an index by one, with wrap-around.                                *)
LEMMA Wrap ==
  ASSUME NEW k \in Places
  PROVE  /\ (k + 1) % QUEUE_SIZE \in Places
         /\ (k + 1) % QUEUE_SIZE = IF k + 1 = QUEUE_SIZE THEN 0 ELSE k + 1
  BY PrinterAssumption DEF Places

LEMMA HeadMoves ==
  ASSUME Types, head' = (head + 1) % QUEUE_SIZE
  PROVE  /\ head' \in Places
         /\ \A n \in 0 .. QUEUE_SIZE - 1 : Place(n)' = Place(n + 1)
<1>1. /\ head' \in Places /\ head \in Places
      /\ head' = IF head + 1 = QUEUE_SIZE THEN 0 ELSE head + 1
  BY Wrap DEF Types
<1>2. ASSUME NEW n \in 0 .. QUEUE_SIZE - 1
      PROVE  Place(n)' = Place(n + 1)
  BY <1>1, PrinterAssumption DEF Place, Places
<1> QED
  BY <1>1, <1>2

LEMMA TailMoves ==
  ASSUME Types, NEW n \in 0 .. QUEUE_SIZE - 1, tail = Place(n),
         tail' = (tail + 1) % QUEUE_SIZE
  PROVE  tail' \in Places /\ tail' = Place(n + 1)
<1>1. /\ tail' \in Places /\ head \in Places
      /\ tail' = IF tail + 1 = QUEUE_SIZE THEN 0 ELSE tail + 1
  BY Wrap DEF Types
<1> QED
  BY <1>1, PrinterAssumption DEF Place, Places

(* The counter lags the index of the one thread inside by at most one.      *)
LEMMA CountBounds ==
  ASSUME QueueInv
  PROVE  count \in 0 .. QUEUE_SIZE
<1>1. /\ UsersCounting \in SUBSET UsersUnannounced
      /\ UsersCounting \in SUBSET UsersInside
      /\ PrintersCounting \in SUBSET PrintersAtWork
      /\ PrintersCounting \in SUBSET PrintersInside
  BY DEF UsersCounting, UsersUnannounced, UsersInside, PrintersCounting,
         PrintersAtWork, PrintersInside, PrinterStates
<1>2. Length \in 0 .. QUEUE_SIZE
  BY LengthBounds DEF QueueInv
<1>3. CASE UsersCounting # {}
  <2>1. PICK u \in UsersCounting : TRUE
    BY <1>3
  <2>2. PrintersInside = {} /\ UsersInside = {u}
    BY <1>1, <2>1, InsideAlone DEF QueueInv, MutualExclusion
  <2>3. UsersCounting = {u} /\ PrintersCounting = {}
    BY <1>1, <2>1, <2>2
  <2>4. Length > 0
    BY <1>1, <2>1, LengthBounds DEF QueueInv
  <2>5. Cardinality(UsersCounting) = 1 /\ Cardinality(PrintersCounting) = 0
    BY <2>3, FS_EmptySet, FS_Singleton
  <2> QED
    BY <1>2, <2>4, <2>5, PrinterAssumption
    DEF QueueInv, CountAgrees, Types
<1>4. CASE PrintersCounting # {}
  <2>1. PICK p \in PrintersCounting : TRUE
    BY <1>4
  <2>2. PrintersInside = {p} /\ UsersInside = {}
    BY <1>1, <2>1, InsideAlone DEF QueueInv, MutualExclusion
  <2>3. UsersCounting = {} /\ PrintersCounting = {p}
    BY <1>1, <2>1, <2>2
  <2>4. Length < QUEUE_SIZE
    BY <1>1, <2>1, LengthBounds DEF QueueInv, PrintersCounting,
                                    PrintersGranted
  <2>5. Cardinality(UsersCounting) = 0 /\ Cardinality(PrintersCounting) = 1
    BY <2>3, FS_EmptySet, FS_Singleton
  <2> QED
    BY <1>2, <2>4, <2>5, PrinterAssumption
    DEF QueueInv, CountAgrees, Types
<1>5. CASE UsersCounting = {} /\ PrintersCounting = {}
  BY <1>2, <1>5, FS_EmptySet DEF QueueInv, CountAgrees, Types
<1> QED
  BY <1>3, <1>4, <1>5

(* A step that leaves the array and its indices alone.                      *)
LEMMA QueueUntouched ==
  ASSUME TailAgrees, JobsStored, UNCHANGED <<jobs, head, tail>>,
         Length' = Length
  PROVE  TailAgrees' /\ JobsStored'
  BY DEF TailAgrees, JobsStored, Place

-----------------------------------------------------------------------------
(* The steps of a user keep the invariant.                                  *)

LEMMA UserStepInv ==
  ASSUME QueueInv, NEW u \in Users, UserStep(u)
  PROVE  QueueInv'
<1> USE PrinterAssumption DEF QueueInv, users, printers
<1>1. CASE UserWaitsSlots(u)
  <2>1. Length' = Length /\ MutexCount' /\ SlotsConserved' /\ CountAgrees'
    BY <1>1, UserMoves, CountsFinite
    DEF UserWaitsSlots, queue, Types, UserStates, Length, MutexCount,
        SlotsConserved, CountAgrees
  <2>2. TailAgrees' /\ JobsStored'
    BY <1>1, <2>1, QueueUntouched DEF UserWaitsSlots, queue
  <2>3. Types' /\ UserHasStored' /\ PrinterHasLoaded' /\ NothingLost'
    BY <1>1 DEF UserWaitsSlots, UserGoes, queue, Types, UserStates,
                UserHasStored, PrinterHasLoaded, NothingLost, HasTaken
  <2> QED
    BY <2>1, <2>2, <2>3
<1>2. CASE UserWaitsMutex(u)
  <2>1. Length' = Length /\ MutexCount' /\ SlotsConserved' /\ CountAgrees'
    BY <1>2, UserMoves, CountsFinite
    DEF UserWaitsMutex, queue, Types, UserStates, Length, MutexCount,
        SlotsConserved, CountAgrees
  <2>2. TailAgrees' /\ JobsStored'
    BY <1>2, <2>1, QueueUntouched DEF UserWaitsMutex, queue
  <2>3. Types' /\ UserHasStored' /\ PrinterHasLoaded' /\ NothingLost'
    BY <1>2 DEF UserWaitsMutex, UserGoes, queue, Types, UserStates,
                UserHasStored, PrinterHasLoaded, NothingLost, HasTaken
  <2> QED
    BY <2>1, <2>2, <2>3
<1>3. CASE UserStores(u)
  <2>1. Length' = Length /\ MutexCount' /\ SlotsConserved' /\ CountAgrees'
    BY <1>3, UserMoves, CountsFinite
    DEF UserStores, semaphores, Types, UserStates, Length, MutexCount,
        SlotsConserved, CountAgrees
  <2>2. UsersInside = {u} /\ PrintersInside = {}
    BY <1>3, InsideAlone
    DEF UserStores, UserGoes, UsersInside, MutualExclusion
  <2>3. Types' /\ TailAgrees'
    BY <1>3, <2>1 DEF UserStores, UserGoes, semaphores, Types, UserStates,
                      TailAgrees, Place
  <2>4. JobsStored'
    <3>1. \A i \in Places : jobs'[i] = IF i = tail THEN user_job[u] ELSE jobs[i]
      BY <1>3 DEF UserStores, Types
    <3>2. \A i \in 0 .. Length - 1 : Place(i)' = Place(i) /\ Place(i) \in Places
      BY <1>3, LengthBounds DEF UserStores, Place, Places, Types
    <3> QED
      BY <2>1, <3>1, <3>2 DEF JobsStored, Types
  <2>5. UserHasStored' /\ PrinterHasLoaded' /\ NothingLost'
    BY <1>3, <2>2
    DEF UserStores, UserGoes, Types, UserHasStored, PrinterHasLoaded,
        NothingLost, HasTaken, UsersInside, PrintersInside
  <2> QED
    BY <2>1, <2>3, <2>4, <2>5
<1>4. CASE UserMovesTail(u)
  <2>1. Length' = Length + 1 /\ MutexCount' /\ SlotsConserved' /\ CountAgrees'
    <3>1. /\ Cardinality(UsersUnannounced') = Cardinality(UsersUnannounced) + 1
          /\ Cardinality(UsersCounting') = Cardinality(UsersCounting) + 1
          /\ Cardinality(UsersInside') = Cardinality(UsersInside)
          /\ Cardinality(UsersAtWork') = Cardinality(UsersAtWork)
          /\ UNCHANGED <<PrintersInside, PrintersAtWork, PrintersGranted,
                         PrintersCounting>>
      BY <1>4, UserMoves, CountsFinite DEF UserMovesTail, UserStates
    <3> QED
      <4>1. UNCHANGED <<semaphores, count>>
        BY <1>4 DEF UserMovesTail
      <4> QED
        BY <3>1, <4>1, CountsFinite
        DEF semaphores, Types, Length, MutexCount, SlotsConserved, CountAgrees
  <2>2. UsersInside = {u} /\ PrintersInside = {}
    BY <1>4, InsideAlone
    DEF UserMovesTail, UserGoes, UsersInside, MutualExclusion
  <2>3. Length \in 0 .. QUEUE_SIZE - 1
    BY <1>4, LengthBounds
    DEF UserMovesTail, UserGoes, UsersAtWork, UsersUnannounced, UserStates
  <2>4. tail' \in Places /\ tail' = Place(Length + 1)
    <3>1. tail' = (tail + 1) % QUEUE_SIZE
      BY <1>4 DEF UserMovesTail, UserGoes, NothingLost
    <3> QED
      BY <2>3, <3>1, TailMoves DEF TailAgrees
  <2>5. Types' /\ TailAgrees'
    BY <1>4, <2>1, <2>4 DEF UserMovesTail, UserGoes, semaphores, Types,
                            UserStates, TailAgrees, Place
  <2>6. JobsStored'
    <3>1. jobs[Place(Length)] \in Jobs
      BY <1>4 DEF UserMovesTail, UserGoes, UserHasStored, TailAgrees, Types
    <3>2. 0 .. Length' - 1 = (0 .. Length - 1) \cup {Length}
      BY <2>1, <2>3
    <3>3. jobs' = jobs /\ \A i : Place(i)' = Place(i)
      BY <1>4 DEF UserMovesTail, Place
    <3> QED
      BY <3>1, <3>2, <3>3 DEF JobsStored
  <2>7. UserHasStored' /\ PrinterHasLoaded' /\ NothingLost'
    BY <1>4, <2>2
    DEF UserMovesTail, UserGoes, Types, UserHasStored, PrinterHasLoaded,
        NothingLost, HasTaken, UsersInside, PrintersInside
  <2> QED
    BY <2>1, <2>5, <2>6, <2>7
<1>5. CASE UserCountsUp(u)
  <2>1. Length' = Length /\ MutexCount' /\ SlotsConserved' /\ CountAgrees'
    <3>1. /\ Cardinality(UsersUnannounced') = Cardinality(UsersUnannounced)
          /\ Cardinality(UsersCounting') = Cardinality(UsersCounting) - 1
          /\ Cardinality(UsersInside') = Cardinality(UsersInside)
          /\ Cardinality(UsersAtWork') = Cardinality(UsersAtWork)
          /\ UNCHANGED <<PrintersInside, PrintersAtWork, PrintersGranted,
                         PrintersCounting>>
      BY <1>5, UserMoves, CountsFinite DEF UserCountsUp, UserStates
    <3>2. count' = count + 1
      BY <1>5 DEF UserCountsUp, UserGoes, NothingLost
    <3> QED
      BY <1>5, <3>1, <3>2, CountsFinite
      DEF UserCountsUp, semaphores, Types, Length, MutexCount,
          SlotsConserved, CountAgrees
  <2>2. TailAgrees' /\ JobsStored'
    BY <1>5, <2>1, QueueUntouched DEF UserCountsUp
  <2>3. UsersInside = {u} /\ PrintersInside = {}
    BY <1>5, InsideAlone
    DEF UserCountsUp, UserGoes, UsersInside, MutualExclusion
  <2>4. Types'
    BY <1>5 DEF UserCountsUp, UserGoes, semaphores, Types, UserStates
  <2>5. UserHasStored' /\ PrinterHasLoaded' /\ NothingLost'
    BY <1>5, <2>3
    DEF UserCountsUp, UserGoes, semaphores, Types, UserHasStored,
        PrinterHasLoaded, NothingLost, HasTaken, UsersInside, PrintersInside
  <2> QED
    BY <2>1, <2>2, <2>4, <2>5
<1>6. CASE UserPostsMutex(u)
  <2>1. Length' = Length /\ MutexCount' /\ SlotsConserved' /\ CountAgrees'
    BY <1>6, UserMoves, CountsFinite
    DEF UserPostsMutex, queue, Types, UserStates, Length, MutexCount,
        SlotsConserved, CountAgrees
  <2>2. TailAgrees' /\ JobsStored'
    BY <1>6, <2>1, QueueUntouched DEF UserPostsMutex, queue
  <2>3. Types' /\ UserHasStored' /\ PrinterHasLoaded' /\ NothingLost'
    BY <1>6 DEF UserPostsMutex, UserGoes, queue, Types, UserStates,
                UserHasStored, PrinterHasLoaded, NothingLost, HasTaken
  <2> QED
    BY <2>1, <2>2, <2>3
<1>7. CASE UserPostsItems(u)
  <2>1. Length' = Length /\ MutexCount' /\ SlotsConserved' /\ CountAgrees'
    BY <1>7, UserMoves, CountsFinite
    DEF UserPostsItems, queue, Types, UserStates, Length, MutexCount,
        SlotsConserved, CountAgrees
  <2>2. TailAgrees' /\ JobsStored'
    BY <1>7, <2>1, QueueUntouched DEF UserPostsItems, queue
  <2>3. Types' /\ UserHasStored' /\ PrinterHasLoaded' /\ NothingLost'
    BY <1>7 DEF UserPostsItems, UserGoes, queue, Types, UserStates,
                UserHasStored, PrinterHasLoaded, NothingLost, HasTaken
  <2> QED
    BY <2>1, <2>2, <2>3
<1>8. CASE UserMakesJob(u)
  <2>1. Length' = Length /\ MutexCount' /\ SlotsConserved' /\ CountAgrees'
    BY <1>8, UserMoves, CountsFinite
    DEF UserMakesJob, queue, semaphores, Types, UserStates, Length,
        MutexCount, SlotsConserved, CountAgrees
  <2>2. TailAgrees' /\ JobsStored'
    BY <1>8, <2>1, QueueUntouched DEF UserMakesJob, queue
  <2>3. Types' /\ UserHasStored' /\ PrinterHasLoaded' /\ NothingLost'
    BY <1>8 DEF UserMakesJob, UserGoes, queue, semaphores, Types, UserStates,
                UserHasStored, PrinterHasLoaded, NothingLost, HasTaken
  <2> QED
    BY <2>1, <2>2, <2>3
<1>9. CASE UserReadsTail(u)
  <2>1. Length' = Length /\ MutexCount' /\ SlotsConserved' /\ CountAgrees'
    <3>1. /\ Cardinality(UsersUnannounced') = Cardinality(UsersUnannounced)
          /\ Cardinality(UsersCounting') = Cardinality(UsersCounting)
          /\ Cardinality(UsersInside') = Cardinality(UsersInside)
          /\ Cardinality(UsersAtWork') = Cardinality(UsersAtWork)
          /\ UNCHANGED <<PrintersInside, PrintersAtWork, PrintersGranted,
                         PrintersCounting>>
      BY <1>9, UserMoves, CountsFinite DEF UserReadsTail, UserStates
    <3> QED
      BY <1>9, <3>1
      DEF UserReadsTail, queue, semaphores, Length, MutexCount, SlotsConserved,
          CountAgrees
  <2>2. TailAgrees' /\ JobsStored'
    BY <1>9, <2>1, QueueUntouched DEF UserReadsTail, queue
  <2>3. Types'
    <3>1. head \in 0 .. QUEUE_SIZE /\ tail \in 0 .. QUEUE_SIZE
          /\ count \in 0 .. QUEUE_SIZE
      BY CountBounds DEF Types, Places
    <3> QED
      BY <1>9, <3>1 DEF UserReadsTail, UserGoes, queue, semaphores, Types,
                      UserStates
  <2>4. UserHasStored' /\ PrinterHasLoaded' /\ NothingLost'
    BY <1>9 DEF UserReadsTail, UserGoes, queue, semaphores, Types,
                UserStates, UserHasStored, PrinterHasLoaded, NothingLost,
                HasTaken
  <2> QED
    BY <2>1, <2>2, <2>3, <2>4
<1>10. CASE UserReadsCount(u)
  <2>1. Length' = Length /\ MutexCount' /\ SlotsConserved' /\ CountAgrees'
    <3>1. /\ Cardinality(UsersUnannounced') = Cardinality(UsersUnannounced)
          /\ Cardinality(UsersCounting') = Cardinality(UsersCounting)
          /\ Cardinality(UsersInside') = Cardinality(UsersInside)
          /\ Cardinality(UsersAtWork') = Cardinality(UsersAtWork)
          /\ UNCHANGED <<PrintersInside, PrintersAtWork, PrintersGranted,
                         PrintersCounting>>
      BY <1>10, UserMoves, CountsFinite DEF UserReadsCount, UserStates
    <3> QED
      BY <1>10, <3>1
      DEF UserReadsCount, queue, semaphores, Length, MutexCount, SlotsConserved,
          CountAgrees
  <2>2. TailAgrees' /\ JobsStored'
    BY <1>10, <2>1, QueueUntouched DEF UserReadsCount, queue
  <2>3. Types'
    <3>1. head \in 0 .. QUEUE_SIZE /\ tail \in 0 .. QUEUE_SIZE
          /\ count \in 0 .. QUEUE_SIZE
      BY CountBounds DEF Types, Places
    <3> QED
      BY <1>10, <3>1 DEF UserReadsCount, UserGoes, queue, semaphores, Types,
                      UserStates
  <2>4. UserHasStored' /\ PrinterHasLoaded' /\ NothingLost'
    BY <1>10 DEF UserReadsCount, UserGoes, queue, semaphores, Types,
                UserStates, UserHasStored, PrinterHasLoaded, NothingLost,
                HasTaken
  <2> QED
    BY <2>1, <2>2, <2>3, <2>4
<1> QED
  BY <1>1, <1>2, <1>3, <1>4, <1>5, <1>6, <1>7, <1>8, <1>9, <1>10 DEF UserStep

-----------------------------------------------------------------------------
(* The steps of a printer keep the invariant.                               *)

LEMMA PrinterStepInv ==
  ASSUME QueueInv, NEW p \in Printers, PrinterStep(p)
  PROVE  QueueInv'
<1> USE PrinterAssumption DEF QueueInv, users, printers
<1>1. CASE PrinterWaitsItems(p)
  <2>1. Length' = Length /\ MutexCount' /\ SlotsConserved' /\ CountAgrees'
    BY <1>1, PrinterMoves, CountsFinite
    DEF PrinterWaitsItems, queue, Types, PrinterStates, Length,
        MutexCount, SlotsConserved, CountAgrees
  <2>2. TailAgrees' /\ JobsStored'
    BY <1>1, <2>1, QueueUntouched DEF PrinterWaitsItems, queue
  <2>3. Types' /\ UserHasStored' /\ PrinterHasLoaded' /\ NothingLost'
    BY <1>1 DEF PrinterWaitsItems, PrinterGoes, queue, Types,
                PrinterStates, UserHasStored, PrinterHasLoaded, NothingLost,
                HasTaken
  <2> QED
    BY <2>1, <2>2, <2>3
<1>2. CASE PrinterWaitsMutex(p)
  <2>1. Length' = Length /\ MutexCount' /\ SlotsConserved' /\ CountAgrees'
    BY <1>2, PrinterMoves, CountsFinite
    DEF PrinterWaitsMutex, queue, Types, PrinterStates, Length,
        MutexCount, SlotsConserved, CountAgrees
  <2>2. TailAgrees' /\ JobsStored'
    BY <1>2, <2>1, QueueUntouched DEF PrinterWaitsMutex, queue
  <2>3. Types' /\ UserHasStored' /\ PrinterHasLoaded' /\ NothingLost'
    BY <1>2 DEF PrinterWaitsMutex, PrinterGoes, queue, Types,
                PrinterStates, UserHasStored, PrinterHasLoaded, NothingLost,
                HasTaken
  <2> QED
    BY <2>1, <2>2, <2>3
<1>3. CASE PrinterLoads(p)
  <2>1. Length' = Length /\ MutexCount' /\ SlotsConserved' /\ CountAgrees'
    <3>1. /\ Cardinality(PrintersGranted') = Cardinality(PrintersGranted)
          /\ Cardinality(PrintersCounting') = Cardinality(PrintersCounting)
          /\ Cardinality(PrintersInside') = Cardinality(PrintersInside)
          /\ Cardinality(PrintersAtWork') = Cardinality(PrintersAtWork)
          /\ UNCHANGED <<UsersInside, UsersAtWork, UsersUnannounced,
                         UsersCounting>>
      BY <1>3, PrinterMoves, CountsFinite DEF PrinterLoads, PrinterStates
    <3> QED
      BY <1>3, <3>1
      DEF PrinterLoads, queue, semaphores, Length, MutexCount, SlotsConserved,
          CountAgrees
  <2>2. TailAgrees' /\ JobsStored'
    BY <1>3, <2>1, QueueUntouched DEF PrinterLoads, queue
  <2>3. Types' /\ UserHasStored' /\ PrinterHasLoaded' /\ NothingLost'
    BY <1>3 DEF PrinterLoads, PrinterGoes, queue, semaphores, Types,
                PrinterStates, UserHasStored, PrinterHasLoaded, NothingLost,
                HasTaken
  <2> QED
    BY <2>1, <2>2, <2>3
<1>4. CASE PrinterMovesHead(p)
  <2>1. Length' = Length - 1 /\ MutexCount' /\ SlotsConserved' /\ CountAgrees'
    <3>1. /\ Cardinality(PrintersGranted') = Cardinality(PrintersGranted) - 1
          /\ Cardinality(PrintersCounting') = Cardinality(PrintersCounting) + 1
          /\ Cardinality(PrintersInside') = Cardinality(PrintersInside)
          /\ Cardinality(PrintersAtWork') = Cardinality(PrintersAtWork)
          /\ UNCHANGED <<UsersInside, UsersAtWork, UsersUnannounced,
                         UsersCounting>>
      BY <1>4, PrinterMoves, CountsFinite DEF PrinterMovesHead, PrinterStates
    <3> QED
      BY <1>4, <3>1, CountsFinite
      DEF PrinterMovesHead, semaphores, Types, Length, MutexCount,
          SlotsConserved, CountAgrees
  <2>2. PrintersInside = {p} /\ UsersInside = {}
    BY <1>4, InsideAlone
    DEF PrinterMovesHead, PrinterGoes, PrintersInside, MutualExclusion
  <2>3. Length \in 1 .. QUEUE_SIZE
    BY <1>4, LengthBounds
    DEF PrinterMovesHead, PrinterGoes, PrintersGranted
  <2>4. /\ head' \in Places
        /\ \A n \in 0 .. QUEUE_SIZE - 1 : Place(n)' = Place(n + 1)
    <3>1. head' = (head + 1) % QUEUE_SIZE
      BY <1>4 DEF PrinterMovesHead, PrinterGoes, NothingLost
    <3> QED
      BY <3>1, HeadMoves
  <2>5. Types'
    BY <1>4, <2>4 DEF PrinterMovesHead, PrinterGoes, semaphores, Types,
                      PrinterStates
  <2>6. TailAgrees'
    <3>1. PICK n \in 0 .. QUEUE_SIZE - 1 : n + 1 = Length
      BY <2>3
    <3>2. tail' = Place(n + 1) /\ Length' = n
      BY <1>4, <2>1, <2>3, <3>1 DEF PrinterMovesHead, TailAgrees
    <3>3. tail' = Place(n)'
      BY <2>4, <3>2
    <3> QED
      BY <3>2, <3>3 DEF TailAgrees, Place
  <2>7. JobsStored'
    <3>1. \A i \in 0 .. Length - 2 : Place(i)' = Place(i + 1)
      BY <2>3, <2>4
    <3> QED
      BY <1>4, <2>1, <2>3, <3>1 DEF PrinterMovesHead, JobsStored
  <2>8. UserHasStored' /\ PrinterHasLoaded' /\ NothingLost'
    <3>1. jobs[head] \in Jobs
      <4>1. head \in Nat /\ head < QUEUE_SIZE /\ 0 \in 0 .. Length - 1
        BY <2>3 DEF Types, Places
      <4>2. Place(0) = head
        BY <4>1 DEF Place
      <4> QED
        BY <4>1, <4>2 DEF JobsStored
    <3>2. ASSUME NEW q \in Printers
          PROVE  printer'[q] \notin {"read_head", "move_head", "count_down"}
      BY <1>4, <2>2 DEF PrinterMovesHead, PrinterGoes, Types, PrintersInside
    <3>3. ASSUME NEW v \in Users
          PROVE  user'[v] \notin {"read_tail", "move_tail", "count_up"}
      BY <1>4, <2>2 DEF PrinterMovesHead, PrinterGoes, UsersInside
    <3>4. ASSUME NEW q \in Printers, printer'[q] \in HasTaken
          PROVE  printer_job'[q] \in Jobs
      <4>1. printer_job' = printer_job
        BY <1>4 DEF PrinterMovesHead
      <4>2. CASE q = p
        <5>1. printer[p] = "move_head"
          BY <1>4 DEF PrinterMovesHead, PrinterGoes
        <5> QED
          BY <3>1, <4>1, <4>2, <5>1 DEF PrinterHasLoaded
      <4>3. CASE q # p
        <5>1. printer[q] \in HasTaken
          BY <1>4, <3>4, <4>3 DEF PrinterMovesHead, PrinterGoes, Types
        <5> QED
          BY <4>1, <5>1 DEF PrinterHasLoaded
      <4> QED
        BY <4>2, <4>3
    <3> QED
      BY <3>2, <3>3, <3>4 DEF UserHasStored, PrinterHasLoaded, NothingLost
  <2> QED
    BY <2>1, <2>5, <2>6, <2>7, <2>8
<1>5. CASE PrinterCountsDown(p)
  <2>1. Length' = Length /\ MutexCount' /\ SlotsConserved' /\ CountAgrees'
    <3>1. /\ Cardinality(PrintersGranted') = Cardinality(PrintersGranted)
          /\ Cardinality(PrintersCounting') = Cardinality(PrintersCounting) - 1
          /\ Cardinality(PrintersInside') = Cardinality(PrintersInside)
          /\ Cardinality(PrintersAtWork') = Cardinality(PrintersAtWork)
          /\ UNCHANGED <<UsersInside, UsersAtWork, UsersUnannounced,
                         UsersCounting>>
      BY <1>5, PrinterMoves, CountsFinite DEF PrinterCountsDown, PrinterStates
    <3>2. count' = count - 1
      BY <1>5 DEF PrinterCountsDown, PrinterGoes, NothingLost
    <3> QED
      BY <1>5, <3>1, <3>2, CountsFinite
      DEF PrinterCountsDown, semaphores, Types, Length, MutexCount,
          SlotsConserved, CountAgrees
  <2>2. TailAgrees' /\ JobsStored'
    BY <1>5, <2>1, QueueUntouched DEF PrinterCountsDown
  <2>3. PrintersInside = {p} /\ UsersInside = {}
    BY <1>5, InsideAlone
    DEF PrinterCountsDown, PrinterGoes, PrintersInside, MutualExclusion
  <2>4. Types'
    BY <1>5 DEF PrinterCountsDown, PrinterGoes, semaphores, Types, PrinterStates
  <2>5. UserHasStored' /\ PrinterHasLoaded' /\ NothingLost'
    BY <1>5, <2>3
    DEF PrinterCountsDown, PrinterGoes, semaphores, Types, UserHasStored,
        PrinterHasLoaded, NothingLost, HasTaken, UsersInside, PrintersInside
  <2> QED
    BY <2>1, <2>2, <2>4, <2>5
<1>6. CASE PrinterPostsMutex(p)
  <2>1. Length' = Length /\ MutexCount' /\ SlotsConserved' /\ CountAgrees'
    BY <1>6, PrinterMoves, CountsFinite
    DEF PrinterPostsMutex, queue, Types, PrinterStates, Length,
        MutexCount, SlotsConserved, CountAgrees
  <2>2. TailAgrees' /\ JobsStored'
    BY <1>6, <2>1, QueueUntouched DEF PrinterPostsMutex, queue
  <2>3. Types' /\ UserHasStored' /\ PrinterHasLoaded' /\ NothingLost'
    BY <1>6 DEF PrinterPostsMutex, PrinterGoes, queue, Types,
                PrinterStates, UserHasStored, PrinterHasLoaded, NothingLost,
                HasTaken
  <2> QED
    BY <2>1, <2>2, <2>3
<1>7. CASE PrinterPostsSlots(p)
  <2>1. Length' = Length /\ MutexCount' /\ SlotsConserved' /\ CountAgrees'
    BY <1>7, PrinterMoves, CountsFinite
    DEF PrinterPostsSlots, queue, Types, PrinterStates, Length,
        MutexCount, SlotsConserved, CountAgrees
  <2>2. TailAgrees' /\ JobsStored'
    BY <1>7, <2>1, QueueUntouched DEF PrinterPostsSlots, queue
  <2>3. Types' /\ UserHasStored' /\ PrinterHasLoaded' /\ NothingLost'
    BY <1>7 DEF PrinterPostsSlots, PrinterGoes, queue, Types,
                PrinterStates, UserHasStored, PrinterHasLoaded, NothingLost,
                HasTaken
  <2> QED
    BY <2>1, <2>2, <2>3
<1>8. CASE PrinterPrints(p)
  <2>1. Length' = Length /\ MutexCount' /\ SlotsConserved' /\ CountAgrees'
    BY <1>8, PrinterMoves, CountsFinite
    DEF PrinterPrints, queue, semaphores, Types, PrinterStates, Length,
        MutexCount, SlotsConserved, CountAgrees
  <2>2. TailAgrees' /\ JobsStored'
    BY <1>8, <2>1, QueueUntouched DEF PrinterPrints, queue
  <2>3. Types' /\ UserHasStored' /\ PrinterHasLoaded' /\ NothingLost'
    BY <1>8 DEF PrinterPrints, PrinterGoes, queue, semaphores, Types,
                PrinterStates, UserHasStored, PrinterHasLoaded, NothingLost,
                HasTaken
  <2> QED
    BY <2>1, <2>2, <2>3
<1>9. CASE PrinterReadsHead(p)
  <2>1. Length' = Length /\ MutexCount' /\ SlotsConserved' /\ CountAgrees'
    <3>1. /\ Cardinality(PrintersGranted') = Cardinality(PrintersGranted)
          /\ Cardinality(PrintersCounting') = Cardinality(PrintersCounting)
          /\ Cardinality(PrintersInside') = Cardinality(PrintersInside)
          /\ Cardinality(PrintersAtWork') = Cardinality(PrintersAtWork)
          /\ UNCHANGED <<UsersInside, UsersAtWork, UsersUnannounced,
                         UsersCounting>>
      BY <1>9, PrinterMoves, CountsFinite DEF PrinterReadsHead, PrinterStates
    <3> QED
      BY <1>9, <3>1
      DEF PrinterReadsHead, queue, semaphores, Length, MutexCount, SlotsConserved,
          CountAgrees
  <2>2. TailAgrees' /\ JobsStored'
    BY <1>9, <2>1, QueueUntouched DEF PrinterReadsHead, queue
  <2>3. Types'
    <3>1. head \in 0 .. QUEUE_SIZE /\ tail \in 0 .. QUEUE_SIZE
          /\ count \in 0 .. QUEUE_SIZE
      BY CountBounds DEF Types, Places
    <3> QED
      BY <1>9, <3>1 DEF PrinterReadsHead, PrinterGoes, queue, semaphores, Types,
                      PrinterStates
  <2>4. UserHasStored' /\ PrinterHasLoaded' /\ NothingLost'
    BY <1>9 DEF PrinterReadsHead, PrinterGoes, queue, semaphores, Types,
                PrinterStates, UserHasStored, PrinterHasLoaded, NothingLost,
                HasTaken
  <2> QED
    BY <2>1, <2>2, <2>3, <2>4
<1>10. CASE PrinterReadsCount(p)
  <2>1. Length' = Length /\ MutexCount' /\ SlotsConserved' /\ CountAgrees'
    <3>1. /\ Cardinality(PrintersGranted') = Cardinality(PrintersGranted)
          /\ Cardinality(PrintersCounting') = Cardinality(PrintersCounting)
          /\ Cardinality(PrintersInside') = Cardinality(PrintersInside)
          /\ Cardinality(PrintersAtWork') = Cardinality(PrintersAtWork)
          /\ UNCHANGED <<UsersInside, UsersAtWork, UsersUnannounced,
                         UsersCounting>>
      BY <1>10, PrinterMoves, CountsFinite DEF PrinterReadsCount, PrinterStates
    <3> QED
      BY <1>10, <3>1
      DEF PrinterReadsCount, queue, semaphores, Length, MutexCount, SlotsConserved,
          CountAgrees
  <2>2. TailAgrees' /\ JobsStored'
    BY <1>10, <2>1, QueueUntouched DEF PrinterReadsCount, queue
  <2>3. Types'
    <3>1. head \in 0 .. QUEUE_SIZE /\ tail \in 0 .. QUEUE_SIZE
          /\ count \in 0 .. QUEUE_SIZE
      BY CountBounds DEF Types, Places
    <3> QED
      BY <1>10, <3>1 DEF PrinterReadsCount, PrinterGoes, queue, semaphores, Types,
                      PrinterStates
  <2>4. UserHasStored' /\ PrinterHasLoaded' /\ NothingLost'
    BY <1>10 DEF PrinterReadsCount, PrinterGoes, queue, semaphores, Types,
                PrinterStates, UserHasStored, PrinterHasLoaded, NothingLost,
                HasTaken
  <2> QED
    BY <2>1, <2>2, <2>3, <2>4
<1> QED
  BY <1>1, <1>2, <1>3, <1>4, <1>5, <1>6, <1>7, <1>8, <1>9, <1>10 DEF PrinterStep

-----------------------------------------------------------------------------
LEMMA InitQueueInv == Init => QueueInv
<1> SUFFICES ASSUME Init PROVE QueueInv
  OBVIOUS
<1> USE PrinterAssumption DEF Init
<1>1. /\ UsersInside = {} /\ UsersAtWork = {} /\ UsersUnannounced = {}
      /\ UsersCounting = {} /\ PrintersInside = {} /\ PrintersAtWork = {}
      /\ PrintersGranted = {} /\ PrintersCounting = {}
  BY DEF UsersInside, UsersAtWork, UsersUnannounced, UsersCounting,
         PrintersInside, PrintersAtWork, PrintersGranted, PrintersCounting
<1>2. Length = 0 /\ MutexCount /\ SlotsConserved /\ CountAgrees
  BY <1>1, FS_EmptySet DEF Length, MutexCount, SlotsConserved, CountAgrees
<1>3. Types
  BY DEF Types, Places, UserStates, PrinterStates
<1> QED
  BY <1>2, <1>3 DEF QueueInv, TailAgrees, Place, JobsStored, UserHasStored,
                    PrinterHasLoaded, NothingLost, HasTaken

(* The queue, its indices, its counter and its semaphores stay consistent   *)
(* for every number of users, printers and places.                          *)
THEOREM QueueCorrect == Spec => []QueueInv
<1>1. ASSUME QueueInv, [Next]_vars PROVE QueueInv'
  <2>1. CASE \E u \in Users : UserStep(u)
    BY <1>1, <2>1, UserStepInv
  <2>2. CASE \E p \in Printers : PrinterStep(p)
    BY <1>1, <2>2, PrinterStepInv
  <2>3. CASE UNCHANGED vars
    BY <1>1, <2>3
    DEF vars, queue, semaphores, users, printers, NothingLost, QueueInv, Types, MutexCount, SlotsConserved,
        CountAgrees, TailAgrees, JobsStored, UserHasStored, PrinterHasLoaded,
        Length, Place, UsersInside, UsersAtWork, UsersUnannounced,
        UsersCounting, PrintersInside, PrintersAtWork, PrintersGranted,
        PrintersCounting
  <2> QED
    BY <1>1, <2>1, <2>2, <2>3 DEF Next
<1> QED
  BY <1>1, InitQueueInv, PTL DEF Spec

(* At most one thread is between sem_wait(mutex) and sem_post(mutex).       *)
THEOREM MutexCorrect == Spec => []MutualExclusion
<1>1. QueueInv => MutualExclusion
  BY InsideAlone DEF QueueInv
<1> QED
  BY <1>1, QueueCorrect, PTL

(* No place of the array is lost or counted twice.                          *)
THEOREM ConservationCorrect == Spec => []SlotsConserved
<1>1. QueueInv => SlotsConserved
  BY DEF QueueInv
<1> QED
  BY <1>1, QueueCorrect, PTL

(* The semaphores and the counter stay within their bounds.                 *)
LEMMA QueueInvTypes == QueueInv => TypeOK
<1> SUFFICES ASSUME QueueInv PROVE TypeOK
  OBVIOUS
<1>1. count \in 0 .. QUEUE_SIZE
  BY CountBounds
<1>2. mutex \in {0, 1} /\ slots \in 0 .. QUEUE_SIZE /\ items \in 0 .. QUEUE_SIZE
  BY InsideAlone, LengthBounds DEF QueueInv
<1> QED
  BY <1>1, <1>2 DEF TypeOK, Types, QueueInv

(* Type correctness: neither a semaphore nor the counter leaves its range.  *)
THEOREM TypesCorrect == Spec => []TypeOK
  BY QueueInvTypes, QueueCorrect, PTL

(* The counter and the indices agree with the semaphores whenever nobody is *)
(* inside.                                                                  *)
THEOREM ConsistencyCorrect == Spec => []QueueConsistent
<1>1. ASSUME QueueInv PROVE QueueConsistent
  <2>1. ASSUME UsersInside = {}, PrintersInside = {}
        PROVE  /\ count = Length
               /\ tail = (head + count) % QUEUE_SIZE
    <3>1. UsersInside = {} /\ PrintersInside = {}
      BY <2>1
    <3>2. UsersCounting = {} /\ PrintersCounting = {}
      BY <3>1 DEF UsersCounting, PrintersCounting, UsersInside, PrintersInside
    <3>3. Length \in 0 .. QUEUE_SIZE
      BY <1>1, LengthBounds DEF QueueInv
    <3>4. count = Length
      BY <1>1, <3>2, <3>3, FS_EmptySet DEF QueueInv, CountAgrees, Types
    <3>5. head \in Places /\ tail = Place(Length)
      BY <1>1 DEF QueueInv, Types, TailAgrees
    <3>6. \A h \in Places : \A n \in 0 .. QUEUE_SIZE :
            (h + n) % QUEUE_SIZE = IF h + n < QUEUE_SIZE THEN h + n
                                   ELSE h + n - QUEUE_SIZE
      <4>1. \A k \in Places : k % QUEUE_SIZE = k
        BY PrinterAssumption DEF Places
      <4>2. \A k \in Places : (k + QUEUE_SIZE) % QUEUE_SIZE = k
        BY PrinterAssumption DEF Places
      <4>3. ASSUME NEW h \in Places, NEW n \in 0 .. QUEUE_SIZE,
                   ~(h + n < QUEUE_SIZE)
            PROVE  (h + n) % QUEUE_SIZE = h + n - QUEUE_SIZE
        <5>1. /\ h + n - QUEUE_SIZE \in Places
              /\ (h + n - QUEUE_SIZE) + QUEUE_SIZE = h + n
          BY <4>3, PrinterAssumption DEF Places
        <5> QED
          BY <4>2, <5>1
      <4>4. ASSUME NEW h \in Places, NEW n \in 0 .. QUEUE_SIZE,
                   h + n < QUEUE_SIZE
            PROVE  (h + n) % QUEUE_SIZE = h + n
        <5>1. h + n \in Places
          BY <4>4, PrinterAssumption DEF Places
        <5> QED
          BY <4>1, <5>1
      <4> QED
        BY <4>3, <4>4
    <3> QED
      BY <3>3, <3>4, <3>5, <3>6 DEF Place
  <2> QED
    BY <2>1 DEF QueueConsistent
<1> QED
  BY <1>1, QueueCorrect, PTL

(* A printer prints only what a user submitted.                             *)
THEOREM PrintsCorrect == Spec => []PrintsRealJobs
<1>1. ASSUME QueueInv PROVE PrintsRealJobs
  <2>1. ASSUME NEW p \in Printers, printer[p] \in {"read_head", "move_head"}
        PROVE  printer_job[p] \in Jobs
    <3>1. Length > 0 /\ Length \in 0 .. QUEUE_SIZE
      BY <1>1, <2>1, LengthBounds DEF QueueInv, PrintersGranted
    <3>2. jobs[head] \in Jobs
      <4>1. head \in Nat /\ head < QUEUE_SIZE /\ 0 \in 0 .. Length - 1
        BY <1>1, <3>1, PrinterAssumption DEF QueueInv, Types, Places
      <4>2. Place(0) = head
        BY <4>1 DEF Place
      <4> QED
        BY <1>1, <4>1, <4>2 DEF QueueInv, JobsStored
    <3> QED
      BY <1>1, <2>1, <3>2 DEF QueueInv, PrinterHasLoaded
  <2> QED
    BY <1>1, <2>1 DEF PrintsRealJobs, QueueInv, PrinterHasLoaded
<1> QED
  BY <1>1, QueueCorrect, PTL
=============================================================================
