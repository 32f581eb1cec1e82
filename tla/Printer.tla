------------------------------ MODULE Printer ------------------------------
(***************************************************************************)
(* The printing system of lab08/printer.c: user threads put jobs into a    *)
(* cyclic array in shared memory and printer threads take them out, guarded*)
(* by three semaphores: mutex (binary), slots and items (counting).        *)
(*                                                                         *)
(* Only a semaphore call and a single access to the shared queue are       *)
(* atomic, and each is an action: count++, count-- and the moves of the two*)
(* indices are a load and a store.  The copy of a job into or out of its   *)
(* place is one access.  The control state of a thread names the access it *)
(* makes next.                                                             *)
(***************************************************************************)
EXTENDS Integers, Sequences, FiniteSets

CONSTANTS
  Users,         \* the N user threads
  Printers,      \* the M printer threads
  QUEUE_SIZE,
  Jobs,          \* the texts of jobs
  NoJob          \* a printer's local job before it has loaded one

ASSUME PrinterAssumption ==
  /\ QUEUE_SIZE \in Nat \ {0}
  /\ IsFiniteSet(Users)
  /\ IsFiniteSet(Printers)
  /\ Jobs # {}
  /\ NoJob \notin Jobs

VARIABLES
  jobs, head, tail, count,       \* the print_queue
  mutex, slots, items,           \* the values of the semaphores
  user, user_job, user_read,     \* user_function: control state, local job, and
                                 \* what it loaded of the field it is to update
  printer, printer_job, printer_read   \* printer_function: the same

queue      == <<jobs, head, tail, count>>
semaphores == <<mutex, slots, items>>
users      == <<user, user_job, user_read>>
printers   == <<printer, printer_job, printer_read>>
vars       == <<queue, semaphores, users, printers>>

Places == 0 .. QUEUE_SIZE - 1

UserStates    == {"wait_slots", "wait_mutex", "store", "read_tail", "move_tail",
                  "read_count", "count_up", "post_mutex", "post_items", "sleep"}
PrinterStates == {"wait_items", "wait_mutex", "load", "read_head", "move_head",
                  "read_count", "count_down", "post_mutex", "post_slots", "print"}

(* QUEUE_SIZE zeroed places: the pages of a new shared memory object hold   *)
(* no job, so nothing may be read before it is stored.                      *)
Init ==
  /\ jobs = [i \in Places |-> NoJob]
  /\ head = 0
  /\ tail = 0
  /\ count = 0
  /\ mutex = 1
  /\ slots = QUEUE_SIZE
  /\ items = 0
  /\ user \in [Users -> {"wait_slots"}]
  /\ user_job \in [Users -> Jobs]
  /\ user_read = [u \in Users |-> 0]
  /\ printer = [p \in Printers |-> "wait_items"]
  /\ printer_job = [p \in Printers |-> NoJob]
  /\ printer_read = [p \in Printers |-> 0]

-----------------------------------------------------------------------------
(* user_function                                                            *)

UserGoes(u, from, to) ==
  /\ user[u] = from
  /\ user' = [user EXCEPT ![u] = to]
  /\ UNCHANGED printers

UserWaitsSlots(u) ==
  /\ UserGoes(u, "wait_slots", "wait_mutex")
  /\ slots > 0
  /\ slots' = slots - 1
  /\ UNCHANGED <<queue, mutex, items, user_job, user_read>>

(* Mutant: a user does not wait for the mutex.                              *)
MutantUserTakesNoMutex(u) ==
  /\ UserGoes(u, "wait_mutex", "store")
  /\ UNCHANGED <<queue, semaphores, user_job, user_read>>

UserWaitsMutex(u) ==
  /\ UserGoes(u, "wait_mutex", "store")
  /\ mutex > 0
  /\ mutex' = mutex - 1
  /\ UNCHANGED <<queue, slots, items, user_job, user_read>>

UserStores(u) ==
  /\ UserGoes(u, "store", "read_tail")
  /\ jobs' = [jobs EXCEPT ![tail] = user_job[u]]
  /\ UNCHANGED <<head, tail, count, semaphores, user_job, user_read>>

UserReadsTail(u) ==
  /\ UserGoes(u, "read_tail", "move_tail")
  /\ user_read' = [user_read EXCEPT ![u] = tail]
  /\ UNCHANGED <<queue, semaphores, user_job>>

(* Mutant: the tail index is not wrapped at the end of the array but one    *)
(* place later.                                                             *)
MutantTailOffByOne(u) ==
  /\ UserGoes(u, "move_tail", "read_count")
  /\ tail' = (user_read[u] + 1) % (QUEUE_SIZE + 1)
  /\ UNCHANGED <<jobs, head, count, semaphores, user_job, user_read>>

UserMovesTail(u) ==
  /\ UserGoes(u, "move_tail", "read_count")
  /\ tail' = (user_read[u] + 1) % QUEUE_SIZE
  /\ UNCHANGED <<jobs, head, count, semaphores, user_job, user_read>>

UserReadsCount(u) ==
  /\ UserGoes(u, "read_count", "count_up")
  /\ user_read' = [user_read EXCEPT ![u] = count]
  /\ UNCHANGED <<queue, semaphores, user_job>>

UserCountsUp(u) ==
  /\ UserGoes(u, "count_up", "post_mutex")
  /\ count' = user_read[u] + 1
  /\ UNCHANGED <<jobs, head, tail, semaphores, user_job, user_read>>

UserPostsMutex(u) ==
  /\ UserGoes(u, "post_mutex", "post_items")
  /\ mutex' = mutex + 1
  /\ UNCHANGED <<queue, slots, items, user_job, user_read>>

UserPostsItems(u) ==
  /\ UserGoes(u, "post_items", "sleep")
  /\ items' = items + 1
  /\ UNCHANGED <<queue, mutex, slots, user_job, user_read>>

(* The sleep ends and the loop makes up the text of the next job; what was  *)
(* loaded in the last iteration is never used again.                        *)
UserMakesJob(u) ==
  /\ UserGoes(u, "sleep", "wait_slots")
  /\ \E j \in Jobs : user_job' = [user_job EXCEPT ![u] = j]
  /\ user_read' = [user_read EXCEPT ![u] = 0]
  /\ UNCHANGED <<queue, semaphores>>

-----------------------------------------------------------------------------
(* printer_function                                                         *)

PrinterGoes(p, from, to) ==
  /\ printer[p] = from
  /\ printer' = [printer EXCEPT ![p] = to]
  /\ UNCHANGED users

PrinterWaitsItems(p) ==
  /\ PrinterGoes(p, "wait_items", "wait_mutex")
  /\ items > 0
  /\ items' = items - 1
  /\ UNCHANGED <<queue, mutex, slots, printer_job, printer_read>>

PrinterWaitsMutex(p) ==
  /\ PrinterGoes(p, "wait_mutex", "load")
  /\ mutex > 0
  /\ mutex' = mutex - 1
  /\ UNCHANGED <<queue, slots, items, printer_job, printer_read>>

(* Mutant: the printer takes the newest job.                                *)
MutantPrinterTakesNewest(p) ==
  /\ PrinterGoes(p, "load", "read_head")
  /\ printer_job' = [printer_job EXCEPT ![p] = jobs[(tail + QUEUE_SIZE - 1) % QUEUE_SIZE]]
  /\ UNCHANGED <<queue, semaphores, printer_read>>

PrinterLoads(p) ==
  /\ PrinterGoes(p, "load", "read_head")
  /\ printer_job' = [printer_job EXCEPT ![p] = jobs[head]]
  /\ UNCHANGED <<queue, semaphores, printer_read>>

PrinterReadsHead(p) ==
  /\ PrinterGoes(p, "read_head", "move_head")
  /\ printer_read' = [printer_read EXCEPT ![p] = head]
  /\ UNCHANGED <<queue, semaphores, printer_job>>

PrinterMovesHead(p) ==
  /\ PrinterGoes(p, "move_head", "read_count")
  /\ head' = (printer_read[p] + 1) % QUEUE_SIZE
  /\ UNCHANGED <<jobs, tail, count, semaphores, printer_job, printer_read>>

PrinterReadsCount(p) ==
  /\ PrinterGoes(p, "read_count", "count_down")
  /\ printer_read' = [printer_read EXCEPT ![p] = count]
  /\ UNCHANGED <<queue, semaphores, printer_job>>

PrinterCountsDown(p) ==
  /\ PrinterGoes(p, "count_down", "post_mutex")
  /\ count' = printer_read[p] - 1
  /\ UNCHANGED <<jobs, head, tail, semaphores, printer_job, printer_read>>

(* Mutant: the printer keeps the mutex.                                     *)
MutantPrinterKeepsMutex(p) ==
  /\ PrinterGoes(p, "post_mutex", "post_slots")
  /\ UNCHANGED <<queue, semaphores, printer_job, printer_read>>

PrinterPostsMutex(p) ==
  /\ PrinterGoes(p, "post_mutex", "post_slots")
  /\ mutex' = mutex + 1
  /\ UNCHANGED <<queue, slots, items, printer_job, printer_read>>

(* Mutant: the printer keeps the slot.                                      *)
MutantPrinterKeepsSlot(p) ==
  /\ PrinterGoes(p, "post_slots", "print")
  /\ UNCHANGED <<queue, semaphores, printer_job, printer_read>>

PrinterPostsSlots(p) ==
  /\ PrinterGoes(p, "post_slots", "print")
  /\ slots' = slots + 1
  /\ UNCHANGED <<queue, mutex, items, printer_job, printer_read>>

(* The text is printed and the next iteration has no job yet.               *)
PrinterPrints(p) ==
  /\ PrinterGoes(p, "print", "wait_items")
  /\ printer_job' = [printer_job EXCEPT ![p] = NoJob]
  /\ printer_read' = [printer_read EXCEPT ![p] = 0]
  /\ UNCHANGED <<queue, semaphores>>

-----------------------------------------------------------------------------
UserStep(u) ==
  \/ UserWaitsSlots(u) \/ UserWaitsMutex(u) \/ UserStores(u)
  \/ UserReadsTail(u) \/ UserMovesTail(u)
  \/ UserReadsCount(u) \/ UserCountsUp(u)
  \/ UserPostsMutex(u) \/ UserPostsItems(u) \/ UserMakesJob(u)

PrinterStep(p) ==
  \/ PrinterWaitsItems(p) \/ PrinterWaitsMutex(p) \/ PrinterLoads(p)
  \/ PrinterReadsHead(p) \/ PrinterMovesHead(p)
  \/ PrinterReadsCount(p) \/ PrinterCountsDown(p)
  \/ PrinterPostsMutex(p) \/ PrinterPostsSlots(p) \/ PrinterPrints(p)

Next ==
  \/ \E u \in Users : UserStep(u)
  \/ \E p \in Printers : PrinterStep(p)

Spec == Init /\ [][Next]_vars

(* Each thread runs when it is not blocked in sem_wait.  Nothing is assumed *)
(* of the order in which a semaphore lets its waiters go.                   *)
FairSpec ==
  /\ Spec
  /\ \A u \in Users : WF_vars(UserStep(u))
  /\ \A p \in Printers : WF_vars(PrinterStep(p))

-----------------------------------------------------------------------------
(* Where the threads are.                                                   *)

(* between sem_wait(mutex) and sem_post(mutex) *)
UsersInside ==
  {u \in Users : user[u] \in {"store", "read_tail", "move_tail", "read_count",
                             "count_up", "post_mutex"}}
PrintersInside ==
  {p \in Printers :
     printer[p] \in {"load", "read_head", "move_head", "read_count",
                    "count_down", "post_mutex"}}

(* between a wait on slots (items) and the post on items (slots) *)
UsersAtWork ==
  {u \in Users : user[u] \in UserStates \ {"wait_slots", "sleep"}}
PrintersAtWork ==
  {p \in Printers : printer[p] \in PrinterStates \ {"wait_items", "print"}}

(* users whose job is already in the queue but not announced, and printers  *)
(* that were granted a job they have not removed yet                        *)
UsersUnannounced ==
  {u \in Users : user[u] \in {"read_count", "count_up", "post_mutex", "post_items"}}
PrintersGranted ==
  {p \in Printers : printer[p] \in {"wait_mutex", "load", "read_head", "move_head"}}

(* control states of a printer that has moved head past its job *)
HasTaken == {"read_count", "count_down", "post_mutex", "post_slots", "print"}

(* The number of jobs between head and tail.                                *)
Length ==
  items + Cardinality(UsersUnannounced) + Cardinality(PrintersGranted)

(* The place of the i-th waiting job.                                       *)
Place(i) == IF head + i < QUEUE_SIZE THEN head + i ELSE head + i - QUEUE_SIZE

-----------------------------------------------------------------------------
(* Types; the semaphores never exceed their initial values.                 *)
TypeOK ==
  /\ jobs \in [Places -> Jobs \cup {NoJob}]
  /\ head \in Places
  /\ tail \in Places
  /\ count \in 0 .. QUEUE_SIZE
  /\ mutex \in {0, 1}
  /\ slots \in 0 .. QUEUE_SIZE
  /\ items \in 0 .. QUEUE_SIZE
  /\ user \in [Users -> UserStates]
  /\ user_job \in [Users -> Jobs]
  /\ user_read \in [Users -> 0 .. QUEUE_SIZE]
  /\ printer \in [Printers -> PrinterStates]
  /\ printer_job \in [Printers -> Jobs \cup {NoJob}]
  /\ printer_read \in [Printers -> 0 .. QUEUE_SIZE]

(* "A binary semaphore that protects the queue": of all the threads at most *)
(* one is in its critical section.                                          *)
MutualExclusion ==
  /\ \A u \in UsersInside : UsersInside = {u} /\ PrintersInside = {}
  /\ \A p \in PrintersInside : PrintersInside = {p} /\ UsersInside = {}

(* Every place of the array is accounted for: free, holding an announced    *)
(* job, or in the hands of one thread.                                      *)
SlotsConserved ==
  slots + items + Cardinality(UsersAtWork) + Cardinality(PrintersAtWork)
    = QUEUE_SIZE

(* The counter, the two indices and the semaphores agree whenever nobody is *)
(* inside the critical section, however the threads were interleaved: no    *)
(* update made of a load and a store is lost.                               *)
QueueConsistent ==
  UsersInside = {} /\ PrintersInside = {} =>
    /\ count = Length
    /\ tail = (head + count) % QUEUE_SIZE

(* A printer that is about to print has a text that a user submitted, not   *)
(* an empty place.                                                          *)
PrintsRealJobs ==
  \A p \in Printers :
    printer[p] \in HasTaken \cup {"read_head", "move_head"} => printer_job[p] \in Jobs

(* The refinement: the waiting jobs in order, and the job of each printer   *)
(* that has moved head past it.                                             *)
WaitingJobs == [i \in 1 .. Length |-> jobs[Place(i - 1)]]

TakenJobs ==
  [p \in Printers |-> IF printer[p] \in HasTaken THEN printer_job[p] ELSE NoJob]

Spool == INSTANCE PrintSpool WITH spool <- WaitingJobs, printing <- TakenJobs

(* The spool promised by PrintSpool: jobs come out in the order in which    *)
(* they went in, each to one printer, none lost, doubled or overwritten, and*)
(* never more than QUEUE_SIZE of them.                                      *)
ImplementsSpool == Spool!Spec

-----------------------------------------------------------------------------
(* The system as a whole never wedges, whatever the order in which the      *)
(* semaphores let their waiters go: if jobs wait, one is taken eventually   *)
(* (by the place it leaves: with one place, head never moves), and the users*)
(* keep submitting.                                                         *)
JobsLeave  == \A h \in Places : (head = h /\ Length > 0) ~> head # h
JobsArrive == \A t \in Places : tail = t ~> tail # t

JobsKeepMoving == JobsLeave /\ JobsArrive
=============================================================================
