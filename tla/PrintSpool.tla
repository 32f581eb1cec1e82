----------------------------- MODULE PrintSpool -----------------------------
(***************************************************************************)
(* What the print queue of lab08/printer.c promises its users and printers:*)
(* a bounded first-in first-out spool.  A job enters at the end, one       *)
(* printer at a time takes the oldest job, and what a printer prints is    *)
(* the job it took.  Printer.tla is shown to implement it.                 *)
(***************************************************************************)
EXTENDS Integers, Sequences

CONSTANTS Printers, Jobs, NoJob, QUEUE_SIZE

VARIABLES
  spool,      \* the jobs that wait, oldest first
  printing    \* the job each printer has taken and not finished, or NoJob

Init ==
  /\ spool = <<>>
  /\ printing = [p \in Printers |-> NoJob]

Submit(j) ==
  /\ Len(spool) < QUEUE_SIZE
  /\ spool' = Append(spool, j)
  /\ UNCHANGED printing

Take(p) ==
  /\ printing[p] = NoJob
  /\ spool # <<>>
  /\ printing' = [printing EXCEPT ![p] = Head(spool)]
  /\ spool' = Tail(spool)

Finish(p) ==
  /\ printing[p] # NoJob
  /\ printing' = [printing EXCEPT ![p] = NoJob]
  /\ UNCHANGED spool

Next ==
  \/ \E j \in Jobs : Submit(j)
  \/ \E p \in Printers : Take(p) \/ Finish(p)

Spec == Init /\ [][Next]_<<spool, printing>>
=============================================================================
