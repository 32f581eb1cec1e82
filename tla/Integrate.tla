----------------------------- MODULE Integrate -----------------------------
(***************************************************************************)
(* Numerical integration in parallel: lab09 (threads that leave results    *)
(* and ready flags in shared arrays) and lab06/zad1 (processes that write  *)
(* their results to a pipe each).  Both divide the range in the same way.  *)
(*                                                                         *)
(* Lengths are integers, in some unit that divides the range and the width *)
(* of an interval; what is lost in adding doubles is left out.  A partial  *)
(* sum is represented by the half-open part of the axis it was taken over. *)
(* fork, pipe and pthread_create succeed.                                  *)
(***************************************************************************)
EXTENDS Integers, Sequences

CONSTANTS
  Programs,   \* a subset of {"threads", "processes"}
  Ranges,     \* values of range_right; range_left is 0
  Widths,     \* values of the argument interval_width
  Counts      \* values of the argument num_of_threads, num_of_processes

ASSUME IntegrateAssumption ==
  /\ Programs \subseteq {"threads", "processes"}
  /\ Ranges \subseteq Nat \ {0}
  /\ Widths \subseteq Nat \ {0}
  /\ Counts \subseteq Nat \ {0}

VARIABLES
  program, range_right, interval_width, num,   \* fixed at the start
  main,             \* where main is
  i,                \* main's loops
  interval_start,   \* main
  thread_data,      \* what each worker was given
  worker,           \* where each worker is
  results,          \* the array, or what is in the pipes
  ready_flags,      \* the array; not used by the processes
  terms             \* main: what it has added to sum so far

args == <<program, range_right, interval_width, num>>
vars == <<args, main, i, interval_start, thread_data, worker, results,
          ready_flags, terms>>

Workers == 0 .. num - 1
NoData   == [interval_start |-> 0, interval_stop |-> 0]
NoResult == [from |-> 0, to |-> 0, computed |-> FALSE]

Init ==
  /\ program \in Programs /\ range_right \in Ranges
  /\ interval_width \in Widths /\ num \in Counts
  /\ main = "create" /\ i = 0 /\ interval_start = 0
  /\ thread_data = [w \in Workers |-> NoData]
  /\ worker = [w \in Workers |-> "none"]
  /\ results = [w \in Workers |-> NoResult]
  /\ ready_flags = [w \in Workers |-> FALSE]
  /\ terms = <<>>

-----------------------------------------------------------------------------
(* The division of the range.                                               *)

(* Mutant: ceil is left out.                                                *)
MutantTruncates == range_right \div interval_width

total_intervals_count == (range_right + interval_width - 1) \div interval_width

intervals_per_thread == total_intervals_count \div num

Share == intervals_per_thread * interval_width

(* Where the worker that begins at s stops.                                 *)
StopAfter(s) == IF range_right < s + Share THEN range_right ELSE s + Share

(* calculate_integral: a piece shorter than an interval is taken as it is,  *)
(* otherwise whole intervals are added up, past interval_stop if need be.   *)
Part(d) ==
  [from |-> d.interval_start,
   to   |-> IF d.interval_stop - d.interval_start < interval_width
            THEN d.interval_stop ELSE d.interval_start + Share,
   computed |-> TRUE]

-----------------------------------------------------------------------------
(* Mutant: the start of the next piece is not moved.                        *)
MutantStartStays ==
  /\ main = "create" /\ i < num
  /\ thread_data' = [thread_data EXCEPT ![i] =
       [interval_start |-> interval_start,
        interval_stop  |-> StopAfter(interval_start)]]
  /\ worker' = [worker EXCEPT ![i] = "computing"]
  /\ i' = i + 1
  /\ UNCHANGED <<args, main, interval_start, results, ready_flags, terms>>

CreateWorker ==
  /\ main = "create" /\ i < num
  /\ thread_data' = [thread_data EXCEPT ![i] =
       [interval_start |-> interval_start,
        interval_stop  |-> StopAfter(interval_start)]]
  /\ worker' = [worker EXCEPT ![i] = "computing"]
  /\ interval_start' = StopAfter(interval_start)
  /\ i' = i + 1
  /\ UNCHANGED <<args, main, results, ready_flags, terms>>

(* The processes are not waited for: main goes on to read their pipes.      *)
AllCreated ==
  /\ main = "create" /\ i = num
  /\ main' = IF program = "threads" THEN "poll" ELSE "sum"
  /\ i' = 0
  /\ UNCHANGED <<args, interval_start, thread_data, worker, results,
                 ready_flags, terms>>

(* Mutant: all_ready is not reset.                                          *)
MutantIgnoresTheFlag ==
  /\ main = "poll" /\ i < num
  /\ i' = i + 1
  /\ UNCHANGED <<args, main, interval_start, thread_data, worker, results,
                 ready_flags, terms>>

(* One flag is read; the first that is not set sends main to sleep and back *)
(* to the beginning of the array.                                           *)
Poll ==
  /\ main = "poll" /\ i < num
  /\ i' = IF ready_flags[i] THEN i + 1 ELSE 0
  /\ UNCHANGED <<args, main, interval_start, thread_data, worker, results,
                 ready_flags, terms>>

AllReady ==
  /\ main = "poll" /\ i = num
  /\ main' = "sum" /\ i' = 0
  /\ UNCHANGED <<args, interval_start, thread_data, worker, results,
                 ready_flags, terms>>

(* read on a pipe waits until its process has written.                      *)
CanTake == program = "threads" \/ results[i].computed

AddResult ==
  /\ main = "sum" /\ i < num /\ CanTake
  /\ terms' = Append(terms, results[i])
  /\ i' = i + 1
  /\ UNCHANGED <<args, main, interval_start, thread_data, worker, results,
                 ready_flags>>

PrintSum ==
  /\ main = "sum" /\ i = num
  /\ main' = "done"
  /\ UNCHANGED <<args, i, interval_start, thread_data, worker, results,
                 ready_flags, terms>>

(* A thread stores its result and then its flag, in two steps; the Makefile *)
(* builds without optimisation.  A process writes to its pipe and exits.    *)
StoreResult(w) ==
  /\ worker[w] = "computing"
  /\ results' = [results EXCEPT ![w] = Part(thread_data[w])]
  /\ worker' = [worker EXCEPT ![w] =
                  IF program = "threads" THEN "stored" ELSE "exited"]
  /\ UNCHANGED <<args, main, i, interval_start, thread_data, ready_flags, terms>>

SetFlag(w) ==
  /\ worker[w] = "stored"
  /\ ready_flags' = [ready_flags EXCEPT ![w] = TRUE]
  /\ worker' = [worker EXCEPT ![w] = "exited"]
  /\ UNCHANGED <<args, main, i, interval_start, thread_data, results, terms>>

MainStep == CreateWorker \/ AllCreated \/ Poll \/ AllReady \/ AddResult \/ PrintSum

WorkerStep(w) == StoreResult(w) \/ SetFlag(w)

(* Main returns, and the threads that still had to exit end with it.        *)
Terminated == main = "done" /\ UNCHANGED vars

Next == MainStep \/ (\E w \in Workers : WorkerStep(w)) \/ Terminated

Spec == Init /\ [][Next]_vars

-----------------------------------------------------------------------------
(* Main adds a result only when it has been computed, although it reads the *)
(* arrays that the threads write without any synchronisation (integrate.c:  *)
(* 118,129), and the pipes in the order of creation, not of completion.     *)
OnlyResultsAreSummed ==
  \A k \in DOMAIN terms : terms[k].computed

(* No point of the axis is integrated by two workers: where the range ends  *)
(* before a worker's share does, the next ones get an empty piece, even if  *)
(* that worker goes on beyond the end (integrate.c:22-29,91-95).            *)
Disjoint(p, q) ==
  p.to <= q.from \/ q.to <= p.from \/ p.to = p.from \/ q.to = q.from

NothingIsSummedTwice ==
  \A k, l \in DOMAIN terms : k # l => Disjoint(terms[k], terms[l])

(* The intervals are dealt out in equal numbers, and those left over are    *)
(* dropped (integrate.c:79): if none is left over, what is summed covers    *)
(* the whole range, and reaches beyond it by less than an interval.         *)
RangeIsCovered ==
  main = "done" /\ total_intervals_count % num = 0 =>
    /\ \A x \in 0 .. range_right - 1 : \E k \in DOMAIN terms :
         terms[k].from <= x /\ x < terms[k].to
    /\ \A k \in DOMAIN terms : terms[k].to < range_right + interval_width
=============================================================================
