-------------------------- MODULE IntegrateProofs --------------------------
(***************************************************************************)
(* Proofs about Integrate, for every range, width and number of workers.   *)
(*                                                                         *)
(* The loop that divides the range accumulates its positions one after the *)
(* other; the invariant replaces them by multiples of a worker's share,    *)
(* cut at the end of the range.  What the workers sum, and that it is      *)
(* disjoint and complete, then is arithmetic about these multiples.        *)
(***************************************************************************)
EXTENDS Integrate, TLAPS

Results == [from : Nat, to : Nat, computed : BOOLEAN]

TypeInv ==
  /\ program \in {"threads", "processes"}
  /\ range_right \in Nat \ {0} /\ interval_width \in Nat \ {0}
  /\ num \in Nat \ {0}
  /\ main \in {"create", "poll", "sum", "done"}
  /\ i \in Nat /\ i <= num
  /\ interval_start \in Nat
  /\ worker \in [Workers -> {"none", "computing", "stored", "exited"}]
  /\ results \in [Workers -> Results]
  /\ ready_flags \in [Workers -> BOOLEAN]
  /\ terms \in Seq(Results)

Cut(x) == IF range_right < x THEN range_right ELSE x

(* What worker w is given.                                                  *)
Piece(w) == [interval_start |-> Cut(w * Share),
             interval_stop  |-> Cut((w + 1) * Share)]

Created(w) == main # "create" \/ w < i

PiecesInv ==
  /\ thread_data \in [Workers -> [interval_start : Nat, interval_stop : Nat]]
  /\ main = "create" => interval_start = Cut(i * Share)
  /\ \A w \in Workers : Created(w) => thread_data[w] = Piece(w)
  /\ \A w \in Workers : ~Created(w) => worker[w] = "none"

(* A flag, and the end of a process, tell of a result.                      *)
ResultsInv ==
  /\ \A w \in Workers : results[w].computed => results[w] = Part(Piece(w))
  /\ \A w \in Workers : ready_flags[w] => results[w].computed
  /\ \A w \in Workers : worker[w] = "stored" => results[w].computed

TermsInv ==
  /\ main = "poll" => \A w \in Workers : w < i => ready_flags[w]
  /\ main = "sum" /\ program = "threads" => \A w \in Workers : ready_flags[w]
  /\ main \in {"create", "poll"} => terms = <<>>
  /\ main = "sum" => Len(terms) = i
  /\ main = "done" => Len(terms) = num
  /\ Len(terms) <= num
  /\ \A k \in DOMAIN terms : terms[k] = Part(Piece(k - 1))

IInv == TypeInv /\ PiecesInv /\ ResultsInv /\ TermsInv

-----------------------------------------------------------------------------
(* Arithmetic.                                                              *)

LEMMA ProductMonotonic ==
  ASSUME NEW a \in Nat, NEW b \in Nat, NEW s \in Nat, a <= b
  PROVE  a * s <= b * s
<1>1. PICK d \in Nat : b = a + d
  OBVIOUS
<1>2. b * s = a * s + d * s
  BY <1>1
<1>3. d * s >= 0
  OBVIOUS
<1> QED BY <1>2, <1>3

LEMMA ProductNat == ASSUME NEW a \in Nat, NEW s \in Nat PROVE a * s \in Nat
OBVIOUS

LEMMA NextMultiple ==
  ASSUME NEW a \in Nat, NEW s \in Nat PROVE (a + 1) * s = a * s + s
OBVIOUS

LEMMA Division ==
  ASSUME NEW x \in Nat, NEW s \in Nat \ {0}
  PROVE  /\ x \div s \in Nat
         /\ (x \div s) * s <= x
         /\ x < (x \div s + 1) * s
OBVIOUS

LEMMA ExactDivision ==
  ASSUME NEW x \in Nat, NEW s \in Nat \ {0}, x % s = 0
  PROVE  x = (x \div s) * s
OBVIOUS

-----------------------------------------------------------------------------
(* The division of the range.                                               *)

LEMMA ShareNat ==
  ASSUME TypeInv
  PROVE  /\ total_intervals_count \in Nat /\ intervals_per_thread \in Nat
         /\ Share \in Nat
<1>1. range_right + interval_width - 1 \in Nat /\ interval_width \in Nat \ {0}
  BY DEF TypeInv
<1>2. total_intervals_count \in Nat
  BY <1>1, Division DEF total_intervals_count
<1>3. intervals_per_thread \in Nat
  BY <1>2, Division DEF intervals_per_thread, TypeInv
<1>4. Share \in Nat
  BY <1>1, <1>3, ProductNat DEF Share
<1> QED BY <1>2, <1>3, <1>4

LEMMA StopIsNextCut ==
  ASSUME TypeInv, NEW w \in Nat
  PROVE  StopAfter(Cut(w * Share)) = Cut((w + 1) * Share)
<1>1. w * Share \in Nat /\ Share \in Nat /\ (w + 1) * Share = w * Share + Share
  BY ShareNat, ProductNat, NextMultiple
<1>2. range_right \in Nat
  BY DEF TypeInv
<1> QED BY <1>1, <1>2 DEF StopAfter, Cut

(* A worker sums whole intervals from a multiple of the share on, the short *)
(* rest of the range, or nothing.                                           *)
LEMMA PartOfPiece ==
  ASSUME TypeInv, NEW w \in Nat
  PROVE  LET p == Part(Piece(w)) IN
         /\ p \in Results /\ p.computed
         /\ p.from = Cut(w * Share)
         /\ p.to <= (w + 1) * Share \/ p.to = p.from
         /\ w * Share > range_right => p.to = p.from
         /\ p.to >= Cut((w + 1) * Share)
         /\ p.to = Cut((w + 1) * Share) \/ p.to = (w + 1) * Share
<1>1. w * Share \in Nat /\ Share \in Nat /\ (w + 1) * Share = w * Share + Share
  BY ShareNat, ProductNat, NextMultiple
<1>2. range_right \in Nat \ {0} /\ interval_width \in Nat \ {0}
  BY DEF TypeInv
<1>3. CASE range_right < w * Share
  BY <1>1, <1>2, <1>3 DEF Part, Piece, Cut, Results
<1>4. CASE ~(range_right < w * Share)
  BY <1>1, <1>2, <1>4 DEF Part, Piece, Cut, Results
<1> QED BY <1>3, <1>4

LEMMA PiecesDisjoint ==
  ASSUME TypeInv, NEW v \in Nat, NEW w \in Nat, v < w
  PROVE  Disjoint(Part(Piece(v)), Part(Piece(w)))
<1>1. Share \in Nat /\ (v + 1) * Share \in Nat /\ w * Share \in Nat
  BY ShareNat, ProductNat
<1>2. (v + 1) * Share <= w * Share
  BY <1>1, ProductMonotonic
<1>3. range_right \in Nat
  BY DEF TypeInv
<1>4. CASE range_right < w * Share
  BY <1>4, PartOfPiece DEF Disjoint
<1>5. CASE ~(range_right < w * Share)
  <2>1. Part(Piece(w)).from = w * Share
    BY <1>5, PartOfPiece DEF Cut
  <2>2. Part(Piece(v)) \in Results /\ Part(Piece(w)) \in Results
    BY PartOfPiece
  <2>3. \/ Part(Piece(v)).to <= (v + 1) * Share
        \/ Part(Piece(v)).to = Part(Piece(v)).from
    BY PartOfPiece
  <2> QED BY <1>1, <1>2, <2>1, <2>2, <2>3 DEF Disjoint, Results
<1> QED BY <1>4, <1>5

-----------------------------------------------------------------------------
(* The invariant.                                                           *)

LEMMA InitInv == ASSUME Init PROVE IInv
<1> USE IntegrateAssumption DEF Init
<1>1. TypeInv
  BY DEF TypeInv, Workers, NoResult, Results
<1>2. PiecesInv
  <2>1. 0 * Share = 0 /\ Cut(0) = 0
    BY <1>1, ShareNat DEF Cut, TypeInv
  <2> QED BY <1>1, <2>1 DEF PiecesInv, Created, NoData, Workers, TypeInv
<1>3. ResultsInv
  BY DEF ResultsInv, NoResult, Workers
<1>4. TermsInv
  BY <1>1 DEF TermsInv, TypeInv
<1> QED BY <1>1, <1>2, <1>3, <1>4 DEF IInv

(* The arguments do not change, and with them the division of the range.    *)
LEMMA SamePieces ==
  ASSUME UNCHANGED args
  PROVE  /\ Workers' = Workers /\ Share' = Share
         /\ \A w : Piece(w)' = Piece(w) /\ Part(Piece(w))' = Part(Piece(w))
         /\ \A x : Cut(x)' = Cut(x)
BY DEF args, Workers, Share, intervals_per_thread, total_intervals_count,
       Piece, Cut, Part

LEMMA CreateWorkerInv == ASSUME IInv, CreateWorker PROVE IInv'
<1> USE DEF CreateWorker, IInv
<1>1. UNCHANGED args
  OBVIOUS
<1>2. i \in Nat /\ num \in Nat \ {0} /\ i < num /\ i \in Workers
  BY DEF TypeInv, Workers
<1>3. /\ interval_start = Cut(i * Share)
      /\ StopAfter(interval_start) = Cut((i + 1) * Share)
      /\ Cut(i * Share) \in Nat /\ Cut((i + 1) * Share) \in Nat
  <2>1. i * Share \in Nat /\ (i + 1) * Share \in Nat
    BY <1>2, ShareNat, ProductNat
  <2>2. range_right \in Nat
    BY DEF TypeInv
  <2> QED BY <1>2, <2>1, <2>2, StopIsNextCut DEF PiecesInv, Cut
<1>4. TypeInv'
  BY <1>1, <1>2, <1>3 DEF TypeInv, args, Workers
<1>5. PiecesInv'
  <2>1. thread_data' \in [Workers -> [interval_start : Nat, interval_stop : Nat]]
    BY <1>2, <1>3 DEF PiecesInv
  <2>2. interval_start' = Cut(i' * Share)
    BY <1>3
  <2>3. \A w \in Workers : Created(w)' => thread_data'[w] = Piece(w)
    <3> SUFFICES ASSUME NEW w \in Workers, Created(w)'
                 PROVE  thread_data'[w] = Piece(w)
      OBVIOUS
    <3>1. CASE w = i
      BY <1>2, <1>3, <3>1 DEF Piece, PiecesInv
    <3>2. CASE w # i
      <4>1. Created(w)
        BY <1>2, <3>2 DEF Created, Workers
      <4> QED BY <1>2, <3>2, <4>1 DEF PiecesInv
    <3> QED BY <3>1, <3>2
  <2>4. \A w \in Workers : ~Created(w)' => worker'[w] = "none"
    BY <1>2 DEF PiecesInv, Created, TypeInv, Workers
  <2> QED BY <1>1, <2>1, <2>2, <2>3, <2>4, SamePieces DEF PiecesInv
<1>6. ResultsInv'
  BY <1>1, <1>2, SamePieces DEF ResultsInv, TypeInv
<1>7. TermsInv'
  BY <1>1, <1>2, SamePieces DEF TermsInv, args
<1> QED BY <1>4, <1>5, <1>6, <1>7

(* Main's other steps change nothing that the workers see.                  *)
LEMMA MainKeepsPieces ==
  ASSUME IInv, UNCHANGED <<args, interval_start, thread_data, worker, results,
                           ready_flags>>,
         main # "create", main' # "create"
  PROVE  PiecesInv' /\ ResultsInv'
BY SamePieces DEF IInv, PiecesInv, ResultsInv, Created

LEMMA AllCreatedInv == ASSUME IInv, AllCreated PROVE IInv'
<1> USE DEF AllCreated, IInv
<1>1. TypeInv'
  BY DEF TypeInv, args, Workers
<1>2. PiecesInv'
  <2>1. UNCHANGED args /\ Workers' = Workers
    BY SamePieces
  <2>2. \A w \in Workers : Created(w)
    BY DEF Created, Workers, TypeInv
  <2>3. \A w \in Workers : thread_data'[w] = Piece(w)'
    BY <2>1, <2>2, SamePieces DEF PiecesInv
  <2>4. main' # "create"
    OBVIOUS
  <2> QED BY <2>1, <2>3, <2>4 DEF PiecesInv, Created
<1>3. ResultsInv'
  BY SamePieces DEF ResultsInv
<1>4. TermsInv'
  BY SamePieces DEF TermsInv, TypeInv, Workers, args
<1> QED BY <1>1, <1>2, <1>3, <1>4

LEMMA PollInv == ASSUME IInv, Poll PROVE IInv'
<1> USE DEF Poll, IInv
<1>1. TypeInv'
  BY DEF TypeInv, args, Workers
<1>2. PiecesInv' /\ ResultsInv'
  BY MainKeepsPieces
<1>3. TermsInv'
  BY SamePieces DEF TermsInv, TypeInv, Workers, args
<1> QED BY <1>1, <1>2, <1>3

LEMMA AllReadyInv == ASSUME IInv, AllReady PROVE IInv'
<1> USE DEF AllReady, IInv
<1>1. TypeInv'
  BY DEF TypeInv, args, Workers
<1>2. PiecesInv' /\ ResultsInv'
  BY MainKeepsPieces
<1>3. TermsInv'
  BY SamePieces DEF TermsInv, TypeInv, Workers, args
<1> QED BY <1>1, <1>2, <1>3

LEMMA AddResultInv == ASSUME IInv, AddResult PROVE IInv'
<1> USE DEF AddResult, IInv
<1>1. i \in Workers /\ i \in Nat /\ i < num /\ num \in Nat
  BY DEF TypeInv, Workers
<1>2. results[i].computed
  BY <1>1 DEF CanTake, TermsInv, ResultsInv, TypeInv
<1>3. results[i] = Part(Piece(i)) /\ results[i] \in Results
  BY <1>1, <1>2 DEF ResultsInv, TypeInv
<1>4. TypeInv'
  BY <1>1, <1>3 DEF TypeInv, args, Workers
<1>5. PiecesInv' /\ ResultsInv'
  BY MainKeepsPieces
<1>6. TermsInv'
  <2>1. Len(terms) = i /\ terms \in Seq(Results)
    BY DEF TermsInv, TypeInv
  <2>2. Len(terms') = i + 1 /\ DOMAIN terms' = 1 .. i + 1
    BY <1>1, <1>3, <2>1
  <2>3. \A k \in DOMAIN terms' : terms'[k] = Part(Piece(k - 1))
    <3> SUFFICES ASSUME NEW k \in 1 .. i + 1
                 PROVE  terms'[k] = Part(Piece(k - 1))
      BY <2>2
    <3>1. CASE k = i + 1
      BY <1>1, <1>3, <2>1, <3>1
    <3>2. CASE k # i + 1
      BY <1>1, <2>1, <3>2 DEF TermsInv
    <3> QED BY <3>1, <3>2
  <2>4. UNCHANGED args /\ main = "sum" /\ main' = "sum" /\ ready_flags' = ready_flags
    OBVIOUS
  <2>5. \A k \in DOMAIN terms' : terms'[k] = Part(Piece(k - 1))'
    BY <2>3, <2>4, SamePieces
  <2>6. program = "threads" => \A w \in Workers : ready_flags[w]
    BY DEF TermsInv
  <2>7. i + 1 <= num /\ num' = num /\ program' = program
    BY <1>1, <2>4 DEF args
  <2> QED BY <1>1, <2>2, <2>4, <2>5, <2>6, <2>7, SamePieces DEF TermsInv
<1> QED BY <1>4, <1>5, <1>6

LEMMA PrintSumInv == ASSUME IInv, PrintSum PROVE IInv'
<1> USE DEF PrintSum, IInv
<1>1. TypeInv'
  BY DEF TypeInv, args, Workers
<1>2. PiecesInv' /\ ResultsInv'
  BY MainKeepsPieces
<1>3. TermsInv'
  BY SamePieces DEF TermsInv, TypeInv, Workers, args
<1> QED BY <1>1, <1>2, <1>3

LEMMA StoreResultInv ==
  ASSUME IInv, NEW w \in Workers, StoreResult(w) PROVE IInv'
<1> USE DEF StoreResult, IInv
<1>1. Created(w) /\ thread_data[w] = Piece(w)
  BY DEF PiecesInv
<1>2. Part(Piece(w)) \in Results /\ Part(Piece(w)).computed
  BY PartOfPiece DEF Workers
<1>3. TypeInv'
  BY <1>1, <1>2 DEF TypeInv, args, Workers
<1>4. PiecesInv'
  BY <1>1, SamePieces DEF PiecesInv, Created, TypeInv
<1>5. ResultsInv'
  BY <1>1, <1>2, SamePieces DEF ResultsInv, TypeInv
<1>6. TermsInv'
  BY SamePieces DEF TermsInv, args
<1> QED BY <1>3, <1>4, <1>5, <1>6

LEMMA SetFlagInv ==
  ASSUME IInv, NEW w \in Workers, SetFlag(w) PROVE IInv'
<1> USE DEF SetFlag, IInv
<1>1. TypeInv'
  BY DEF TypeInv, args, Workers
<1>2. PiecesInv'
  BY SamePieces DEF PiecesInv, Created, TypeInv
<1>3. ResultsInv'
  BY SamePieces DEF ResultsInv, TypeInv
<1>4. TermsInv'
  BY SamePieces DEF TermsInv, TypeInv, args
<1> QED BY <1>1, <1>2, <1>3, <1>4

LEMMA NextInv == ASSUME IInv, [Next]_vars PROVE IInv'
<1>1. CASE CreateWorker BY <1>1, CreateWorkerInv
<1>2. CASE AllCreated BY <1>2, AllCreatedInv
<1>3. CASE Poll BY <1>3, PollInv
<1>4. CASE AllReady BY <1>4, AllReadyInv
<1>5. CASE AddResult BY <1>5, AddResultInv
<1>6. CASE PrintSum BY <1>6, PrintSumInv
<1>7. CASE \E w \in Workers : WorkerStep(w)
  BY <1>7, StoreResultInv, SetFlagInv DEF WorkerStep
<1>8. CASE UNCHANGED vars
  <2>1. UNCHANGED args
    BY <1>8 DEF vars
  <2>2. TypeInv'
    BY <1>8 DEF vars, args, IInv, TypeInv, Workers
  <2>3. PiecesInv'
    BY <1>8, <2>1, SamePieces DEF vars, IInv, PiecesInv, Created
  <2>4. ResultsInv'
    BY <1>8, <2>1, SamePieces DEF vars, IInv, ResultsInv
  <2>5. TermsInv'
    BY <1>8, <2>1, SamePieces DEF vars, args, IInv, TermsInv
  <2> QED BY <2>2, <2>3, <2>4, <2>5 DEF IInv
<1> QED BY <1>1, <1>2, <1>3, <1>4, <1>5, <1>6, <1>7, <1>8
        DEF Next, MainStep, Terminated

LEMMA Invariance == Spec => []IInv
BY InitInv, NextInv, PTL DEF Spec

-----------------------------------------------------------------------------
(* Main adds only what a worker has computed, whenever the threads set      *)
(* their flags and in whatever order the processes write (integrate.c:115). *)
THEOREM ResultsCorrect == Spec => []OnlyResultsAreSummed
<1>1. IInv => OnlyResultsAreSummed
  <2> SUFFICES ASSUME IInv, NEW k \in DOMAIN terms PROVE terms[k].computed
    BY DEF OnlyResultsAreSummed
  <2>1. k - 1 \in Nat
    BY DEF IInv, TypeInv
  <2> QED BY <2>1, PartOfPiece DEF IInv, TermsInv
<1> QED BY <1>1, Invariance, PTL

(* No two workers integrate over the same part of the range, for every      *)
(* width and number of workers (integrate.c:22-29,89-111).                  *)
THEOREM PartsCorrect == Spec => []NothingIsSummedTwice
<1>1. IInv => NothingIsSummedTwice
  <2> SUFFICES ASSUME IInv, NEW k \in DOMAIN terms, NEW l \in DOMAIN terms, k # l
               PROVE  Disjoint(terms[k], terms[l])
    BY DEF NothingIsSummedTwice
  <2>1. k - 1 \in Nat /\ l - 1 \in Nat /\ k \in Nat /\ l \in Nat
    BY DEF IInv, TypeInv
  <2>2. terms[k] = Part(Piece(k - 1)) /\ terms[l] = Part(Piece(l - 1))
    BY DEF IInv, TermsInv
  <2>3. CASE k < l
    BY <2>1, <2>2, <2>3, PiecesDisjoint DEF IInv
  <2>4. CASE l < k
    <3>1. Disjoint(terms[l], terms[k])
      BY <2>1, <2>2, <2>4, PiecesDisjoint DEF IInv
    <3> QED BY <3>1 DEF Disjoint
  <2> QED BY <2>1, <2>3, <2>4
<1> QED BY <1>1, Invariance, PTL

(* What the workers are given when nothing is left over is everything: the  *)
(* shares add up to the total number of intervals.                          *)
LEMMA SharesAddUp ==
  ASSUME TypeInv, total_intervals_count % num = 0
  PROVE  /\ num * Share = total_intervals_count * interval_width
         /\ range_right <= num * Share
         /\ num * Share < range_right + interval_width
         /\ Share \in Nat \ {0}
<1>1. /\ range_right \in Nat \ {0} /\ interval_width \in Nat \ {0}
      /\ num \in Nat \ {0}
      /\ total_intervals_count \in Nat /\ intervals_per_thread \in Nat
      /\ Share \in Nat
  BY ShareNat DEF TypeInv
<1>2. total_intervals_count = intervals_per_thread * num
  BY <1>1, ExactDivision DEF intervals_per_thread
<1>3. num * Share = total_intervals_count * interval_width
  BY <1>1, <1>2 DEF Share
<1>4. LET r == range_right + interval_width - 1 IN
        /\ total_intervals_count * interval_width <= r
        /\ r < (total_intervals_count + 1) * interval_width
  BY <1>1, Division DEF total_intervals_count
<1>5. (total_intervals_count + 1) * interval_width
        = total_intervals_count * interval_width + interval_width
  BY <1>1, NextMultiple
<1>6. total_intervals_count * interval_width \in Nat
  BY <1>1, ProductNat
<1>7. range_right <= num * Share /\ num * Share < range_right + interval_width
  BY <1>1, <1>3, <1>4, <1>5, <1>6
<1>8. Share # 0
  BY <1>1, <1>7
<1> QED BY <1>1, <1>3, <1>7, <1>8

(* If the workers' shares use up all intervals, every point of the range is *)
(* integrated, and less than one interval beyond it (integrate.c:78-79).    *)
THEOREM CoverageCorrect == Spec => []RangeIsCovered
<1>1. IInv => RangeIsCovered
  <2> SUFFICES ASSUME IInv, main = "done", total_intervals_count % num = 0
               PROVE  /\ \A x \in 0 .. range_right - 1 : \E k \in DOMAIN terms :
                           terms[k].from <= x /\ x < terms[k].to
                      /\ \A k \in DOMAIN terms :
                           terms[k].to < range_right + interval_width
    BY DEF RangeIsCovered
  <2>1. /\ range_right \in Nat \ {0} /\ interval_width \in Nat \ {0}
        /\ num \in Nat \ {0} /\ TypeInv
    BY DEF IInv, TypeInv
  <2>2. /\ range_right <= num * Share /\ num * Share < range_right + interval_width
        /\ Share \in Nat \ {0} /\ num * Share \in Nat
    BY <2>1, SharesAddUp, ProductNat
  <2>3. /\ DOMAIN terms = 1 .. num
        /\ \A k \in 1 .. num : terms[k] = Part(Piece(k - 1))
    BY <2>1 DEF IInv, TypeInv, TermsInv
  <2>4. ASSUME NEW x \in 0 .. range_right - 1
        PROVE  \E k \in DOMAIN terms : terms[k].from <= x /\ x < terms[k].to
    <3> DEFINE w == x \div Share
    <3>1. x \in Nat /\ x < range_right
      BY <2>1
    <3>2. w \in Nat /\ w * Share <= x /\ x < (w + 1) * Share
      BY <2>2, <3>1, Division
    <3>3. w < num
      <4> SUFFICES ASSUME num <= w PROVE FALSE
        BY <2>1, <3>2
      <4>1. num * Share <= w * Share
        BY <2>1, <2>2, <3>2, ProductMonotonic
      <4>2. w * Share \in Nat
        BY <2>2, <3>2, ProductNat
      <4> QED BY <2>1, <2>2, <3>1, <3>2, <4>1, <4>2
    <3>4. /\ w * Share \in Nat /\ (w + 1) * Share \in Nat
      BY <2>2, <3>2, ProductNat
    <3> HIDE DEF w
    <3>5. Part(Piece(w)).from <= x
      BY <2>1, <3>1, <3>2, <3>4, PartOfPiece DEF Cut
    <3>6. x < Part(Piece(w)).to
      <4>1. x < Cut((w + 1) * Share)
        BY <2>1, <3>1, <3>2, <3>4 DEF Cut
      <4>2. Cut((w + 1) * Share) <= Part(Piece(w)).to /\ Part(Piece(w)) \in Results
        BY <2>1, <3>2, PartOfPiece
      <4> QED BY <2>1, <3>1, <3>4, <4>1, <4>2 DEF Cut, Results
    <3>7. w + 1 \in DOMAIN terms /\ terms[w + 1] = Part(Piece(w))
      BY <2>1, <2>3, <3>2, <3>3
    <3> QED BY <3>5, <3>6, <3>7
  <2>5. ASSUME NEW k \in DOMAIN terms
        PROVE  terms[k].to < range_right + interval_width
    <3>1. k \in Nat /\ k - 1 \in Nat /\ k <= num /\ (k - 1) + 1 = k
      BY <2>1, <2>3
    <3>2. k * Share <= num * Share /\ k * Share \in Nat
      BY <2>1, <2>2, <3>1, ProductMonotonic, ProductNat
    <3>3. \/ Part(Piece(k - 1)).to = Cut(k * Share)
          \/ Part(Piece(k - 1)).to = k * Share
      BY <2>1, <3>1, PartOfPiece
    <3> QED BY <2>1, <2>2, <2>3, <3>2, <3>3 DEF Cut
  <2> QED BY <2>4, <2>5
<1> QED BY <1>1, Invariance, PTL
=============================================================================
