---------------------------- MODULE SignalProofs ----------------------------
(***************************************************************************)
(* Proofs about SignalControl for every set of senders, every set of modes *)
(* and with or without Ctrl+C.                                             *)
(***************************************************************************)
EXTENDS SignalControl, FiniteSetTheorems, TLAPS

(* A request is in one place at a time: not sent, pending, or handled; the  *)
(* counter of the handler counts the senders it has seen.                   *)
OneRequestEach ==
  /\ mode \in [Senders -> Modes]
  /\ handled \in SUBSET Senders
  /\ request_count = Cardinality(handled)
  /\ pending # NoSignal =>
       /\ pending.from \in Senders
       /\ sender[pending.from] # "start"
       /\ pending.from \notin handled
  /\ \A s \in handled : sender[s] # "start"

(* What main keeps in pid has been handled, and has not been answered unless*)
(* main is about to forget it.                                              *)
PidIsUnanswered ==
  /\ answers \in [Senders -> Nat]
  /\ pid # NoSender =>
       /\ pid \in handled
       /\ catcher \notin {"reset", "exited"} => answers[pid] = 0

AnswerInv ==
  TypeOK /\ OneRequestEach /\ PidIsUnanswered /\ AnswersAreDue

LEMMA HandledFinite ==
  ASSUME NEW H, H \in SUBSET Senders
  PROVE  /\ IsFiniteSet(H) /\ Cardinality(H) \in 0 .. Cardinality(Senders)
         /\ \A s \in Senders \ H : Cardinality(H \cup {s}) = Cardinality(H) + 1
<1>1. IsFiniteSet(H) /\ Cardinality(H) <= Cardinality(Senders)
  BY SignalAssumption, FS_Subset
<1>2. Cardinality(H) \in Nat /\ Cardinality(Senders) \in Nat
  BY <1>1, SignalAssumption, FS_CardinalityType
<1> QED
  BY <1>1, <1>2, FS_AddElement

LEMMA InitAnswerInv == Init => AnswerInv
<1> SUFFICES ASSUME Init PROVE AnswerInv
  OBVIOUS
<1>1. Cardinality({}) = 0
  BY FS_EmptySet
<1>2. Cardinality(Senders) \in Nat
  BY SignalAssumption, FS_CardinalityType
<1>3. TypeOK
  <2>1. ignore_ctrl_c \in BOOLEAN /\ is_answer \in [Senders -> BOOLEAN]
    BY Zenon DEF Init
  <2> QED
    BY <1>2, <2>1 DEF Init, TypeOK, NoSignal
<1> QED
  BY <1>1, <1>3
  DEF Init, AnswerInv, OneRequestEach, PidIsUnanswered, AnswersAreDue,
      AnswersSomebody, AnsweredOnceIfHandled

-----------------------------------------------------------------------------
(* The handlers of the catcher.                                             *)

LEMMA HandleSignalAnswerInv ==
  ASSUME AnswerInv, HandleSignal
  PROVE  AnswerInv'
<1> USE SignalAssumption DEF AnswerInv
<1>1. pending.from \in Senders \ handled /\ handled' = handled \cup {pending.from}
  BY DEF HandleSignal, OneRequestEach
<1>2. handled' \in SUBSET Senders /\ request_count' = Cardinality(handled')
  BY <1>1, HandledFinite DEF HandleSignal, OneRequestEach
<1>3. answers[pending.from] = 0
  BY <1>1 DEF PidIsUnanswered, AnswersAreDue, AnsweredOnceIfHandled
<1>4. TypeOK'
  <2>1. request_count' \in 0 .. Cardinality(Senders)
    BY <1>2, HandledFinite
  <2>2. ignore_ctrl_c' \in BOOLEAN /\ is_answer' \in [Senders -> BOOLEAN]
    BY Zenon DEF HandleSignal, senderVars, TypeOK
  <2> QED
    BY <1>1, <2>1, <2>2
    DEF HandleSignal, TypeOK, senderVars, Interrupted, NoSignal
<1>5. OneRequestEach'
  BY <1>1, <1>2 DEF HandleSignal, OneRequestEach, senderVars
<1>6. PidIsUnanswered'
  BY <1>1, <1>3 DEF HandleSignal, PidIsUnanswered
<1>7. AnswersAreDue'
  <2>1. AnswersSomebody'
    BY <1>1 DEF HandleSignal, AnswersSomebody
  <2>2. UNCHANGED answers /\ answers \in [Senders -> Nat]
    BY DEF HandleSignal, PidIsUnanswered
  <2>3. AnsweredOnceIfHandled'
    BY <1>1, <2>2 DEF AnswersAreDue, AnsweredOnceIfHandled
  <2> QED
    BY <2>1, <2>3 DEF AnswersAreDue
<1> QED
  BY <1>4, <1>5, <1>6, <1>7

LEMMA PressCtrlCAnswerInv ==
  ASSUME AnswerInv, PressCtrlC
  PROVE  AnswerInv'
<1> USE SignalAssumption DEF AnswerInv
<1>1. catcher' \in {catcher, "exited"} \/ (catcher = "paused" /\ catcher' = "test")
  BY DEF PressCtrlC, TypeOK, Interrupted
<1>2. TypeOK'
  <2>1. ignore_ctrl_c' \in BOOLEAN /\ is_answer' \in [Senders -> BOOLEAN]
    BY Zenon DEF PressCtrlC, senderVars, TypeOK
  <2> QED
    BY <1>1, <2>1 DEF PressCtrlC, TypeOK, senderVars
<1> QED
  BY <1>1, <1>2
  DEF PressCtrlC, OneRequestEach, PidIsUnanswered, AnswersAreDue,
      AnswersSomebody, AnsweredOnceIfHandled, senderVars, history

-----------------------------------------------------------------------------
(* The main program of the catcher.                                         *)

LEMMA CatcherStepAnswerInv ==
  ASSUME AnswerInv, CatcherStep
  PROVE  AnswerInv'
<1> USE SignalAssumption DEF AnswerInv
<1>1. UNCHANGED <<request_count, pending, senderVars, handled>>
  BY DEF CatcherStep, CatcherPauses, CatcherTests, CatcherDispatches,
         CatcherStopsCounting, CatcherClears, CatcherAnswers, CatcherResets,
         CatcherGoes
<1>2. TypeOK'
  <2>1. ignore_ctrl_c' \in BOOLEAN
    BY DEF CatcherStep, CatcherPauses, CatcherTests, CatcherDispatches,
           CatcherStopsCounting, CatcherClears, CatcherAnswers, CatcherResets,
           TypeOK
  <2>2. is_answer' \in [Senders -> BOOLEAN]
    BY <1>1, Zenon DEF senderVars, TypeOK
  <2> QED
    BY <1>1, <2>1, <2>2
    DEF CatcherStep, CatcherPauses, CatcherTests, CatcherDispatches,
        CatcherStopsCounting, CatcherClears, CatcherAnswers, CatcherResets,
        CatcherGoes, TypeOK, senderVars
<1>3. OneRequestEach'
  BY <1>1 DEF OneRequestEach, senderVars
<1>4. CASE CatcherAnswers
  <2>1. pid \in handled /\ pid \in Senders /\ answers[pid] = 0
    BY <1>4 DEF CatcherAnswers, CatcherGoes, PidIsUnanswered, AnswersAreDue,
                AnswersSomebody, OneRequestEach
  <2>2. answers' \in [Senders -> Nat]
    BY <1>4 DEF CatcherAnswers, PidIsUnanswered
  <2>3. AnsweredOnceIfHandled'
    BY <1>1, <1>4, <2>1
    DEF CatcherAnswers, AnswersAreDue, AnsweredOnceIfHandled, PidIsUnanswered
  <2> QED
    BY <1>1, <1>2, <1>3, <1>4, <2>1, <2>2, <2>3
    DEF CatcherAnswers, CatcherGoes, PidIsUnanswered, AnswersAreDue,
        AnswersSomebody
<1>5. CASE ~CatcherAnswers
  <2>1. UNCHANGED answers
    BY <1>5 DEF CatcherStep, CatcherPauses, CatcherTests, CatcherDispatches,
                CatcherStopsCounting, CatcherClears, CatcherResets
  <2>2. PidIsUnanswered' /\ AnswersSomebody'
    BY <1>1, <1>5, <2>1
    DEF CatcherStep, CatcherPauses, CatcherTests, CatcherDispatches,
        CatcherStopsCounting, CatcherClears, CatcherResets, CatcherGoes,
        PidIsUnanswered, AnswersAreDue, AnswersSomebody
  <2> QED
    BY <1>1, <1>2, <1>3, <2>1, <2>2 DEF AnswersAreDue, AnsweredOnceIfHandled
<1> QED
  BY <1>4, <1>5

-----------------------------------------------------------------------------
(* The senders.                                                             *)

LEMMA SenderStepAnswerInv ==
  ASSUME AnswerInv, NEW s \in Senders, SenderStep(s)
  PROVE  AnswerInv'
<1> USE SignalAssumption DEF AnswerInv
<1>1. UNCHANGED <<catcherVars, mode, history>>
  BY DEF SenderStep, SenderSends, SenderTests, SenderPauses, SenderHandles,
         SenderGoes
<1>2. \A t \in Senders : sender[t] # "start" => sender'[t] # "start"
  BY DEF SenderStep, SenderSends, SenderTests, SenderPauses, SenderHandles,
         SenderGoes, TypeOK
<1>3. CASE SenderSends(s)
  <2>1. s \notin handled /\ sender'[s] # "start"
    BY <1>3 DEF SenderSends, SenderGoes, OneRequestEach, TypeOK
  <2>2. TypeOK'
    <3>1. ignore_ctrl_c' \in BOOLEAN /\ is_answer' \in [Senders -> BOOLEAN]
      BY <1>3, Zenon DEF SenderSends, SenderGoes, catcherVars, TypeOK
    <3>2. mode[s] \in Modes
      BY DEF OneRequestEach
    <3> QED
      BY <1>1, <1>3, <3>1, <3>2 DEF SenderSends, SenderGoes, catcherVars, TypeOK
  <2>3. OneRequestEach'
    BY <1>1, <1>2, <1>3, <2>1
    DEF SenderSends, OneRequestEach, catcherVars, history
  <2> QED
    BY <1>1, <2>2, <2>3
    DEF PidIsUnanswered, AnswersAreDue, AnswersSomebody,
        AnsweredOnceIfHandled, catcherVars, history
<1>4. CASE SenderTests(s) \/ SenderPauses(s) \/ SenderHandles(s)
  <2>1. UNCHANGED pending
    BY <1>4 DEF SenderTests, SenderPauses, SenderHandles
  <2>2. TypeOK'
    <3>1. is_answer' \in [Senders -> BOOLEAN]
      BY <1>4 DEF SenderTests, SenderPauses, SenderHandles, TypeOK
    <3>2. ignore_ctrl_c' \in BOOLEAN
      BY <1>1, Zenon DEF catcherVars, TypeOK
    <3>3. sender' \in [Senders -> {"start", "test", "about_to_pause",
                                   "paused", "done"}]
      BY <1>4
      DEF SenderTests, SenderPauses, SenderHandles, SenderGoes, TypeOK
    <3> QED
      BY <1>1, <2>1, <3>1, <3>2, <3>3 DEF catcherVars, TypeOK
  <2>3. OneRequestEach'
    BY <1>1, <1>2, <2>1 DEF OneRequestEach, catcherVars, history
  <2> QED
    BY <1>1, <2>2, <2>3
    DEF PidIsUnanswered, AnswersAreDue, AnswersSomebody,
        AnsweredOnceIfHandled, catcherVars, history
<1> QED
  BY <1>3, <1>4 DEF SenderStep

-----------------------------------------------------------------------------
(* AnswerInv is an invariant of the two programs.                           *)
THEOREM AnswerInvCorrect == Spec => []AnswerInv
<1>1. ASSUME AnswerInv, [Next]_vars PROVE AnswerInv'
  <2>1. CASE HandleSignal
    BY <1>1, <2>1, HandleSignalAnswerInv
  <2>2. CASE CatcherStep
    BY <1>1, <2>2, CatcherStepAnswerInv
  <2>3. CASE PressCtrlC
    BY <1>1, <2>3, PressCtrlCAnswerInv
  <2>4. CASE \E s \in Senders : SenderStep(s)
    BY <1>1, <2>4, SenderStepAnswerInv
  <2>5. CASE UNCHANGED vars
    BY <1>1, <2>5
    DEF vars, catcherVars, senderVars, history, AnswerInv, TypeOK,
        OneRequestEach, PidIsUnanswered, AnswersAreDue, AnswersSomebody,
        AnsweredOnceIfHandled
  <2> QED
    BY <1>1, <2>1, <2>2, <2>3, <2>4, <2>5 DEF Next
<1> QED
  BY <1>1, InitAnswerInv, PTL DEF Spec

(* The variables of both programs keep their types; the handler never       *)
(* counts more requests than there are senders.                             *)
THEOREM SignalTypesCorrect == Spec => []TypeOK
<1>1. AnswerInv => TypeOK
  BY DEF AnswerInv
<1> QED
  BY <1>1, AnswerInvCorrect, PTL

(* No answer goes to pid 0, to a sender whose request has not been handled, *)
(* or to one that was answered before.                                      *)
THEOREM AnswersCorrect == Spec => []AnswersAreDue
<1>1. AnswerInv => AnswersAreDue
  BY DEF AnswerInv
<1> QED
  BY <1>1, AnswerInvCorrect, PTL
=============================================================================
