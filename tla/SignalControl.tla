--------------------------- MODULE SignalControl ---------------------------
(***************************************************************************)
(* The catcher and the senders of lab05/zad2: a sender queues SIGUSR1 with *)
(* a mode as its value and waits for the answering SIGUSR1; the catcher    *)
(* executes the mode and answers the process that sent it.                 *)
(*                                                                         *)
(* A signal handler runs between any two steps of the process it           *)
(* interrupts, and to its end before that process goes on.  SIGUSR1 is a   *)
(* standard signal: while one is pending, another one is dropped.  pause   *)
(* returns only if a handler runs after it was called, so "about to pause" *)
(* and "paused" are different control states.                              *)
(***************************************************************************)
EXTENDS Integers, FiniteSets

CONSTANTS
  Senders,       \* the sender processes, each with its process id
  Modes,         \* the modes they may be given, argv[2]
  CtrlC          \* may the user of the catcher press Ctrl+C?

NoSender == 0    \* the value 0 of the catcher's pid

ASSUME SignalAssumption ==
  /\ IsFiniteSet(Senders) /\ NoSender \notin Senders
  /\ Modes \subseteq 0 .. 5
  /\ CtrlC \in BOOLEAN

VARIABLES
  \* the catcher
  pid, command, request_count, ignore_ctrl_c,
  sigint,        \* the disposition of SIGINT
  catcher,       \* control state of the catcher's main
  pending,       \* the pending SIGUSR1: [from, value], or NoSignal
  \* the senders
  mode,          \* argv[2]
  is_answer,
  sender,        \* control state of each sender's main
  \* history, read by no action
  handled,       \* the senders whose signal reached the catcher's handler
  executed,      \* the senders whose mode the catcher executed for them
  answers        \* the number of answers sent to each sender

catcherVars == <<pid, command, request_count, ignore_ctrl_c, sigint, catcher>>
senderVars  == <<mode, is_answer, sender>>
history     == <<handled, executed, answers>>
vars        == <<catcherVars, pending, senderVars, history>>

NoSignal == [from |-> NoSender, value |-> 0]

Init ==
  /\ pid = NoSender
  /\ command = 0
  /\ request_count = 0
  /\ ignore_ctrl_c = FALSE
  /\ sigint = "default"
  /\ catcher = "about_to_pause"
  /\ pending = NoSignal
  /\ mode \in [Senders -> Modes]
  /\ is_answer = [s \in Senders |-> FALSE]
  /\ sender = [s \in Senders |-> "start"]
  /\ handled = {}
  /\ executed = {}
  /\ answers = [s \in Senders |-> 0]

-----------------------------------------------------------------------------
(* The catcher.                                                             *)

(* Mutant: a handler does not end the pause.                                *)
MutantNotInterrupted == catcher

(* A handler that runs while the catcher is paused ends the pause.          *)
Interrupted == IF catcher = "paused" THEN "test" ELSE catcher

(* Mutant: the handler leaves its signal pending and runs again.            *)
MutantHandleSignalStaysPending ==
  /\ pending # NoSignal
  /\ catcher # "exited"
  /\ request_count' = request_count + 1
  /\ command' = IF pending.value # 0 THEN pending.value ELSE command
  /\ pid' = pending.from
  /\ catcher' = Interrupted
  /\ handled' = handled \cup {pending.from}
  /\ UNCHANGED <<pending, ignore_ctrl_c, sigint, senderVars, executed, answers>>

HandleSignal ==
  /\ pending # NoSignal
  /\ catcher # "exited"
  /\ request_count' = request_count + 1
  /\ command' = IF pending.value # 0 THEN pending.value ELSE command
  /\ pid' = pending.from
  /\ pending' = NoSignal
  /\ catcher' = Interrupted
  /\ handled' = handled \cup {pending.from}
  /\ UNCHANGED <<ignore_ctrl_c, sigint, senderVars, executed, answers>>

(* Ctrl+C kills the catcher, is ignored, or runs handleCtrlC, which only    *)
(* prints, according to what the modes 3 and 4 have set.                    *)
PressCtrlC ==
  /\ CtrlC
  /\ catcher # "exited"
  /\ catcher' = CASE sigint = "default" -> "exited"
                  [] sigint = "ignored" -> catcher
                  [] sigint = "caught"  -> Interrupted
  /\ UNCHANGED <<pid, command, request_count, ignore_ctrl_c, sigint, pending,
                 senderVars, history>>

CatcherGoes(from, to) ==
  /\ catcher = from
  /\ catcher' = to
  /\ UNCHANGED <<request_count, pending, senderVars, handled>>

CatcherPauses ==
  /\ CatcherGoes("about_to_pause", "paused")
  /\ UNCHANGED <<pid, command, ignore_ctrl_c, sigint, executed, answers>>

CatcherTests ==
  /\ CatcherGoes("test", IF pid # NoSender THEN "dispatch" ELSE "about_to_pause")
  /\ UNCHANGED <<pid, command, ignore_ctrl_c, sigint, executed, answers>>

(* switch (command): the modes 1, 3 and 4 are done at once, 2 goes on until *)
(* the command changes, 5 ends the program.                                 *)
CatcherDispatches ==
  /\ CatcherGoes("dispatch", CASE command = 2 -> "counting"
                               [] command = 5 -> "exited"
                               [] OTHER       -> "clear")
  /\ sigint' = CASE command = 3 -> "ignored"
                 [] command = 4 -> "caught"
                 [] OTHER       -> sigint
  /\ ignore_ctrl_c' = (ignore_ctrl_c \/ command = 4)
  /\ executed' = IF command = mode[pid] THEN executed \cup {pid} ELSE executed
  /\ UNCHANGED <<pid, command, answers>>

CatcherStopsCounting ==
  /\ CatcherGoes("counting", "clear")
  /\ command # 2
  /\ UNCHANGED <<pid, command, ignore_ctrl_c, sigint, executed, answers>>

(* Mutant: pid is cleared together with the command, before the answer.     *)
MutantClearsPidToo ==
  /\ CatcherGoes("clear", "answer")
  /\ command' = 0
  /\ pid' = NoSender
  /\ UNCHANGED <<ignore_ctrl_c, sigint, executed, answers>>

CatcherClears ==
  /\ CatcherGoes("clear", "answer")
  /\ command' = 0
  /\ UNCHANGED <<pid, ignore_ctrl_c, sigint, executed, answers>>

(* kill(pid, SIGUSR1): the signal is delivered by SenderHandles.            *)
CatcherAnswers ==
  /\ CatcherGoes("answer", "reset")
  /\ answers' = [s \in Senders |-> IF s = pid THEN answers[s] + 1 ELSE answers[s]]
  /\ UNCHANGED <<pid, command, ignore_ctrl_c, sigint, executed>>

CatcherResets ==
  /\ CatcherGoes("reset", "about_to_pause")
  /\ pid' = NoSender
  /\ UNCHANGED <<command, ignore_ctrl_c, sigint, executed, answers>>

-----------------------------------------------------------------------------
(* A sender.                                                                *)

SenderGoes(s, from, to) ==
  /\ sender[s] = from
  /\ sender' = [sender EXCEPT ![s] = to]
  /\ UNCHANGED <<catcherVars, mode, history>>

(* sigqueue fails if the catcher is gone; a signal sent while another one   *)
(* is pending is dropped without an error.                                  *)
SenderSends(s) ==
  /\ SenderGoes(s, "start", IF catcher = "exited" THEN "done" ELSE "test")
  /\ pending' = IF catcher # "exited" /\ pending = NoSignal
                THEN [from |-> s, value |-> mode[s]] ELSE pending
  /\ UNCHANGED is_answer

SenderTests(s) ==
  /\ SenderGoes(s, "test", IF is_answer[s] THEN "done" ELSE "about_to_pause")
  /\ UNCHANGED <<pending, is_answer>>

SenderPauses(s) ==
  /\ SenderGoes(s, "about_to_pause", "paused")
  /\ UNCHANGED <<pending, is_answer>>

(* The handler of an answer that was sent and has not been handled yet.     *)
SenderHandles(s) ==
  /\ sender[s] # "done"
  /\ answers[s] > 0 /\ ~is_answer[s]
  /\ is_answer' = [is_answer EXCEPT ![s] = TRUE]
  /\ sender' = [sender EXCEPT ![s] = IF @ = "paused" THEN "test" ELSE @]
  /\ UNCHANGED <<catcherVars, pending, mode, history>>

-----------------------------------------------------------------------------
CatcherStep ==
  \/ CatcherPauses \/ CatcherTests \/ CatcherDispatches \/ CatcherStopsCounting
  \/ CatcherClears \/ CatcherAnswers \/ CatcherResets
SenderStep(s) ==
  SenderSends(s) \/ SenderTests(s) \/ SenderPauses(s) \/ SenderHandles(s)

Next ==
  \/ HandleSignal
  \/ CatcherStep
  \/ PressCtrlC
  \/ \E s \in Senders : SenderStep(s)

Spec == Init /\ [][Next]_vars

(* Pending signals are delivered and processes run; nobody has to start a   *)
(* sender or to press Ctrl+C.                                               *)
FairSpec ==
  /\ Spec
  /\ WF_vars(HandleSignal)
  /\ WF_vars(CatcherStep)
  /\ \A s \in Senders :
       WF_vars(SenderTests(s) \/ SenderPauses(s)) /\ WF_vars(SenderHandles(s))

-----------------------------------------------------------------------------
TypeOK ==
  /\ pid \in Senders \cup {NoSender}
  /\ command \in Modes \cup {0}
  /\ request_count \in 0 .. Cardinality(Senders)
  /\ ignore_ctrl_c \in BOOLEAN
  /\ sigint \in {"default", "ignored", "caught"}
  /\ catcher \in {"about_to_pause", "paused", "test", "dispatch", "counting",
                  "clear", "answer", "reset", "exited"}
  /\ pending \in [from : Senders \cup {NoSender}, value : Modes \cup {0}]
  /\ sender \in [Senders -> {"start", "test", "about_to_pause", "paused", "done"}]
  /\ is_answer \in [Senders -> BOOLEAN]

(* However requests arrive while one is executed, pid names a sender from   *)
(* the test until it is answered: kill is never called with pid 0, which    *)
(* would signal the whole process group.                                    *)
AnswersSomebody ==
  catcher \in {"dispatch", "counting", "clear", "answer"} => pid # NoSender

(* A sender is answered at most once, and only after its own request has    *)
(* reached the catcher.                                                     *)
AnsweredOnceIfHandled ==
  \A s \in Senders : answers[s] <= (IF s \in handled THEN 1 ELSE 0)

(* The answers of the catcher go to processes that wait for one.            *)
AnswersAreDue == AnswersSomebody /\ AnsweredOnceIfHandled

-----------------------------------------------------------------------------
(* The calm case works: a request that is pending while both processes are  *)
(* already paused and no other sender is on its way is executed and         *)
(* answered, unless it is a mode that never answers (2 and 5) or one that   *)
(* repeats what a lost request left in command (0).  Ctrl+C may end the     *)
(* catcher, and once mode 4 has been executed it wakes the catcher for      *)
(* nothing, so that the request that follows can fall between the test and  *)
(* the next pause.                                                          *)
Calm(s) ==
  /\ catcher = "paused" /\ pending.from = s /\ sender[s] = "paused"
  /\ mode[s] \notin {0, 2, 5}
  /\ sigint # "caught"
  /\ \A t \in Senders \ {s} : sender[t] # "start"

CalmRequestIsObeyed ==
  \A s \in Senders :
    Calm(s) ~> \/ catcher = "exited"
               \/ sender[s] = "done" /\ s \in executed
=============================================================================
