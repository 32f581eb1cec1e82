# TLA+ models of the Operating Systems course programs

The repository holds the laboratory programs of an operating systems course:
about 2600 lines of C in 63 files, one directory per laboratory. They share no
code; each is a small system of its own. The interesting ones are concurrent:
threads with a mutex and condition variables (lab10), processes over shared
memory and semaphores (lab08), message queues (lab07), signals (lab05), and
sockets with threads (lab11, lab12). There are no tests; the specification of a
program is its code, its comments and the messages it prints.

This directory models these systems in TLA+, checks the models with TLC on
small instances, and proves the most important safety properties with TLAPS for
every value of the constants.

## 1. Inventory

### Components

| component | state | operations | hard behaviour | model |
|---|---|---|---|---|
| lab10 `hospital.c` | shared counters under `hospital_mutex`, five kinds of condition variables | doctor loop, patient arrives / leaves, pharmacist queues / registers / leaves, main joins | the doctor unlocks and sleeps in mid decision; lost wakeups; waits without a loop; one signal for many waiters at the end | `Hospital`, `HospitalProofs` |
| lab08 `printer.c` | cyclic array `print_queue` in shared memory; semaphores `mutex`, `slots`, `items` | `user_function`, `printer_function` | unsynchronised threads around three semaphores; wrap around; `count++` is a load and a store | `Printer`, `PrintSpool`, `PrinterProofs`, `PrinterSpoolProofs` |
| lab07 `server.c`, `client.c` | server table, server queue, one queue per client | INIT, id, line, broadcast, exit | bounded blocking queues in a cycle; order of answers; clients that leave without a word | `MqChat`, `MCMqChat`, `MqChatProofs` |
| lab05/zad2 `catcher.c`, `sender.c` | `pid`, `command`, dispositions; `is_answer` of each sender | send a mode, execute it, answer | handlers at every step; signals that are not queued; test and `pause` | `SignalControl`, `SignalProofs` |
| lab12 `server.c`, `client.c` | server table with time stamps; `stop_flag` of each client | register by any datagram, STOP, probes and answers, timeouts | lost, doubled, late and reordered datagrams; two server threads; ghosts | `ChatUdp`, `MCChatUdp`, `ChatUdpProofs` |
| lab11 `server.c`, `client.c` | slot table with descriptors and time stamps, one handler thread per connection; `flag` and two threads of each client | accept, name, commands, STOP, probes, timeout, shutdown | a table shared by three kinds of threads, half of it read without the mutex; descriptors and slots reused under a running handler; reads that return several commands, or half of one; Ctrl+C before the name | `ChatTcp`, `MCChatTcp`, `ChatTcpProofs` |
| lab09, lab06/zad1 `integrate.c` | partial results, ready flags or pipes | partition, compute, collect | remainders of two divisions; polling without synchronisation | `Integrate`, `IntegrateProofs` |
| lab06/zad2 `man.c`, `int.c` | two FIFOs | open, read, write, unlink | who creates the FIFOs | no |
| lab05/zad1 `zad1.c` | disposition and mask of one signal | four modes | none: one sequential process | no |
| lab04, kol01/Task1 and Task2 | processes and pipes | fork, wait, pipe | one order of events each | no |
| lab02 Collatz library | none | two pure functions | 32-bit overflow | no |
| lab03 `flipper.c` | none | reversal of a line | lines longer than the buffer | no |
| kol2 | | | unfinished tasks, two of which do not compile | no |
| kol01/Task3, lab01 | none | a loop over `lstat`, a loop over `printf` | none | no |

The components interact only inside a laboratory: lab10 and lab08 through
shared memory, lab07 through queues, lab05/zad2 through signals, lab11 and
lab12 through sockets.

### What makes them correct

- **Hospital**: what the doctor tested before it released the mutex for its
  `sleep` still holds afterwards; nobody sleeps while it could get on with its
  work (one exception, below); a patient is released by its consultation, a
  pharmacist by its delivery; the shift serves everybody and the program ends.
- **Printer**: every place of the array is free, announced or in one thread's
  hands; no update of the indices and the counter, each a load and a store, is
  lost, so that they agree with the semaphores; the whole is a
  bounded first-in first-out spool; it never wedges.
- **Message queue chat**: a client learns its own id before anything else;
  all see the lines in one order, once, without echo; the cycle of bounded
  queues does not wedge.
- **Signals**: the catcher answers somebody who asked, once; a calm request is
  answered.
- **UDP chat**: no name is in the table twice; STOP removes only its sender;
  a running client survives a lost probe; a client that is gone leaves the
  table for good.

- **TCP chat**: a slot has one handler and a handler its own client's
  connection; names are unique; lines reach whom they are for, under the name
  of their author; who asks for something is answered; only silent clients are
  dropped.
- **Integration**: main adds finished results only; no point is integrated
  twice, and none is left out when the intervals and the workers divide evenly.

The hazards, each at its line, with the properties that would catch them, are
in `PROJECT.json` under `hazards`.

## 2. Modules

### Hospital (lab10)

One action is one critical section: every shared variable is read and written
with `hospital_mutex` held and the only blocking call under the mutex is
`pthread_cond_wait`. The variables have the names of the code; `doctor`,
`patient`, `pharmacist` and `main` are control states, and a wait set is the
set of threads whose control state says they wait.

| action | code (`hospital.c`) |
|---|---|
| `DoctorStart`, `DoctorWake` | 51-64, the loop around `doctor_cond` |
| `FinishConsultation`, `FinishDelivery` | 67-100, 102-116, what follows the unlocked `sleep` |
| `PatientFindsRoomFull`, `PatientEnters`, `PatientLeaves` | 124-154 |
| `PharmacistQueues`, `PharmacistRegisters`, `PharmacistLeaves` | 157-189 |
| `MainSignalsPatients`, `MainReleasesPharmacists`, `MainFinishes` | 241-280 |
| `SpuriousDoctor`, `SpuriousPatient`, `SpuriousPharmacist` | a `pthread_cond_wait` that returns unsignalled; `SpuriousWakeups` is the set of waits that may |

The durations of sleeps are left out (a sleep is a state between two critical
sections), and so is the log.

### Printer, PrintSpool (lab08)

One action is one semaphore call or one access to the shared queue. `count++`,
`count--` and the moves of `head` and `tail` are a load (`user_read`,
`printer_read`) and a store, with every other thread free to run in between:
that no update is lost is shown, not built in (without the mutex TLC finds one
lost). The copy of a job into or out of its place is one action, so a torn text
is not told apart from a whole one; `MutualExclusion` excludes both.
`PrintSpool` says what users and printers are promised: a bounded FIFO.
`Printer` maps to it with `spool <- WaitingJobs` (stored jobs that nobody has
taken, oldest first) and `printing <- TakenJobs` (what each printer holds). A
job enters the spool when `tail` moves past it and leaves it when `head` does.

### MqChat, MCMqChat (lab07)

Queues are sequences of at most `mq_maxmsg` messages; `mq_send` to a full one
and `mq_receive` from an empty one are disabled. A queue outlives its name
(`linked`). The server's `handle_init` is two steps, because its answer may
block; `broadcast_message` is one step per client, because each may block. A
line is its typist and number; an empty line is one whose text `sscanf` does
not assign, so what is broadcast is `Garbage`. `MCMqChat`
only says who types what (`Script`).

### SignalControl (lab05/zad2)

The main programs of the catcher and the senders statement by statement, with
`HandleSignal`, `PressCtrlC` and `SenderHandles` enabled between any two of
them. SIGUSR1 is a standard signal, so at most one is pending and a second is
dropped. `pause` is two states, "about_to_pause" and "paused": a handler that
runs in the first does not wake it. The three history variables `handled`,
`executed` and `answers` are read by no action.

### ChatUdp, MCChatUdp (lab12)

| action | code |
|---|---|
| `MainReceives` | `server.c` 234-242 and 86-120: receive, `sscanf`, look up or register, refresh |
| `MainAnnouncesJoin` | 122-133, where the mutex is released and taken again |
| `MainHandlesStop`, `MainHandlesOther` | 135-191 |
| `CheckerScans` | 43-67: one critical section, to the first client it drops or to the end |
| `Tick` | 30 seconds pass while the checker sleeps |
| `ClientStarts`, `Types`, `TypesNothing`, `EndOfInput` | `client.c` 44-71 |
| `GetsAlive`, `SendsAck`, `GetsText` | 18-42 |
| `CtrlC`, `ClientEnds` | 73-82, 122-128 |
| `LosesDatagram`, `LosesAlive` | the network |

Datagrams are a set, so they overtake each other, and two equal ones of a client
that are on their way at once are one; a doubled datagram is a fault of its own.
`Faults` says what else may go wrong. The table is a function from slots to
entries; `age` is `current_time - last_alive` in ticks. `ReadCommand` models the
uninitialised `command` array: a line of spaces leaves in it what an earlier
call left there, or something else. What is only shown on screens is left out
(the texts of LIST, 2ALL and 2ONE and the announcements); since such a text lets
a receiving thread see `stop_flag`, `GetsText` may happen at any time once it is
set. `MCChatUdp` only gives the two clients their names.

### ChatTcp, MCChatTcp (lab11)

| action | code |
|---|---|
| `Accept`, `PlaceInSlot`, `RejectWhenFull`, `StartHandler` | `server.c` 249-289: the descriptor, the slot under the mutex, the thread |
| `CallRead`, `ReadReturns` | 53 and 79-83: the descriptor is looked up when `read` is called, the connection read when it returns |
| `RefuseName`, `TakeName`, `Welcome`, `AnnounceJoin` | 57-77 |
| `Refresh`, `Respond`, `ToAll`, `ToOne`, `Stop` | 84-155, the commands |
| `RemoveClient`, `AnnounceLeft` | 36-44, 162-167 |
| `WakeUp`, `Scan`, `AnnounceTimeout` | 168-195: the checker, which releases the mutex inside its loop |
| `ShutDown` | 197-208 |
| `Connect`, `WriteName`, `GetReply`, `Receive`, `ConnectionEnds` | `client.c` 16-40, 93-129: connect, the name, the answer to it, the receiver thread |
| `TypeLine`, `TypeNothing`, `EndInput`, `CtrlC` | 42-73; the handler of `CtrlC` is installed (89) before there is a socket (93), so it may run before `Connect` and before `WriteName` |

What is shared is kept as the threads see it. A handler has a slot number, the
slot holds a descriptor, and `files` says which connection a descriptor stands
for, so that a handler may act on a connection that is not its own. `read` pins
the connection it was called on: closing the descriptor in another thread does
not wake it (Linux). A stream delivers what was written in order; a read returns
any number of the lines that are there, and both programs act on the first and
drop the rest. A read of the server takes at most 19 bytes of a name and 2047 of
a command, so the last line it takes may be cut (`MayCut`): what is left of it is
the text "rest", which is read as a command of its own and is none. Which lines
are long enough is left open: after the name any line may be cut, later one of
the lines it is read with must be a text of a user (`MayBeLong`). The name is
whatever the first read begins with: the name, or `STOP` if Ctrl+C came between
`connect` and the write of the name.

`age` is `current_time - last_alive` in whole periods of the checker, and a period
is long (`PeriodIsOver`): registered handlers are back in `read` and probes are
consumed when the checker wakes up, only a connection that is being set up may
be caught in the middle. `ToAll` and `ToOne` read the name of the sender's slot,
without the mutex, in the same step as the critical section that writes the line:
before the first timeout nobody but the handler itself changes that name, and
after it nothing is promised of the lines. Locals are reset after their last use.
Three history variables are read by no action: `timed_out` (whom the checker
closed), `ignored` (whose STOP was read behind another line, taken for the name,
cut, or not written because there was no socket) and `swallowed` (probes a client
dropped behind another text).

Most of the safety is stated up to the first timeout (`NobodyTimedOut`). After
it the handler of the closed connection is still there with the number of a slot
that main may fill anew; it may then read the newcomer's name or STOP in place
of the newcomer's own handler, and the model does that. `MCChatTcp` gives names
and what is typed.

### Integrate (lab09, lab06/zad1)

One module for the two programs, which share their arithmetic: `program` says
whether main polls ready flags (`Poll`, `AllReady`) or reads pipes (`CanTake`).
`CreateWorker` is one iteration of the loop that divides the range, `StoreResult`
and `SetFlag` are the last two statements of a worker. Lengths are integers in a
unit that divides the range and the width; a partial sum is represented by
the part of the axis it was taken over, which is all the properties need.

## 3. Runs

| run | module | expected | bounds |
|---|---|---|---|
| `Hospital` | Hospital | pass | 6 patients, 2 pharmacists, groups of 2, 3 medicines per consultation, capacity 6; spurious wakeups of every wait in a loop but the registered pharmacist's |
| `HospitalTermination` | Hospital | violation of `Terminates` | 3 patients in one group, 2 pharmacists |
| `Printer` | Printer | pass | 2 users, 2 printers, 2 places, 2 texts |
| `MqChat` | MCMqChat | pass, safety | 4 clients and as many places in the table, queues of 2, one of them types a line and an empty line, another a line, a third may leave, the server may be stopped |
| `MqChatFull` | MCMqChat | pass, liveness | the same with 3 clients for 2 places |
| `MqChatTable` | MCMqChat | violation of `TableHoldsCurrentClients` | 2 clients, one leaves |
| `Signal` | SignalControl | pass | 2 senders, all modes, Ctrl+C |
| `Udp` | MCChatUdp | pass | 2 clients of 2 names, 2 slots, one blank or STOP line, Ctrl+C, 2 lost datagrams |
| `UdpGhosts` | MCChatUdp | pass | 2 clients, 1 slot, one line, a doubled datagram or a late answer |
| `UdpStale` | MCChatUdp | violation of `LoggedStopWasSent` | as `Udp`, two lines and no faults |
| `Tcp` | MCChatTcp | pass | 3 clients of 2 names, 2 slots, 4 events, Ctrl+C, shutdown |
| `Integrate` | Integrate | pass | both programs, ranges 1, 5, 6, widths 1, 2, 3, 7, 1 to 4 workers |

### Why these bounds

- `Hospital`: six patients are three groups, so that a full room, a crowd
  outside and a group that is just being released occur together. Two
  medicine portions in the cabinet and three consultations make both
  pharmacists necessary and let the second one meet an occupied desk and a
  cabinet that is neither empty nor full. The `#define`s of the code (3, 3, 3,
  6) need nine patients for the same situations.
- `Printer`: two threads on each side and a queue of two places wrap the
  indices around, fill the queue and empty it, and let a thread be overtaken
  between any two of its statements. Two texts are enough to see an order.
- `MqChat`: lines of two typists reach two clients only if four are registered,
  so `OneOrder` needs four, and queues of two, where one line can overtake
  another; queues of two are full again and again all the same. The client that
  may leave gives a queue nobody empties.
- `MqChatFull`: three clients for two places make a client that `handle_init`
  leaves without an answer, while the others must go on.
- `Signal`: a second sender is needed and enough for its request to strike
  while the first one is executed. A sender sends once and a mode is its
  argument, so nothing else grows.
- `Udp`: two names and two slots make the gap in front of an active slot; two
  losses are the first number that may drop a running client, so `lost <= 1`
  in `RunningClientStays` is sharp. `ALIVE_CHECK_INTERVAL` is 1 tick and
  `CLIENT_TIMEOUT` 2, the 30 and 65 seconds of the code in units of 30.
- `UdpGhosts`: one slot for two clients makes the table full.

- `Tcp`: three clients for two slots meet a full table, a name that is taken
  and a slot that is used again. `CLIENT_TIMEOUT` is one period (two in the
  code, 65 seconds of 30), so two of the four events of a behaviour drop a
  silent client, and two are left for lines, Ctrl+C or a third client. Periods
  pass in half of the initial states (`time_passes`); in those `Latecomers` stay
  away, which keeps the instance small: two clients and the checker are
  enough for a slot that is freed in the middle of the loop, and three clients
  meet without it.
  `MayPressCtrlC` has one client, which may press it once, at any moment; nobody is
  called `STOP` (`ChatTcpAssumption`), so that who has that name interrupted itself.
- `Integrate`: every way the two divisions can come out, even, with a
  remainder, with fewer intervals than workers, with an interval longer than
  the range.

`MaxLines` and `MaxFaults` (ChatUdp), `Script` (MqChat), `MaxEvents` and
`Latecomers` (ChatTcp), `Ranges`, `Widths` and `Counts` (Integrate) are bounds of the
models; the other constants are parameters of the programs. Deadlock is checked
for `Printer`, `Integrate` and the UDP runs; the other systems stop by design, as each
configuration says.

### What the passing runs show

- **Hospital.** `DoctorChecksStayValid`: from the test to the end of the
  unlocked sleep, the room stays full and the medicine sufficient, or the
  registered pharmacist stays and there is room for its delivery.
  `NoSleeperForgotten`: the doctor does not sleep on work it would do, nor a
  patient outside a room with a free chair, nor a pharmacist whose delivery the
  doctor would take, although every notification is sent from somewhere else. It
  does not say that nobody sleeps on a condition that holds, because a
  pharmacist does: one that went to sleep before a full cabinet is left asleep
  at line 171 by a consultation that takes medicine out and leaves enough for
  another one. Its own loop test (line 165) is then false, the desk is free, but
  line 96 does not broadcast, and the doctor would turn a delivery down (58-59):
  `DeliveryWouldBeEarly`. The consultation that takes the rest wakes it. (The
  message of a pharmacist that comes at such a moment, "może przyjąć dostawę, a
  nie pacjentów", line 181, says that the doctor may accept the delivery; lines
  58-59 say no, so the doctor it wakes sleeps again.)
  `AcceptanceReachesItsPharmacist`: the signal for an accepted delivery has one
  possible receiver, the right one. `ServedAreReleased`, `ShiftServesEverybody`:
  the count of served patients, the chairs and the threads that went home agree.
  `ReleasedByDelivery`: during the shift a pharmacist leaves only after its
  delivery. `Terminates` is the liveness. All of it survives spurious wakeups of
  the waits of the doctor, of the patients outside and of the queueing
  pharmacists. The wait of a seated patient (line 147) is not in a loop, and one
  of the registered pharmacist is released by whatever ends it: those two are
  left out of the run, and the theorems say which properties need them left out.
- **Printer.** `MutualExclusion`, `SlotsConserved`, `QueueConsistent`,
  `ImplementsSpool`, and `JobsKeepMoving`: whenever a job waits one is taken, and
  jobs keep arriving.
- **MqChat.** `RunningKnowsItsId` and `IdAlwaysFits`: although the server lists a
  client for broadcasts before it answers it, the id is the first message in
  the client's queue and never blocks the server. `NoEchoNoDuplicate`,
  `OneOrder`, `ShownWasTyped`: what is shown, of the lines that have a text (two
  empty lines of one client look alike, `Garbage`, and nothing can be said of
  their order). `EveryClientConnects` and
  `LinesReachEveryone`: no wedge, unless somebody departs.
- **Signal.** `AnswersAreDue`: `kill` is never called with pid 0, which would
  signal the whole process group, nor for a sender that was answered or not
  seen yet. `CalmRequestIsObeyed`: a request that finds the catcher paused and
  nobody else on the way is executed and answered. It is only promised in the
  calm: a request whose handler runs while another one is executed is wiped by
  `command = 0` (`catcher.c:77`), and its sender is answered all the same.
- **UDP.** `OneEntryPerName`, `StopFreesItsSender`, `RunningClientStays`,
  `GhostsVanish`, as above.
- **TCP.** `SessionsAreSeparate`, `NamesAreUnique`, `LinesAreSigned`: although
  handlers take slots, descriptors and names from the table without the mutex,
  they meet only their own until the checker closes a connection.
  `DroppedWereSilent`: the first client that the checker drops was being set up
  (`last_alive` is not set before the name is taken), had something unread, or
  had dropped the probes behind other texts. `NobodyWaitsInVain`, `StopIsObeyed`:
  whenever nothing moves any more, nobody waits for an answer to its name, and
  a client whose user typed STOP or pressed Ctrl+C is gone, unless the server did
  not read that STOP as a command. The code has four ways for that, and each
  occurs in the run: the STOP came behind another line in one read
  (`server.c:83`); Ctrl+C came between `connect` and the write of the name
  (`client.c:102`, 108), and the server takes STOP for the name and keeps the client
  under it; the read of the name, of 19 bytes, cut the STOP behind it
  (`server.c:53`); or Ctrl+C came before there was a socket to write to
  (`client.c:73`). The client then stays connected, with `flag` set, until Ctrl+C
  comes once more or the server ends. All of this ends with the first timeout: TLC
  finds a handler of a dropped client that reads the name of the one that has its
  slot now, takes it for a command (a name may be `ALIVE_ACK`) and answers nothing,
  so that the newcomer waits for ever.
- **Integrate.** `OnlyResultsAreSummed`, `NothingIsSummedTwice`, `RangeIsCovered`:
  the last one for the cases without a remainder; otherwise
  `total_intervals_count % num` intervals at the end are left out, which the
  model shows and no line of the repository denies.

Every property of a passing run has a mutant in `PROJECT.json`: a version of one
definition with a plausible bug, for which TLC finds that property violated.

### What the violations show

- `HospitalTermination`: `main` signals `pharmacist_delivery_accepted_cond` once
  after the shift (line 258) and then joins the pharmacists. One that registers
  later waits for ever, and so does `main`. The `Hospital` run passes
  `Terminates` because there the medicine is needed: both pharmacists are done
  before the shift is.
- `MqChatTable`: "the table of the current clients" (`server.c:19`) keeps clients
  that left. TLC's trace is that of a registered client that runs `cleanup` with a
  line unread: its queue is unlinked, its entry stays, and with the next line the
  server waits for ever for room in that queue. The property is about the entry
  at which the server waits, so a client that was killed before line 61 installed
  its handler, whose queue keeps its name, is not what violates it.
- `UdpStale`: a client is stopped by Ctrl+C, and the line of spaces of the other one,
  which has not stopped, is then processed as a STOP, because `sscanf` returns 1
  and `command` is not initialised.

### Fairness

`ChatTcp` and `Integrate` state none: their properties are safety. In `ChatTcp`
what must happen is stated of the states in which nothing moves (`Quiet`), which
stands in for liveness: between two events every step of a thread consumes a
line or brings the thread nearer to its next blocking call. The state space is
too large for TLC's liveness checking.

- `Hospital`: weak fairness of every thread. After a mutex is unlocked the
  scheduler lets each waiting thread get it sometime; a thread that waits on a
  condition variable has no step until it is signalled.
- `Printer`: weak fairness of every thread, none of the semaphores: which waiter
  a `sem_post` lets go is open, and jobs flow all the same (not every job: a
  thread may be overtaken for ever).
- `MqChat`: weak fairness of the server and of each client's waiting for its id
  and receiver thread. Strong fairness of each client's INIT: POSIX lets the
  senders that wait for room in a queue go in the order in which they came, so
  one cannot be overtaken for ever. Nobody has to start a client, to type or
  to leave.
- `SignalControl`: pending signals are delivered and processes run.
- `ChatUdp`: the two server threads run, time passes, the clients' receiving
  threads answer; the datagrams of a client are not all held back for ever
  (strong fairness, since the main thread is busy again and again). Nothing is
  assumed of the users. Faults are bounded: a network that doubles one datagram
  for ever would keep a ghost alive for ever.

## 4. Proofs

All theorems hold for every value of the constants under the named assumption of
the module (`HospitalAssumption`, `PrinterAssumption`, `MqChatAssumption`,
`SignalAssumption`, `ChatUdpAssumption`, `ChatTcpAssumption`,
`IntegrateAssumption`), which TLC evaluates in each run.

**HospitalProofs.** `MonitorInv` is inductive: types, `DoctorChecksStayValid`, the
three parts of `NoSleeperForgotten` and `AcceptanceReachesItsPharmacist`. They need
each other: the checks stay valid because the only thread that may take a
registered delivery away is the doctor, which follows from the identity of the
registered pharmacist; nobody oversleeps because a consultation starts only
when the test has been made on a full room. It holds with any spurious wakeups
and gives `TypesCorrect`, `ChecksStayValid`, `NoLostWakeup` and
`AcceptanceCorrect`. `CountInv` adds that the chairs hold exactly the waiting
patients and that the count of served patients is the number of released ones.
It is inductive only if a seated patient is woken by signals alone (`"in_room"`
is not in `SpuriousWakeups`) and gives `ServedCorrect` and `ShiftCorrect`, with
lemmas on cardinalities. `ReleaseCorrect` needs that main signals nobody before
the shift ends (`MainFollowsDoctor`), and `"registered"` not in `SpuriousWakeups`.

**PrinterProofs.** `QueueInv` counts: `mutex` and the threads inside the
critical section add up to one; `slots`, `items` and the threads between a wait
and the corresponding post add up to `QUEUE_SIZE`; `count` is the length of the
queue up to the threads that have moved an index and not yet the counter; `tail`
is `Length` places after `head`; the places between them hold stored jobs; and
what a thread has just stored or loaded is what the array holds; and what it has
loaded of an index or of `count` is what the field still holds when it stores
(`NothingLost`). `MutualExclusion`, `TypeOK`, `SlotsConserved`,
`QueueConsistent` and `PrintsRealJobs` follow.

**PrinterSpoolProofs.** With `QueueInv` every step of `Printer` is a step of
`PrintSpool` or a stutter (`SpoolImplemented`): moving `tail` appends the stored
job, moving `head` takes the oldest, the end of printing finishes it.

**MqChatProofs.** `RegistrationInv`: a client has at most one INIT on its way, and
none once it is listed (`AskedOnce`); a client that is not listed has an empty
queue, one that is being registered too, and one that waits for its id has that
id in front (`IdComesFirst`). So the answer always fits (`AnswerFits`) and is what
the client reads first (`IdCorrect`), for any number of clients and any length of
the queues.

`LinesInv`, on top of it, follows each line from the server's queue over the
broadcast to the streams of the clients (what each has shown, followed by what
is in its queue), which is what the three properties of the shown lines need. A
line carries the id of the client that typed it, wherever it is
(`LinesAttributed`); it is in one place only: waiting, being sent, or sent
(`InOnePlace`); the line being sent is the last in every stream that has it, and
only the clients in front of the loop index have it (`SendingIsNewest`); two
streams never contradict each other (`StreamsAgree`); and a client that has no
id yet has shown nothing (`NothingShown`). `OneOrder` alone is not inductive: a
line that is still waiting could have been delivered before. From it follow
`AttributionCorrect`, `NoEchoCorrect` and `OrderCorrect`.

**SignalProofs.** `AnswerInv`: a request is unsent, pending or handled, the counter
of the handler counts the handled ones, and what main has in `pid` was handled and
is unanswered until main is about to forget it. `AnswersCorrect` follows for
any set of senders and modes.

**ChatUdpProofs.** `TableInv` is inductive: `TypeOK`, `OneEntryPerName` and
`SlotIsTheSenders`, the strengthening that says what the main thread may rely on
between its critical sections: the slot it looked up holds an entry of its
sender or none. It holds because only the main thread fills slots and the
checker only empties them. `ChatTypeCorrect`, `OneEntryCorrect` and `StopCorrect`
follow, for any number of clients of one name and any faults.

`ProbeInv` adds what keeps a running client in the table. As long as no answer
was late and at most one datagram was lost (`AnswersInTime`), the entry of a
client that has not stopped is not older than it should be at this moment of the
checker's period (`Granted`: the ticks slept, nothing for a slot the checker has
passed, a period for one it has not), plus one period of `Grace` if a datagram
was lost; or the client `Owes` an answer, the probe or the acknowledgement being
on its way, and the entry is at most a period older. When time passes nobody owes
anything, so a debt never costs more than one period. It needs that entries bear
their sender's name (`EntriesAreSigned`), that a client's threads end only after
its `stop_flag` was set (`FlagComesFirst`), and that the checker scans at the end of
a period (`ScanIsDue`). `RunningCorrect` follows if `CLIENT_TIMEOUT` is at least twice
`ALIVE_CHECK_INTERVAL`: 65 and 30 in the code (`server.c` 14-15). That is the one
theorem about the table that needs more than `ChatUdpAssumption`, and it needs it:
with a timeout of one period one lost datagram drops a running client (TLC).

`LoggedStopCorrect` is about the property that `UdpStale` violates: if nobody types
a line of spaces (`"blank" \notin Typed`), it holds. The uninitialised `command` is
so the only cause.

**ChatTcpProofs.** `SessionInv` ties slots, handlers and descriptors together:
connections wait once and are accepted once (`Arrivals`); main holds a
descriptor or a slot that is nobody else's (`MainHolds`); slots and handlers
correspond one to one and each slot's descriptor is its handler's connection;
a free slot, and one whose handler is still at the name, bears no name
(`NoNameIsLeft`); names differ. Every step keeps it as long as the checker closes
no connection, and `timed_out` only grows, hence
`SessionsCorrect == Spec => [](NobodyTimedOut => SessionInv)`, and from it
`SeparationCorrect` and `NamesCorrect` for any number of clients and slots.

`TypeInv` types every variable, the streams and their messages included, and is
inductive by itself, before and after timeouts: `TypeCorrect`. `ServiceInv` is what
the lines and the handlers say of the session they belong to, and holds
together with `SessionInv` (`AlwaysServiceInv`):

- `OwnLines`: a handler reads its own connection, and what is on it was written by
  its client.
- `EndsAreClosed`: a client ends because its connection was closed or is about to
  be; one that is not accepted is in the backlog; one that is registered and
  still waits has its answer on the way.
- `NameComesFirst`: the first line of a connection is the name, or the STOP of a
  Ctrl+C that came before it, and that is the name of its slot later. A client
  that is called STOP is `Silent`: `flag` is set before its sending thread starts, so
  no line of its user is on the way and none will be. That is why it cannot send
  a chat line under a name that is not its own.
- `ChatIsSigned`: `LinesAreSigned`, which is inductive with the parts above.
- `StopIsPending`: the STOP of a client that is still served, or will be, is in its
  stream, or in its handler's hands as a command, or `ignored` has it.
- `ProbesAreCounted`: a slot is not older than the probes its client has swallowed,
  up to one that is on its way or an answer that is not executed yet.

They need each other: a line is signed because the slot of the handler that
writes it bears its client's name, which it does because that client's first
line was read by that handler. `SignaturesCorrect`, `DropsAreJustified`,
`AnswersCorrect` and `StopCorrect` follow. The last two also need that in a quiet
state (`Quiet`) every open connection has a handler that waits in `read`
(`QuietIsServed`).

**IntegrateProofs.** The loop's running position is replaced by multiples of a
worker's share, cut at the end of the range (`PiecesInv`); a result that is
announced is computed, and is the one of its piece (`ResultsInv`); what main has
added is the results up to its index (`TermsInv`). The rest is arithmetic.
`ResultsCorrect`, `PartsCorrect` and `CoverageCorrect` follow for all ranges,
widths and numbers of workers.

**Only model-checked.** All liveness (`Terminates`, `JobsKeepMoving`,
`EveryClientConnects`, `LinesReachEveryone`, `CalmRequestIsObeyed`,
`GhostsVanish`): TLAPS does not reason about fairness and ENABLED here. Every
safety invariant and action property of a passing run is a theorem. Induction
over data (what a recursive definition computes for every input) and modules
with RECURSIVE operators are out of the prover's reach; no module here declares
one.

## 5. Not modelled

- `printer.c`: creation and removal of the shared objects (`O_EXCL`, `cleanup`).
- `shutdown_server` of `lab12/server.c`, and that of `lab11/server.c` inside a
  critical section: it locks, in a signal handler, a mutex that the
  interrupted thread may hold. The models run it between critical sections or
  not at all.
- lab11: clients that are killed (`SIGPIPE` may then end the server), or end
  themselves because Ctrl+C between `socket` and `connect` writes to a socket that is
  not connected (`client.c` 73, 93-102). Failing `malloc` and `pthread_create`
  (`server.c` 275-281 and 285-288; the second leaves the descriptor open). Names of
  `NAME_LEN - 1` characters and texts of `BUFFER_SIZE - 1`: the first read takes no
  end of line with them (of such a name the server reads beyond what was written
  into `name_buffer`, line 57). That what is left of a text that was cut may itself
  read like a command. Texts that are only shown.
- lab12: the texts shown to users.
- `get_time_str` and all logging, argument parsing and system call failures at
  start, in every program.
- lab06/zad2 (`man.c`, `int.c`): one exchange of two programs started by hand,
  with no shared state.
- lab05/zad1, lab04, kol01: sequential programs, or a fork and a wait, with one
  order of events; there is nothing for a model to explore.
- lab02, lab03: pure functions of one line or one loop, of which a model would
  be a copy.
- kol2: an unfinished task, two that do not compile as committed, and a
  template without semaphore operations.

## 6. Plan

1. `OneOrder` as a refinement of a broadcast log that every client reads from
   its own place, which would also say that a registered client misses no line
   in between. It needs a history variable for the log: a line that reaches
   nobody leaves no trace in the state.
2. The start and end of `printer.c` as a module of its own around `Printer`.
3. A client of lab11 that is killed, once the peer's state is part of `files`.
