------------------------------- MODULE ChatTcp -------------------------------
(***************************************************************************)
(* The TCP chat of lab11.  The server's threads share a table of slots:    *)
(* main accepts a connection and gives it the first free slot, one handler *)
(* thread per connection reads its name and then its commands, the alive   *)
(* checker walks the table every ALIVE_CHECK_INTERVAL seconds, probes the  *)
(* clients and closes those that were silent for CLIENT_TIMEOUT.           *)
(*                                                                         *)
(* A handler knows its client only as a slot, and takes the descriptor out *)
(* of that slot for each read and write, without the mutex.  A descriptor  *)
(* is the smallest free one, as accept returns it, and read keeps the      *)
(* connection it was called on open even if the descriptor is closed       *)
(* meanwhile (Linux): the peer sees the end when the last read returned.   *)
(*                                                                         *)
(* A stream delivers what was written in order, and one read returns any   *)
(* number of the lines that are there: both programs act on the first one  *)
(* and drop the rest.  A read of the server that is full cuts the last line *)
(* it takes.  The first line is whole: names of 19 characters and texts of *)
(* 2047, which do not fit into one read with their ends, are left out.     *)
(* The client program closes its socket only after the server did, so that *)
(* no write meets a closed peer; clients that are killed are left out.     *)
(***************************************************************************)
EXTENDS Integers, Sequences, FiniteSets

CONSTANTS
  Clients,         \* the client processes; each connects once
  Name,            \* the name each was started with
  None,            \* no connection, no line
  MAX_CLIENTS,
  CLIENT_TIMEOUT,  \* in periods of the alive checker
  Typed,           \* what users type: a command and whom it is for
  MaxEvents,       \* bound: connections, lines typed, signals, periods
  Latecomers,      \* bound: clients that do not come when periods pass
  MayPressCtrlC,   \* the clients whose user may press Ctrl+C
  MayShutDown      \* may Ctrl+C end the server?

NoName == ""
NoSlot == -1
Names  == {Name[c] : c \in Clients}

(* What a client can write, and what is left of a line that a read has cut: *)
(* no command.                                                              *)
Texts == Names \cup {"STOP", "ALIVE_ACK", "rest"} \cup {t.text : t \in Typed}
Lines == [text : Texts, to : Names \cup {NoName}, by : Clients]

(* "2ALL" and "2ONE" stand for those commands with what they need behind    *)
(* them, and are no names; only 2ONE says for whom it is.  Nobody is called *)
(* STOP: who appears under that name has interrupted its own registration.  *)
ASSUME ChatTcpAssumption ==
  /\ IsFiniteSet(Clients) /\ Clients # {}
  /\ None \notin Clients /\ None \notin Lines
  /\ \A c \in Clients : Name[c] \notin {NoName, "2ALL", "2ONE", "STOP"}
  /\ MAX_CLIENTS \in Nat \ {0}
  /\ CLIENT_TIMEOUT \in Nat
  /\ \A t \in Typed : IF t.text = "2ONE" THEN t.to \in Names ELSE t.to = NoName
  /\ MaxEvents \in Nat
  /\ Latecomers \subseteq Clients
  /\ MayPressCtrlC \subseteq Clients
  /\ MayShutDown \in BOOLEAN

VARIABLES
  sockfd, active, name,  \* server: the table
  age,            \* server: the time since last_alive
  files,          \* server: the connection behind each open descriptor
  main,           \* server: where main is
  client_sockfd,  \* main: the descriptor accept returned
  main_idx,       \* main: the slot it filled
  newest,         \* main: the connection it accepted last
  accepted,       \* the connections accepted so far
  handler,        \* server: where each connection's handler thread is
  client_idx,     \* handlers: their slots
  reading,        \* handlers: the connection a pending read was called on
  buffer,         \* handlers: the first line that was read
  checker,        \* server: what the alive checker does
  next_slot,      \* checker: the slot it looks at next
  backlog,        \* connections waiting for accept
  inbox,          \* what each client has written and nobody has read
  outbox,         \* what was written to each client and it has not read
  client,         \* clients: where main and the receiver are
  flag,           \* clients: flag
  send_thread,    \* clients: where send_handler is
  time_passes,    \* bound: fixed at the start; if not, the checker sleeps
  events,         \* how often a user or the time has moved the system
  timed_out,      \* history: the connections the checker has closed
  ignored,        \* history: whose STOP was not written, or not read as a
                  \* command
  swallowed       \* history: probes each client read behind something else
                  \* since it last wrote

table    == <<sockfd, active, name, age>>
mainVars == <<main, client_sockfd, main_idx, newest, accepted, backlog>>
handlers == <<handler, client_idx, reading, buffer, ignored>>
checkers == <<time_passes, checker, next_slot, timed_out>>
users    == <<client, flag, send_thread, events, swallowed>>
vars     == <<table, files, mainVars, handlers, checkers, inbox, outbox, users>>

Slots == 0 .. MAX_CLIENTS - 1
Fds   == 0 .. Cardinality(Clients) - 1
Stale == CLIENT_TIMEOUT + 1

Line(text, to, c) == [text |-> text, to |-> to, by |-> c]
Say(kind)         == [kind |-> kind]

Event == events < MaxEvents /\ events' = events + 1

First(x, S) == x \in S /\ \A y \in S : x <= y

(* Neither a descriptor nor a pending read holds the connection any more.   *)
Closed(c) ==
  /\ c \in accepted
  /\ \A f \in Fds : files[f] # c
  /\ \A h \in Clients : reading[h] # c

Init ==
  /\ sockfd = [i \in Slots |-> 0] /\ active = [i \in Slots |-> FALSE]
  /\ name = [i \in Slots |-> NoName] /\ age = [i \in Slots |-> Stale]
  /\ files = [f \in Fds |-> None]
  /\ main = "accept" /\ client_sockfd = 0 /\ main_idx = 0
  /\ newest = None /\ accepted = {} /\ backlog = <<>>
  /\ handler = [c \in Clients |-> "none"]
  /\ client_idx = [c \in Clients |-> 0]
  /\ reading = [c \in Clients |-> None]
  /\ buffer = [c \in Clients |-> None]
  /\ ignored = {}
  /\ checker = "sleep" /\ next_slot = 0 /\ timed_out = {}
  /\ inbox = [c \in Clients |-> <<>>] /\ outbox = [c \in Clients |-> <<>>]
  /\ client = [c \in Clients |-> "start"]
  /\ flag = [c \in Clients |-> FALSE]
  /\ send_thread = [c \in Clients |-> "none"]
  /\ time_passes \in BOOLEAN /\ events = 0
  /\ swallowed = [c \in Clients |-> 0]

-----------------------------------------------------------------------------
(* What the server writes and closes.                                       *)

(* Mutant: the sender is not left out.                                      *)
MutantAllActive(idx) == {i \in Slots : active[i]}

ActiveBut(idx) == {i \in Slots \ {idx} : active[i]}

(* write to a descriptor that is not open does nothing.                     *)
WriteFd(f, msg) ==
  outbox' = [c \in Clients |-> IF files[f] = c /\ client[c] # "gone"
                               THEN Append(outbox[c], msg) ELSE outbox[c]]

(* The same to the descriptors of a set of slots.                           *)
WriteSlots(S, msg) ==
  outbox' = [c \in Clients |->
    LET copies == Cardinality({i \in S : files[sockfd[i]] = c})
    IN  IF client[c] = "gone" THEN outbox[c]
        ELSE outbox[c] \o [k \in 1..copies |-> msg]]

CloseFd(f)  == files' = [files EXCEPT ![f] = None]
FreeSlot(i) == active' = [active EXCEPT ![i] = FALSE]

-----------------------------------------------------------------------------
(* The server's main thread.                                                *)

Accept ==
  /\ main = "accept" /\ backlog # <<>>
  /\ \E f \in Fds :
       /\ First(f, {g \in Fds : files[g] = None})
       /\ files' = [files EXCEPT ![f] = Head(backlog)]
       /\ client_sockfd' = f
  /\ newest' = Head(backlog)
  /\ accepted' = accepted \cup {Head(backlog)}
  /\ backlog' = Tail(backlog)
  /\ main' = "place"
  /\ UNCHANGED <<table, main_idx, handlers, checkers, inbox, outbox, users>>

(* last_alive keeps what the slot's last client left there, or 0.           *)
PlaceInSlot ==
  /\ main = "place"
  /\ \E i \in Slots :
       /\ First(i, {j \in Slots : ~active[j]})
       /\ sockfd' = [sockfd EXCEPT ![i] = client_sockfd]
       /\ active' = [active EXCEPT ![i] = TRUE]
       /\ main_idx' = i
  /\ main' = "start"
  /\ UNCHANGED <<name, age, files, client_sockfd, newest, accepted, backlog,
                 handlers, checkers, inbox, outbox, users>>

(* The locals of the loop's body are forgotten.                             *)
NextTurn ==
  /\ main' = "accept"
  /\ client_sockfd' = 0 /\ main_idx' = 0 /\ newest' = None

(* Mutant: a connection for which there is no slot is neither answered nor  *)
(* closed.                                                                  *)
MutantDropsItSilently ==
  /\ main = "place"
  /\ \A i \in Slots : active[i]
  /\ NextTurn
  /\ UNCHANGED <<table, files, accepted, backlog, handlers, checkers, inbox,
                 outbox, users>>

RejectWhenFull ==
  /\ main = "place"
  /\ \A i \in Slots : active[i]
  /\ WriteFd(client_sockfd, Say("ERROR"))
  /\ CloseFd(client_sockfd)
  /\ NextTurn
  /\ UNCHANGED <<table, accepted, backlog, handlers, checkers, inbox, users>>

(* malloc and pthread_create succeed; what follows if not is left out.      *)
StartHandler ==
  /\ main = "start"
  /\ handler' = [handler EXCEPT ![newest] = "read_name"]
  /\ client_idx' = [client_idx EXCEPT ![newest] = main_idx]
  /\ NextTurn
  /\ UNCHANGED <<table, files, accepted, backlog, reading, buffer, ignored,
                 checkers, inbox, outbox, users>>

(* shutdown_server, in the main thread while it does not hold the mutex: the*)
(* process ends, and with it everything it had open.                        *)
ShutDown ==
  /\ MayShutDown /\ main # "off" /\ Event
  /\ main' = "off"
  /\ files' = [f \in Fds |-> None]
  /\ active' = [i \in Slots |-> FALSE]
  /\ handler' = [c \in Clients |-> "done"]
  /\ reading' = [c \in Clients |-> None]
  /\ buffer' = [c \in Clients |-> None]
  /\ checker' = "off"
  /\ WriteSlots(ActiveBut(NoSlot), Say("text"))
  /\ accepted' = Clients /\ backlog' = <<>>
  /\ UNCHANGED <<sockfd, name, age, client_sockfd, main_idx, newest, client_idx,
                 ignored, time_passes, next_slot, timed_out, inbox, client, flag,
                 send_thread, swallowed>>

-----------------------------------------------------------------------------
(* The handler thread of connection h.                                      *)

Goes(h, pc) == handler' = [handler EXCEPT ![h] = pc]
Forgets(h)  == buffer' = [buffer EXCEPT ![h] = None]
Fd(h)       == sockfd[client_idx[h]]

Waiting(pc)   == IF pc = "read_name" THEN "wait_name" ELSE "wait"
HasLine(pc)   == IF pc = "wait_name" THEN "register" ELSE "refresh"
NothingToRead(pc) == IF pc \in {"read_name", "wait_name"} THEN "quit" ELSE "leave"

(* read looks its descriptor up once, before it blocks.                     *)
CallRead(h) ==
  /\ handler[h] \in {"read_name", "read"}
  /\ reading' = [reading EXCEPT ![h] = files[Fd(h)]]
  /\ Goes(h, IF files[Fd(h)] = None THEN NothingToRead(handler[h])
             ELSE Waiting(handler[h]))
  /\ UNCHANGED <<table, files, mainVars, client_idx, buffer, ignored,
                 checkers, inbox, outbox, users>>

(* A read that is full takes the beginning of one more line: the name's has *)
(* 19 bytes, a command's 2047, which take a text of a user.                 *)
MayBeLong(l) == l.text \notin Names \cup {"STOP", "ALIVE_ACK"}

MayCut(h, q, n) ==
  /\ n < Len(q)
  /\ handler[h] = "wait_name" \/ \E k \in 1..n + 1 : MayBeLong(q[k])

Left(q, n, cut) ==
  LET left == SubSeq(q, n + 1, Len(q)) IN
  IF cut THEN <<[left[1] EXCEPT !.text = "rest", !.to = NoName]>> \o Tail(left)
         ELSE left

(* The lines that are taken and not executed: a name is not.                *)
Unheard(h, n, cut) ==
  (IF handler[h] = "wait_name" THEN 1 ELSE 2) .. (IF cut THEN n + 1 ELSE n)

(* The first of the lines that came is kept, the others are dropped.        *)
ReadReturns(h) ==
  /\ handler[h] \in {"wait_name", "wait"}
  /\ LET q == inbox[reading[h]] IN
     \/ /\ q = <<>> /\ client[reading[h]] = "gone"
        /\ Goes(h, NothingToRead(handler[h]))
        /\ UNCHANGED <<buffer, inbox, ignored>>
     \/ \E n \in 1 .. Len(q), cut \in BOOLEAN :
          /\ cut => MayCut(h, q, n)
          /\ buffer' = [buffer EXCEPT ![h] = Head(q)]
          /\ inbox' = [inbox EXCEPT ![reading[h]] = Left(q, n, cut)]
          /\ ignored' = ignored \cup
               {q[k].by : k \in {j \in Unheard(h, n, cut) : q[j].text = "STOP"}}
          /\ Goes(h, HasLine(handler[h]))
  /\ reading' = [reading EXCEPT ![h] = None]
  /\ UNCHANGED <<table, files, mainVars, client_idx, checkers, outbox, users>>

(* Mutant: the loop ends one slot too early.                                *)
MutantMissesLastSlot(n) ==
  \E i \in Slots : i + 1 \in Slots /\ active[i] /\ name[i] = n

NameTaken(n) == \E i \in Slots : active[i] /\ name[i] = n

(* Mutant: active is not reset.                                             *)
MutantKeepsTheSlot(h) ==
  /\ handler[h] = "register"
  /\ NameTaken(buffer[h].text)
  /\ WriteFd(Fd(h), Say("ERROR"))
  /\ CloseFd(Fd(h))
  /\ Goes(h, "done") /\ Forgets(h)
  /\ UNCHANGED <<table, mainVars, client_idx, reading, ignored, checkers, inbox,
                 users>>

RefuseName(h) ==
  /\ handler[h] = "register"
  /\ NameTaken(buffer[h].text)
  /\ WriteFd(Fd(h), Say("ERROR"))
  /\ CloseFd(Fd(h)) /\ FreeSlot(client_idx[h])
  /\ Goes(h, "done") /\ Forgets(h)
  /\ UNCHANGED <<sockfd, name, age, mainVars, client_idx, reading, ignored,
                 checkers, inbox, users>>

TakeName(h) ==
  /\ handler[h] = "register"
  /\ ~NameTaken(buffer[h].text)
  /\ name' = [name EXCEPT ![client_idx[h]] = buffer[h].text]
  /\ age' = [age EXCEPT ![client_idx[h]] = 0]
  /\ Goes(h, "welcome") /\ Forgets(h)
  /\ UNCHANGED <<sockfd, active, files, mainVars, client_idx, reading,
                 ignored, checkers, inbox, outbox, users>>

Welcome(h) ==
  /\ handler[h] = "welcome"
  /\ WriteFd(Fd(h), Say("OK"))
  /\ Goes(h, "join")
  /\ UNCHANGED <<table, files, mainVars, client_idx, reading, buffer, ignored,
                 checkers, inbox, users>>

AnnounceJoin(h) ==
  /\ handler[h] = "join"
  /\ WriteSlots(ActiveBut(client_idx[h]), Say("text"))
  /\ Goes(h, "read")
  /\ UNCHANGED <<table, files, mainVars, client_idx, reading, buffer, ignored,
                 checkers, inbox, users>>

Refresh(h) ==
  /\ handler[h] = "refresh"
  /\ age' = [age EXCEPT ![client_idx[h]] = 0]
  /\ Goes(h, "execute")
  /\ UNCHANGED <<sockfd, active, name, files, mainVars, client_idx, reading,
                 buffer, ignored, checkers, inbox, outbox, users>>

(* The name is read without the mutex, just before the critical section that*)
(* writes the line: one step here, as nobody but the handler itself changes *)
(* the name in its slot before the checker has closed a connection.         *)
Signed(h) ==
  [kind |-> "chat", from |-> name[client_idx[h]], to |-> buffer[h].to,
   by |-> buffer[h].by]

ToAll(h) ==
  /\ handler[h] = "execute" /\ buffer[h].text = "2ALL"
  /\ WriteSlots(ActiveBut(client_idx[h]), Signed(h))
  /\ Goes(h, "read") /\ Forgets(h)
  /\ UNCHANGED <<table, files, mainVars, client_idx, reading, ignored,
                 checkers, inbox, users>>

(* The first slot of that name, or the sender is told that there is none.   *)
ToOne(h) ==
  /\ handler[h] = "execute" /\ buffer[h].text = "2ONE"
  /\ LET found == {i \in Slots : active[i] /\ name[i] = buffer[h].to} IN
       \/ \E i \in Slots : First(i, found) /\ WriteFd(sockfd[i], Signed(h))
       \/ found = {} /\ WriteFd(Fd(h), Say("text"))
  /\ Goes(h, "read") /\ Forgets(h)
  /\ UNCHANGED <<table, files, mainVars, client_idx, reading, ignored,
                 checkers, inbox, users>>

(* LIST and unknown commands are answered, ALIVE_ACK is not.                *)
Respond(h) ==
  /\ handler[h] = "execute"
  /\ buffer[h].text \notin {"2ALL", "2ONE", "STOP"}
  /\ IF buffer[h].text = "ALIVE_ACK" THEN UNCHANGED outbox
                                     ELSE WriteFd(Fd(h), Say("text"))
  /\ Goes(h, "read") /\ Forgets(h)
  /\ UNCHANGED <<table, files, mainVars, client_idx, reading, ignored,
                 checkers, inbox, users>>

Stop(h) ==
  /\ handler[h] = "execute" /\ buffer[h].text = "STOP"
  /\ Goes(h, "leave") /\ Forgets(h)
  /\ UNCHANGED <<table, files, mainVars, client_idx, reading, ignored,
                 checkers, inbox, outbox, users>>

(* Mutant: close is forgotten.                                              *)
MutantLeavesItOpen(h) ==
  /\ handler[h] \in {"quit", "leave"}
  /\ FreeSlot(client_idx[h])
  /\ name' = [name EXCEPT ![client_idx[h]] = NoName]
  /\ Goes(h, IF handler[h] = "quit" THEN "done" ELSE "left")
  /\ UNCHANGED <<sockfd, age, files, mainVars, client_idx, reading, buffer,
                 ignored, checkers, inbox, outbox, users>>

RemoveClient(h) ==
  /\ handler[h] \in {"quit", "leave"}
  /\ IF active[client_idx[h]]
     THEN /\ CloseFd(Fd(h)) /\ FreeSlot(client_idx[h])
          /\ name' = [name EXCEPT ![client_idx[h]] = NoName]
     ELSE UNCHANGED <<files, active, name>>
  /\ Goes(h, IF handler[h] = "quit" THEN "done" ELSE "left")
  /\ UNCHANGED <<sockfd, age, mainVars, client_idx, reading, buffer, ignored,
                 checkers, inbox, outbox, users>>

AnnounceLeft(h) ==
  /\ handler[h] = "left"
  /\ WriteSlots(ActiveBut(NoSlot), Say("text"))
  /\ Goes(h, "done")
  /\ UNCHANGED <<table, files, mainVars, client_idx, reading, buffer, ignored,
                 checkers, inbox, users>>

-----------------------------------------------------------------------------
(* The alive checker.                                                       *)

(* A period is long: when the checker wakes up again, every probe has been  *)
(* answered and every registered handler is back in read; only connections  *)
(* that are being set up may be caught in the middle.                       *)
Settled(h) ==
  \/ handler[h] \in {"none", "read_name", "wait_name", "register", "done"}
  \/ handler[h] = "wait" /\ inbox[reading[h]] = <<>>

PeriodIsOver ==
  \A c \in Clients :
    Settled(c) /\ \A k \in DOMAIN outbox[c] : outbox[c][k] # Say("ALIVE")

WakeUp ==
  /\ checker = "sleep" /\ time_passes /\ PeriodIsOver /\ Event
  /\ checker' = "scan" /\ next_slot' = 0
  /\ age' = [i \in Slots |-> IF age[i] < Stale THEN age[i] + 1 ELSE Stale]
  /\ UNCHANGED <<sockfd, active, name, files, mainVars, handlers, time_passes,
                 timed_out, inbox, outbox, client, flag, send_thread,
                 swallowed>>

(* Mutant: >= for >.                                                        *)
MutantDropsOnTheTimeout(i) == active[i] /\ age[i] >= CLIENT_TIMEOUT

(* Counted in whole periods: the least that a silent client is granted.     *)
Expired(i) == active[i] /\ age[i] > CLIENT_TIMEOUT

(* One critical section: up to the first client that is dropped, for whose  *)
(* announcement the mutex is released, or to the end of the table.          *)
Scan ==
  /\ checker = "scan"
  /\ \/ \E i \in next_slot .. MAX_CLIENTS - 1 :
          /\ First(i, {j \in next_slot .. MAX_CLIENTS - 1 : Expired(j)})
          /\ WriteSlots({j \in next_slot .. i - 1 : active[j]}, Say("ALIVE"))
          /\ CloseFd(sockfd[i]) /\ FreeSlot(i)
          /\ name' = [name EXCEPT ![i] = NoName]
          /\ timed_out' = timed_out \cup {files[sockfd[i]]}
          /\ checker' = "announce" /\ next_slot' = i + 1
     \/ /\ \A i \in next_slot .. MAX_CLIENTS - 1 : ~Expired(i)
        /\ WriteSlots({j \in next_slot .. MAX_CLIENTS - 1 : active[j]}, Say("ALIVE"))
        /\ checker' = "sleep" /\ next_slot' = 0
        /\ UNCHANGED <<active, name, files, timed_out>>
  /\ UNCHANGED <<sockfd, age, mainVars, handlers, time_passes, inbox, users>>

(* Mutant: the loop's variable moves on once more.                          *)
MutantSkipsASlot ==
  /\ checker = "announce"
  /\ WriteSlots(ActiveBut(NoSlot), Say("text"))
  /\ checker' = "scan" /\ next_slot' = next_slot + 1
  /\ UNCHANGED <<table, files, mainVars, handlers, time_passes, timed_out,
                 inbox, users>>

AnnounceTimeout ==
  /\ checker = "announce"
  /\ WriteSlots(ActiveBut(NoSlot), Say("text"))
  /\ checker' = "scan"
  /\ UNCHANGED <<table, files, mainVars, handlers, time_passes, next_slot,
                 timed_out, inbox, users>>

-----------------------------------------------------------------------------
(* A client.                                                                *)

(* Probes that are not the first thing a read returns go unnoticed.         *)
Writes(c, l) == inbox' = [inbox EXCEPT ![c] = Append(@, l)]
Hides(c, n)  == \E k \in 2..n : outbox[c][k] = Say("ALIVE")
OneMore(k)   == IF k < CLIENT_TIMEOUT THEN k + 1 ELSE k
Swallows(c, n) ==
  swallowed' = [swallowed EXCEPT ![c] =
    IF Head(outbox[c]) = Say("ALIVE") THEN 0
    ELSE IF Hides(c, n) THEN OneMore(@) ELSE @]

Connect(c) ==
  /\ client[c] = "start" /\ Event
  /\ ~(time_passes /\ c \in Latecomers)
  /\ IF main = "off"
     THEN client' = [client EXCEPT ![c] = "gone"] /\ UNCHANGED backlog
     ELSE /\ client' = [client EXCEPT ![c] = "connected"]
          /\ backlog' = Append(backlog, c)
  /\ UNCHANGED <<table, files, main, client_sockfd, main_idx, newest,
                 accepted, handlers, checkers, inbox, outbox, flag, send_thread,
                 swallowed>>

WriteName(c) ==
  /\ client[c] = "connected"
  /\ client' = [client EXCEPT ![c] = "await"]
  /\ Writes(c, Line(Name[c], NoName, c))
  /\ UNCHANGED <<table, files, mainVars, handlers, checkers, outbox, flag,
                 send_thread, events, swallowed>>

(* Whatever does not begin with ERROR is taken for the welcome.             *)
GetReply(c) ==
  /\ client[c] = "await"
  /\ \E n \in 1 .. Len(outbox[c]) :
       IF Head(outbox[c]) = Say("ERROR")
       THEN /\ client' = [client EXCEPT ![c] = "gone"]
            /\ outbox' = [outbox EXCEPT ![c] = <<>>]
            /\ UNCHANGED <<send_thread, swallowed>>
       ELSE /\ client' = [client EXCEPT ![c] = "running"]
            /\ outbox' = [outbox EXCEPT ![c] = SubSeq(@, n + 1, Len(@))]
            /\ send_thread' = [send_thread EXCEPT ![c] =
                                 IF flag[c] THEN "over" ELSE "fgets"]
            /\ swallowed' = [swallowed EXCEPT ![c] =
                 IF \E k \in 1..n : outbox[c][k] = Say("ALIVE") THEN OneMore(@) ELSE @]
  /\ UNCHANGED <<table, files, mainVars, handlers, checkers, inbox, flag,
                 events>>

(* receive_handler looks for ALIVE at the beginning of what it read.        *)
Receive(c) ==
  /\ client[c] = "running"
  /\ \E n \in 1 .. Len(outbox[c]) :
       /\ outbox' = [outbox EXCEPT ![c] = SubSeq(@, n + 1, Len(@))]
       /\ Swallows(c, n)
  /\ IF Head(outbox[c]) = Say("ALIVE") THEN Writes(c, Line("ALIVE_ACK", NoName, c))
                                       ELSE UNCHANGED inbox
  /\ UNCHANGED <<table, files, mainVars, handlers, checkers, client, flag,
                 send_thread, events>>

(* The end of the stream, or a reset if the server had not read everything. *)
ConnectionEnds(c) ==
  /\ client[c] \in {"await", "running"}
  /\ Closed(c)
  /\ outbox[c] = <<>> \/ inbox[c] # <<>>
  /\ client' = [client EXCEPT ![c] = "gone"]
  /\ inbox' = [inbox EXCEPT ![c] = <<>>] /\ outbox' = [outbox EXCEPT ![c] = <<>>]
  /\ UNCHANGED <<table, files, mainVars, handlers, checkers, flag,
                 send_thread, events, swallowed>>

Reads(c) == client[c] = "running" /\ send_thread[c] = "fgets"

(* What was typed is sent even if flag was set meanwhile.                   *)
TypeLine(c) ==
  /\ Reads(c) /\ Event
  /\ \E t \in Typed : Writes(c, Line(t.text, t.to, c))
  /\ send_thread' = [send_thread EXCEPT ![c] = IF flag[c] THEN "over" ELSE @]
  /\ swallowed' = [swallowed EXCEPT ![c] = 0]
  /\ UNCHANGED <<table, files, mainVars, handlers, checkers, outbox, client,
                 flag>>

(* An empty line is skipped: only the loop's test sees flag.                *)
TypeNothing(c) ==
  /\ Reads(c) /\ flag[c]
  /\ send_thread' = [send_thread EXCEPT ![c] = "over"]
  /\ UNCHANGED <<table, files, mainVars, handlers, checkers, inbox, outbox,
                 client, flag, events, swallowed>>

(* STOP is typed, or the input ends.                                        *)
EndInput(c) ==
  /\ Reads(c) /\ Event
  /\ flag' = [flag EXCEPT ![c] = TRUE]
  /\ send_thread' = [send_thread EXCEPT ![c] = "over"]
  /\ Writes(c, Line("STOP", NoName, c))
  /\ UNCHANGED <<table, files, mainVars, handlers, checkers, outbox, client,
                 swallowed>>

(* handle_sigint (bound: once); fgets is restarted and waits for its line.  *)
(* It is installed before there is a socket: the first signals write        *)
(* nothing, later ones may write STOP before main has written the name.     *)
CtrlC(c) ==
  /\ c \in MayPressCtrlC /\ ~flag[c] /\ Event
  /\ flag' = [flag EXCEPT ![c] = TRUE]
  /\ \/ /\ client[c] = "start"
        /\ ignored' = ignored \cup {c} /\ UNCHANGED inbox
     \/ /\ client[c] \in {"connected", "await", "running"}
        /\ Writes(c, Line("STOP", NoName, c)) /\ UNCHANGED ignored
  /\ UNCHANGED <<table, files, mainVars, handler, client_idx, reading, buffer,
                 checkers, outbox, client, send_thread, swallowed>>

-----------------------------------------------------------------------------
MainStep == Accept \/ PlaceInSlot \/ RejectWhenFull \/ StartHandler

HandlerStep(h) ==
  \/ CallRead(h) \/ ReadReturns(h)
  \/ RefuseName(h) \/ TakeName(h) \/ Welcome(h) \/ AnnounceJoin(h)
  \/ Refresh(h) \/ ToAll(h) \/ ToOne(h) \/ Respond(h) \/ Stop(h)
  \/ RemoveClient(h) \/ AnnounceLeft(h)

CheckerStep == WakeUp \/ Scan \/ AnnounceTimeout

(* What a client does by itself.                                            *)
ClientStep(c) ==
  WriteName(c) \/ GetReply(c) \/ Receive(c) \/ ConnectionEnds(c)

UserStep(c) ==
  Connect(c) \/ TypeLine(c) \/ TypeNothing(c) \/ EndInput(c) \/ CtrlC(c)

Next ==
  \/ MainStep \/ ShutDown
  \/ CheckerStep
  \/ \E c \in Clients : HandlerStep(c) \/ ClientStep(c) \/ UserStep(c)

Spec == Init /\ [][Next]_vars

-----------------------------------------------------------------------------
TypeOK ==
  /\ sockfd \in [Slots -> Fds] /\ active \in [Slots -> BOOLEAN]
  /\ name \in [Slots -> Texts \cup {NoName}]
  /\ age \in [Slots -> 0..Stale]
  /\ files \in [Fds -> Clients \cup {None}]
  /\ main \in {"accept", "place", "start", "off"}
  /\ client_sockfd \in Fds /\ main_idx \in Slots
  /\ newest \in Clients \cup {None} /\ accepted \subseteq Clients
  /\ client_idx \in [Clients -> Slots]
  /\ reading \in [Clients -> Clients \cup {None}]
  /\ checker \in {"sleep", "scan", "announce", "off"}
  /\ next_slot \in 0..MAX_CLIENTS
  /\ timed_out \subseteq Clients \cup {None} /\ ignored \subseteq Clients
  /\ flag \in [Clients -> BOOLEAN]
  /\ swallowed \in [Clients -> 0..CLIENT_TIMEOUT]
  /\ \A c \in Clients :
       /\ client[c] \in {"start", "connected", "await", "running", "gone"}
       /\ send_thread[c] \in {"none", "fgets", "over"}
       /\ handler[c] \in {"none", "read_name", "wait_name", "register",
                         "welcome", "join", "read", "wait", "refresh",
                         "execute", "quit", "leave", "left", "done"}
       /\ buffer[c] # None <=> handler[c] \in {"register", "refresh", "execute"}
       /\ reading[c] # None <=> handler[c] \in {"wait_name", "wait"}

(* Once the checker has closed a connection, its handler goes on with the   *)
(* slot and the descriptor it had, whoever has them now (server.c:79): what *)
(* follows speaks of the time before.                                       *)
NobodyTimedOut == timed_out = {}

Serves(c, i) ==
  \/ handler[c] \notin {"none", "left", "done"} /\ client_idx[c] = i
  \/ main = "start" /\ newest = c /\ main_idx = i

SlotHasOneHandler ==
  \A i \in Slots : active[i] =>
    \E c \in Clients : /\ Serves(c, i) /\ files[sockfd[i]] = c
                      /\ \A d \in Clients \ {c} : ~Serves(d, i)

HandlerHasItsSlot ==
  \A c \in Clients : \A i \in Slots : Serves(c, i) => active[i]

DescriptorIsInTable ==
  \A f \in Fds : files[f] # None =>
    \/ main = "place" /\ f = client_sockfd
    \/ \E i \in Slots : active[i] /\ sockfd[i] = f

(* A slot in use belongs to one handler, or to the one main is about to     *)
(* start, and holds an open descriptor of that handler's connection; no     *)
(* descriptor is left open outside the table: what main and the handlers    *)
(* write between their critical sections (server.c:63,79,280) is theirs.    *)
SessionsAreSeparate ==
  NobodyTimedOut =>
    SlotHasOneHandler /\ HandlerHasItsSlot /\ DescriptorIsInTable

(* Two handlers that have read the same name do not both take it, whatever  *)
(* came between the read and the lock (server.c:53-70).                     *)
NamesDiffer ==
  \A i, j \in Slots :
    active[i] /\ active[j] /\ name[i] = name[j] /\ name[i] # NoName => i = j

NamesAreUnique == NobodyTimedOut => NamesDiffer

(* A line reaches nobody but whom it is for, and not its author, and bears  *)
(* the name of the one that typed it: handlers read the name from the table *)
(* without the mutex, and slots change hands (server.c:112,132,135).        *)
LinesAreSigned ==
  NobodyTimedOut =>
    \A c \in Clients : \A k \in DOMAIN outbox[c] :
      outbox[c][k].kind = "chat" =>
        /\ outbox[c][k].from = Name[outbox[c][k].by]
        /\ IF outbox[c][k].to = NoName THEN outbox[c][k].by # c
                                       ELSE outbox[c][k].to = Name[c]

(* The first client that the checker drops did not answer: it was still     *)
(* being set up, nothing having marked it alive (server.c:175,271), or      *)
(* something it wrote is not executed yet, or it has read as many probes    *)
(* behind other texts as it takes (client.c:24).                            *)
DroppedWereSilent ==
  [][timed_out = {} =>
       \A c \in timed_out' :
         \/ handler[c] \in {"none", "read_name", "wait_name", "register"}
         \/ inbox[c] # <<>> \/ handler[c] = "refresh"
         \/ swallowed[c] >= CLIENT_TIMEOUT]_vars

(* Nothing moves any more until a user or the clock does something.         *)
Quiet ==
  /\ main = "accept" /\ backlog = <<>> /\ checker = "sleep"
  /\ \A h \in Clients :
       \/ handler[h] \in {"none", "done"}
       \/ /\ handler[h] \in {"wait_name", "wait"}
          /\ inbox[reading[h]] = <<>> /\ client[reading[h]] # "gone"
  /\ \A c \in Clients :
       /\ outbox[c] = <<>> /\ client[c] # "connected"
       /\ Closed(c) => client[c] = "gone"

(* A client is not left without an answer to its name (client.c:110).  (The *)
(* handler of a dropped client may read the name of the one that has its    *)
(* slot now, take it for a command and not answer: server.c:83, 155.)       *)
NobodyWaitsInVain ==
  Quiet /\ NobodyTimedOut => \A c \in Clients : client[c] # "await"

(* Who typed STOP or pressed Ctrl+C is let go (server.c:155), unless the    *)
(* server never saw the STOP as a command: it was read behind another line  *)
(* (server.c:83), taken for the name or cut by the read of the name         *)
(* (server.c:53), or there was no socket yet to write it to (client.c:73).  *)
StopIsObeyed ==
  Quiet /\ NobodyTimedOut =>
    \A c \in Clients : flag[c] => client[c] = "gone" \/ c \in ignored
=============================================================================
