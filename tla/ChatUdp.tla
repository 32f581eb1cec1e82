------------------------------ MODULE ChatUdp ------------------------------
(***************************************************************************)
(* The UDP chat of lab12: a server that keeps a table of the clients it    *)
(* has heard from, and clients that type lines, answer the server's ALIVE  *)
(* probes and leave with STOP, with Ctrl+C or at the end of their input.   *)
(*                                                                         *)
(* The server has two threads.  The main thread receives one datagram at a *)
(* time and processes it in several critical sections; the alive checker   *)
(* sleeps, then walks the table, probing the clients that are in it and    *)
(* dropping those it has not heard from for CLIENT_TIMEOUT, with the mutex *)
(* released while it announces each one.  A client has a sending and a     *)
(* receiving thread and a signal handler.                                  *)
(*                                                                         *)
(* Datagrams may be reordered, and MaxFaults times one is lost or doubled, *)
(* or an answer comes later than the next probe.                           *)
(* The lines LIST, 2ALL and 2ONE change nothing but what others read on    *)
(* their screens: they are all "text".  What the server sends to a client  *)
(* is modelled as far as the client acts on it: an ALIVE is answered.      *)
(***************************************************************************)
EXTENDS Integers

CONSTANTS
  Clients,              \* client processes, each with an address of its own
  Name,                 \* the name each was started with
  MAX_CLIENTS,          \* slots of the server's table
  ALIVE_CHECK_INTERVAL, \* ticks the checker sleeps
  CLIENT_TIMEOUT,       \* ticks of silence after which a client is dropped
  Typed,                \* what users type: STOP, a line of spaces, anything else
  MaxLines,             \* bound: lines typed, by all users
  Faults,               \* what may go wrong: datagrams "lost" or "doubled",
                        \* answers that come after the next probe, "late"
  MaxFaults             \* bound: how often

Names == {Name[c] : c \in Clients}

ASSUME ChatUdpAssumption ==
  /\ Name \in [Clients -> Names]
  /\ Typed \subseteq {"text", "blank", "STOP"}
  /\ MAX_CLIENTS \in Nat \ {0}
  /\ ALIVE_CHECK_INTERVAL \in Nat \ {0}
  /\ CLIENT_TIMEOUT \in Nat
  /\ Faults \subseteq {"lost", "doubled", "late"}
  /\ MaxLines \in Nat /\ MaxFaults \in Nat

VARIABLES
  clients,     \* server: the table, each slot vacant or [name, addr, age]
  main,        \* server: where the main thread is
  datagram,    \* server: the datagram being processed
  client_idx,  \* server: the slot found or filled for its sender
  command,     \* server: what the stack holds where process_message keeps command
  checker,     \* server: 0 when the checker sleeps, else the slot it looks at next
  slept,       \* server: ticks the checker has slept
  stop_flag,   \* clients: stop_flag
  send_thread, \* clients: where send_handler is
  recv_thread, \* clients: where receive_handler is
  lines,       \* clients: lines typed so far, by all users
  to_server,   \* datagrams on their way to the server
  to_client,   \* clients with an ALIVE on its way to them
  lost,        \* datagrams lost so far
  doubled,     \* datagrams doubled so far
  late         \* ticks that passed while somebody owed an answer

server  == <<clients, main, datagram, client_idx, command, checker, slept>>
clocks  == <<checker, slept>>
users   == <<stop_flag, send_thread, recv_thread, lines>>
network == <<to_server, to_client, lost, doubled>>
vars    == <<server, users, network, late>>

Slots == 1..MAX_CLIENTS

(* A slot with active = 0: nothing else in it is read before it is filled. *)
Vacant == [active |-> FALSE]

Entry(n, a, t) == [active |-> TRUE, name |-> n, addr |-> a, age |-> t]

Datagrams == [from : Clients, command : {"text", "blank", "STOP", "ALIVE_ACK"}]

Init ==
  /\ clients = [i \in Slots |-> Vacant]
  /\ main = "receive" /\ datagram = {} /\ client_idx = 0 /\ command = "other"
  /\ checker = 0 /\ slept = 0
  /\ stop_flag = [c \in Clients |-> FALSE]
  /\ send_thread = [c \in Clients |-> "start"]
  /\ recv_thread = [c \in Clients |-> "receive"]
  /\ lines = 0
  /\ to_server = {} /\ to_client = {} /\ lost = 0 /\ doubled = 0
  /\ late = 0

MayFail(fault) == fault \in Faults /\ lost + doubled + late < MaxFaults

-----------------------------------------------------------------------------
(* The server's main thread.                                               *)

(* What sscanf leaves in command, an array nobody initialises: a line of   *)
(* spaces gives it nothing, and the test for < 1 field lets that pass, so  *)
(* it keeps what an earlier call left on the stack, if that is still there.*)
(* Only STOP changes the server's state, so other commands are one value.  *)
ReadCommand(typed) ==
  CASE typed = "STOP"  -> {"STOP"}
    [] typed = "blank" -> {command, "other"}
    [] OTHER           -> {"other"}

(* Mutant: the lookup does not compare names.                             *)
MutantFindsAnyClient(i, n) == clients[i].active

(* Mutant: the lookup takes the table for one without gaps.               *)
MutantLooksInCompactTable(i, n) ==
  /\ clients[i].active /\ clients[i].name = n
  /\ \A k \in 1..i : clients[k].active

(* Slot i holds an active client called n.                                 *)
Holds(i, n) == clients[i].active /\ clients[i].name = n

(* The loops of process_message stop at the first slot that will do.       *)
First(i, S) == i \in S /\ \A j \in S : i <= j

Known(i, n) == First(i, {j \in Slots : Holds(j, n)})

FreeSlot(i) == First(i, {j \in Slots : ~clients[j].active})

Register(i, d) ==
  clients' = [clients EXCEPT ![i] = Entry(Name[d.from], d.from, 0)]

(* Address and time are those of the latest datagram under the name.       *)
Refresh(i, d) ==
  clients' = [clients EXCEPT ![i] = Entry(@.name, d.from, 0)]

(* recvfrom and the first critical section of process_message.  The        *)
(* datagram is consumed, or it was doubled and is still on its way.        *)
MainReceives(d) ==
  /\ main = "receive"
  /\ d \in to_server
  /\ \/ to_server' = to_server \ {d} /\ UNCHANGED doubled
     \/ MayFail("doubled") /\ doubled' = doubled + 1 /\ UNCHANGED to_server
  /\ command' \in ReadCommand(d.command)
  /\ \/ \E i \in Slots :
          /\ Known(i, Name[d.from])
          /\ Refresh(i, d)
          /\ main' = "dispatch" /\ datagram' = {d} /\ client_idx' = i
     \/ /\ \A i \in Slots : ~Holds(i, Name[d.from])
        /\ \E i \in Slots :
             /\ FreeSlot(i)
             /\ Register(i, d)
             /\ main' = "join" /\ datagram' = {d} /\ client_idx' = i
     \/ /\ \A i \in Slots : ~Holds(i, Name[d.from]) /\ clients[i].active
        /\ UNCHANGED <<clients, main, datagram, client_idx>>
  /\ UNCHANGED <<clocks, users, to_client, lost, late>>

(* The mutex is released for the announcement of a new client.             *)
MainAnnouncesJoin ==
  /\ main = "join"
  /\ main' = "dispatch"
  /\ UNCHANGED <<clients, datagram, client_idx, command, clocks, users,
                 network, late>>

MainReturns ==
  main' = "receive" /\ datagram' = {} /\ client_idx' = 0

(* STOP frees the slot looked up in the first critical section.            *)
MainHandlesStop ==
  /\ main = "dispatch" /\ command = "STOP"
  /\ clients' = [clients EXCEPT ![client_idx] = Vacant]
  /\ MainReturns
  /\ UNCHANGED <<command, clocks, users, network, late>>

(* LIST, 2ALL, 2ONE, ALIVE_ACK and everything else.                        *)
MainHandlesOther ==
  /\ main = "dispatch" /\ command # "STOP"
  /\ MainReturns
  /\ UNCHANGED <<clients, command, clocks, users, network, late>>

-----------------------------------------------------------------------------
(* The server's alive checker.                                             *)

(* Mutant: >= in place of >.                                              *)
MutantDropsOnTheTimeout(i) == clients[i].active /\ clients[i].age >= CLIENT_TIMEOUT

(* Mutant: the comparison never holds (last_alive is refreshed by ALIVE). *)
MutantNeverExpires(i) == FALSE

(* current_time - last_alive > CLIENT_TIMEOUT, for an active client.       *)
Expired(i) == clients[i].active /\ clients[i].age > CLIENT_TIMEOUT

(* An ALIVE to each of these slots' clients that still has a reader.       *)
Probe(S) ==
  to_client' = to_client \cup
     {c \in Clients : /\ recv_thread[c] # "done"
                      /\ \E i \in S : clients[i].active /\ clients[i].addr = c}

Drop(k) == clients' = [clients EXCEPT ![k] = Vacant]

(* One critical section of the checker: from where it is to the first      *)
(* client it drops, for whose announcement it releases the mutex, or to    *)
(* the end of the table, after which it sleeps.                            *)
CheckerScans ==
  LET first == IF checker = 0 THEN 1 ELSE checker IN
  /\ checker # 0 \/ slept = ALIVE_CHECK_INTERVAL
  /\ \/ \E k \in first..MAX_CLIENTS :
          /\ Expired(k)
          /\ \A i \in first..(k - 1) : ~Expired(i)
          /\ Probe(first..(k - 1))
          /\ Drop(k)
          /\ checker' = k + 1
          /\ UNCHANGED slept
     \/ /\ \A i \in first..MAX_CLIENTS : ~Expired(i)
        /\ Probe(first..MAX_CLIENTS)
        /\ checker' = 0 /\ slept' = 0
        /\ UNCHANGED clients
  /\ UNCHANGED <<main, datagram, client_idx, command, users, to_server, lost,
                 doubled, late>>

(* Nobody has anything to answer.                                          *)
Quiet ==
  /\ main = "receive" /\ to_server = {} /\ to_client = {}
  /\ \A c \in Clients : recv_thread[c] # "ack"

(* Time passes while the checker sleeps.  Ages beyond the timeout are one. *)
Tick ==
  /\ checker = 0 /\ slept < ALIVE_CHECK_INTERVAL
  /\ slept' = slept + 1
  /\ clients' = [i \in Slots |->
                   IF clients[i].active /\ clients[i].age <= CLIENT_TIMEOUT
                   THEN Entry(clients[i].name, clients[i].addr, clients[i].age + 1)
                   ELSE clients[i]]
  /\ \/ Quiet /\ UNCHANGED late
     \/ ~Quiet /\ MayFail("late") /\ late' = late + 1
  /\ UNCHANGED <<main, datagram, client_idx, command, checker, users, network>>

-----------------------------------------------------------------------------
(* A client.                                                               *)

Send(c, cmd) == to_server' = to_server \cup {[from |-> c, command |-> cmd]}

(* The test of stop_flag at the head of send_handler's loop.               *)
NextLine(c, stop) ==
  send_thread' = [send_thread EXCEPT ![c] = IF stop THEN "done" ELSE "fgets"]

(* send_handler announces the client with LIST before its loop.            *)
ClientStarts(c) ==
  /\ send_thread[c] = "start"
  /\ Send(c, "text")
  /\ NextLine(c, stop_flag[c])
  /\ UNCHANGED <<server, stop_flag, recv_thread, lines, to_client, lost,
                 doubled, late>>

(* A line is sent whatever stop_flag has become during fgets.              *)
Types(c, cmd) ==
  /\ send_thread[c] = "fgets" /\ lines < MaxLines
  /\ lines' = lines + 1
  /\ Send(c, cmd)
  /\ stop_flag' = [stop_flag EXCEPT ![c] = @ \/ cmd = "STOP"]
  /\ NextLine(c, stop_flag'[c])
  /\ UNCHANGED <<server, recv_thread, to_client, lost, doubled, late>>

(* An empty line is skipped: it only lets the loop see stop_flag.          *)
TypesNothing(c) ==
  /\ send_thread[c] = "fgets" /\ stop_flag[c]
  /\ NextLine(c, TRUE)
  /\ UNCHANGED <<server, stop_flag, recv_thread, lines, network, late>>

(* fgets returns NULL: the client leaves without a STOP.                   *)
EndOfInput(c) ==
  /\ send_thread[c] = "fgets"
  /\ stop_flag' = [stop_flag EXCEPT ![c] = TRUE]
  /\ NextLine(c, TRUE)
  /\ UNCHANGED <<server, recv_thread, lines, network, late>>

(* handle_sigint: STOP is sent; fgets is restarted and waits for its line. *)
CtrlC(c) ==
  /\ ~stop_flag[c] /\ send_thread[c] # "done"
  /\ stop_flag' = [stop_flag EXCEPT ![c] = TRUE]
  /\ Send(c, "STOP")
  /\ UNCHANGED <<server, send_thread, recv_thread, lines, to_client, lost,
                 doubled, late>>

(* receive_handler takes an ALIVE out of the socket.                       *)
GetsAlive(c) ==
  /\ recv_thread[c] = "receive" /\ c \in to_client
  /\ recv_thread' = [recv_thread EXCEPT ![c] = "ack"]
  /\ to_client' = to_client \ {c}
  /\ UNCHANGED <<server, stop_flag, send_thread, lines, to_server, lost,
                 doubled, late>>

(* It answers, and only then looks at stop_flag.                           *)
SendsAck(c) ==
  /\ recv_thread[c] = "ack"
  /\ Send(c, "ALIVE_ACK")
  /\ recv_thread' = [recv_thread EXCEPT ![c] =
                       IF stop_flag[c] THEN "done" ELSE "receive"]
  /\ to_client' = IF stop_flag[c] THEN to_client \ {c} ELSE to_client
  /\ UNCHANGED <<server, stop_flag, send_thread, lines, lost, doubled, late>>

(* A chat line, from whomever, lets it see stop_flag.                      *)
GetsText(c) ==
  /\ recv_thread[c] = "receive" /\ stop_flag[c]
  /\ recv_thread' = [recv_thread EXCEPT ![c] = "done"]
  /\ to_client' = to_client \ {c}
  /\ UNCHANGED <<server, stop_flag, send_thread, lines, to_server, lost,
                 doubled, late>>

(* Mutant: the socket is not closed.                                      *)
MutantLeavesSocketOpen(c) ==
  /\ send_thread[c] = "done" /\ recv_thread[c] # "done"
  /\ recv_thread' = [recv_thread EXCEPT ![c] = "done"]
  /\ UNCHANGED <<server, stop_flag, send_thread, lines, network, late>>

(* main joins the sending thread, cancels the other and closes the socket. *)
ClientEnds(c) ==
  /\ send_thread[c] = "done" /\ recv_thread[c] # "done"
  /\ recv_thread' = [recv_thread EXCEPT ![c] = "done"]
  /\ to_client' = to_client \ {c}
  /\ UNCHANGED <<server, stop_flag, send_thread, lines, to_server, lost,
                 doubled, late>>

-----------------------------------------------------------------------------
(* The network loses a datagram.                                           *)
LosesDatagram(d) ==
  /\ MayFail("lost") /\ d \in to_server
  /\ lost' = lost + 1 /\ to_server' = to_server \ {d}
  /\ UNCHANGED <<server, users, to_client, doubled, late>>

LosesAlive(c) ==
  /\ MayFail("lost") /\ c \in to_client
  /\ lost' = lost + 1 /\ to_client' = to_client \ {c}
  /\ UNCHANGED <<server, users, to_server, doubled, late>>

ClientStep(c) ==
  \/ ClientStarts(c)
  \/ \E cmd \in Typed : Types(c, cmd)
  \/ TypesNothing(c) \/ EndOfInput(c) \/ CtrlC(c)
  \/ GetsAlive(c) \/ SendsAck(c) \/ GetsText(c) \/ ClientEnds(c)

MainDispatches == MainAnnouncesJoin \/ MainHandlesStop \/ MainHandlesOther

Next ==
  \/ \E d \in Datagrams : MainReceives(d) \/ LosesDatagram(d)
  \/ MainDispatches
  \/ CheckerScans
  \/ Tick
  \/ \E c \in Clients : ClientStep(c) \/ LosesAlive(c)

Spec == Init /\ [][Next]_vars

(* The server's threads and the clients' receiving threads run, time       *)
(* passes, and no client's datagrams stay on their way for ever.  Nothing  *)
(* is assumed of the users.                                                *)
FairSpec ==
  /\ Spec
  /\ \A c \in Clients : SF_vars(\E d \in Datagrams : d.from = c /\ MainReceives(d))
  /\ WF_vars(MainDispatches)
  /\ WF_vars(CheckerScans)
  /\ WF_vars(Tick)
  /\ \A c \in Clients : WF_vars(GetsAlive(c) \/ SendsAck(c))

-----------------------------------------------------------------------------
(* The types of the variables; while the main thread processes a datagram, *)
(* it has one, and a slot for it.                                          *)
Entries == {Vacant} \cup
           [active : {TRUE}, name : Names, addr : Clients,
            age : 0..(CLIENT_TIMEOUT + 1)]

TypeOK ==
  /\ clients \in [Slots -> Entries]
  /\ main \in {"receive", "join", "dispatch"}
  /\ main = "receive" <=> client_idx = 0
  /\ client_idx \in 0..MAX_CLIENTS
  /\ \/ main = "receive" /\ datagram = {}
     \/ main # "receive" /\ \E d \in Datagrams : datagram = {d}
  /\ command \in {"STOP", "other"}
  /\ checker \in 0..(MAX_CLIENTS + 1)
  /\ slept \in 0..ALIVE_CHECK_INTERVAL
  /\ stop_flag \in [Clients -> BOOLEAN]
  /\ send_thread \in [Clients -> {"start", "fgets", "done"}]
  /\ recv_thread \in [Clients -> {"receive", "ack", "done"}]
  /\ lines \in 0..MaxLines
  /\ to_server \subseteq Datagrams
  /\ to_client \subseteq {c \in Clients : recv_thread[c] # "done"}
  /\ lost \in Nat /\ doubled \in Nat /\ late \in Nat
  /\ lost + doubled + late \in 0..MaxFaults

(* No name is in the table twice, however registrations, STOPs and         *)
(* timeouts leave gaps in it (server.c:96-117): 2ONE would reach one of    *)
(* the two only, and STOP would leave the other behind.                    *)
OneEntryPerName ==
  \A i, j \in Slots :
    clients[i].active /\ clients[j].active /\ clients[i].name = clients[j].name
      => i = j

(* STOP frees the slot that was looked up before the mutex was released,   *)
(* perhaps several times over (server.c:97-131, 188), and the checker may  *)
(* have changed the table since: what it frees is its sender's or nobody's.*)
StopFreesItsSender ==
  [][MainHandlesStop =>
       \A d \in datagram : \A i \in Slots :
         clients[i].active /\ ~clients'[i].active
           => clients[i].name = Name[d.from]]_vars

(* The checker's period and CLIENT_TIMEOUT fit (30 s and 65 s,             *)
(* server.c:14-15, 49): as long as answers come before the next probe and  *)
(* at most one datagram was ever lost, a client that is running is not     *)
(* dropped, however idle its user.  Slots are then freed by STOPs only.    *)
RunningClientStays ==
  [][CheckerScans /\ late = 0 /\ lost <= 1 =>
       \A i \in Slots : clients[i].active /\ ~clients'[i].active
                          => stop_flag[clients[i].addr]]_vars

Gone(c) == send_thread[c] = "done" /\ recv_thread[c] = "done"

(* A client that has ended is some day out of the table for good, whether  *)
(* its STOP came, was lost, was overtaken by an ALIVE_ACK or by a line     *)
(* typed after Ctrl+C that registered it anew (client.c:58-80), or never   *)
(* was sent (client.c:54).                                                 *)
GhostsVanish ==
  \A c \in Clients :
    Gone(c) ~> [](\A i \in Slots : clients[i].active => clients[i].addr # c)

(* What the server logs when it removes a client at its request, "Klient   *)
(* %s wyslal STOP" (server.c:184: the client sent STOP), is so: the datagram*)
(* is a STOP, or the client has sent one before and stopped.                *)
LoggedStopWasSent ==
  main = "dispatch" /\ command = "STOP" =>
    \A d \in datagram : d.command = "STOP" \/ stop_flag[d.from]
=============================================================================
