------------------------------- MODULE MqChat -------------------------------
(***************************************************************************)
(* The chat over POSIX message queues of lab07/server.c and lab07/client.c.*)
(* The server owns one queue; each client owns one queue, registers with an*)
(* INIT message that names it, gets its id back as the first message, and  *)
(* then sends lines that the server copies to every other client.          *)
(*                                                                         *)
(* mq_send blocks while the queue is full and mq_receive while it is empty;*)
(* a queue outlives mq_unlink for those that have it open, so a sender may *)
(* fill a queue that nobody reads any more.                                *)
(***************************************************************************)
EXTENDS Integers, Sequences, FiniteSets

CONSTANTS
  Clients,       \* the client processes that may be started
  MAX_CLIENTS,
  mq_maxmsg,     \* the capacity of every queue
  Script,        \* bound: the lines each user types, "text" or "empty"
  MayExit,       \* the clients whose user may press Ctrl+C
  ServerMayStop  \* may Ctrl+C stop the server?

ASSUME MqChatAssumption ==
  /\ MAX_CLIENTS \in Nat
  /\ mq_maxmsg \in Nat \ {0}
  /\ Script \in [Clients -> Seq({"text", "empty"})]
  /\ MayExit \subseteq Clients
  /\ ServerMayStop \in BOOLEAN

VARIABLES
  server,        \* control state of the server
  server_queue,  \* the messages of the server's queue
  clients,       \* the table of registered clients, in order of their ids
  sending,       \* the line being broadcast
  next_client,   \* the loop index of broadcast_message
  client,        \* control state of each client's main thread
  client_id,
  client_queue,  \* the messages of each client's queue
  linked,        \* the clients whose queue has a name
  typed,         \* number of lines each client has sent
  shown          \* what each client's receiver has printed

serverVars == <<server, clients, sending, next_client>>
clientVars == <<client, client_id, linked, typed>>
vars == <<serverVars, server_queue, clientVars, client_queue, shown>>

InitMsg(c)       == [type |-> "INIT", queue |-> c]
LineMsg(id, c)   == [type |-> "line", id |-> id, text |-> <<c, typed[c] + 1>>]
IdMsg(id)        == [type |-> "ID", id |-> id]
ChatMsg(id, txt) == [type |-> "chat", id |-> id, text |-> txt]
NoLine           == [type |-> "line", id |-> 0, text |-> <<>>]

client_count == Len(clients)
(* Mutant: a queue takes one message more than mq_maxmsg.                   *)
MutantFull(queue) == Len(queue) > mq_maxmsg

Full(queue) == Len(queue) >= mq_maxmsg

(* sscanf reads no text from an empty line: the buffer keeps what it held.  *)
Garbage    == <<>>
ReadText(t) == IF Script[t[1]][t[2]] = "empty" THEN Garbage ELSE t

Init ==
  /\ server = "receive"
  /\ server_queue = <<>>
  /\ clients = <<>>
  /\ sending = NoLine
  /\ next_client = 1
  /\ client = [c \in Clients |-> "start"]
  /\ client_id = [c \in Clients |-> 0]
  /\ client_queue = [c \in Clients |-> <<>>]
  /\ linked = {}
  /\ typed = [c \in Clients |-> 0]
  /\ shown = [c \in Clients |-> <<>>]

-----------------------------------------------------------------------------
(* server.c                                                                 *)

(* Mutant: the table is taken for full one client early.                    *)
MutantTableFullEarly ==
  /\ server = "receive"
  /\ server_queue # <<>>
  /\ Head(server_queue).type = "INIT"
  /\ server_queue' = Tail(server_queue)
  /\ LET c == Head(server_queue).queue IN
       IF client_count < MAX_CLIENTS - 1 /\ c \in linked
       THEN clients' = Append(clients, c) /\ server' = "reply"
       ELSE UNCHANGED <<clients, server>>
  /\ UNCHANGED <<sending, next_client, clientVars, client_queue, shown>>

(* handle_init returns without an answer when the table is full or the queue*)
(* cannot be opened; otherwise the client is registered and answered.       *)
ReceiveInit ==
  /\ server = "receive"
  /\ server_queue # <<>>
  /\ Head(server_queue).type = "INIT"
  /\ server_queue' = Tail(server_queue)
  /\ LET c == Head(server_queue).queue IN
       IF client_count < MAX_CLIENTS /\ c \in linked
       THEN clients' = Append(clients, c) /\ server' = "reply"
       ELSE UNCHANGED <<clients, server>>
  /\ UNCHANGED <<sending, next_client, clientVars, client_queue, shown>>

(* Mutant: the id is read after client_count was increased.                 *)
MutantIdOffByOne ==
  /\ server = "reply"
  /\ LET c == clients[client_count] IN
       /\ ~Full(client_queue[c])
       /\ client_queue' =
            [client_queue EXCEPT ![c] = Append(@, IdMsg(client_count))]
  /\ server' = "receive"
  /\ UNCHANGED <<clients, sending, next_client, server_queue, clientVars, shown>>

SendId ==
  /\ server = "reply"
  /\ LET c == clients[client_count] IN
       /\ ~Full(client_queue[c])
       /\ client_queue' =
            [client_queue EXCEPT ![c] = Append(@, IdMsg(client_count - 1))]
  /\ server' = "receive"
  /\ UNCHANGED <<clients, sending, next_client, server_queue, clientVars, shown>>

(* Mutant: the id of the line is not parsed and stays 0.                    *)
MutantIdNotParsed ==
  /\ server = "receive"
  /\ server_queue # <<>>
  /\ Head(server_queue).type = "line"
  /\ server_queue' = Tail(server_queue)
  /\ sending' = [Head(server_queue) EXCEPT !.text = ReadText(@), !.id = 0]
  /\ next_client' = 1
  /\ server' = "broadcast"
  /\ UNCHANGED <<clients, clientVars, client_queue, shown>>

ReceiveLine ==
  /\ server = "receive"
  /\ server_queue # <<>>
  /\ Head(server_queue).type = "line"
  /\ server_queue' = Tail(server_queue)
  /\ sending' = [Head(server_queue) EXCEPT !.text = ReadText(@)]
  /\ next_client' = 1
  /\ server' = "broadcast"
  /\ UNCHANGED <<clients, clientVars, client_queue, shown>>

(* Mutant: the sender is compared with an index that starts at 1.           *)
MutantSkipsWrongClient ==
  /\ server = "broadcast"
  /\ next_client <= client_count
  /\ LET c == clients[next_client] IN
       IF next_client = sending.id
       THEN UNCHANGED client_queue
       ELSE /\ ~Full(client_queue[c])
            /\ client_queue' =
                 [client_queue EXCEPT
                    ![c] = Append(@, ChatMsg(sending.id, sending.text))]
  /\ next_client' = next_client + 1
  /\ UNCHANGED <<server, clients, sending, server_queue, clientVars, shown>>

(* Mutant: a priority puts the newest line first.                           *)
MutantNewestFirst ==
  /\ server = "broadcast"
  /\ next_client <= client_count
  /\ LET c == clients[next_client] IN
       IF next_client - 1 = sending.id
       THEN UNCHANGED client_queue
       ELSE /\ ~Full(client_queue[c])
            /\ client_queue' =
                 [client_queue EXCEPT
                    ![c] = <<ChatMsg(sending.id, sending.text)>> \o @]
  /\ next_client' = next_client + 1
  /\ UNCHANGED <<server, clients, sending, server_queue, clientVars, shown>>

(* Mutant: break where the code says continue.                              *)
MutantStopsAtSender ==
  /\ server = "broadcast"
  /\ next_client <= client_count
  /\ LET c == clients[next_client] IN
       IF next_client - 1 = sending.id
       THEN UNCHANGED client_queue /\ next_client' = client_count + 1
       ELSE /\ ~Full(client_queue[c])
            /\ client_queue' =
                 [client_queue EXCEPT
                    ![c] = Append(@, ChatMsg(sending.id, sending.text))]
            /\ next_client' = next_client + 1
  /\ UNCHANGED <<server, clients, sending, server_queue, clientVars, shown>>

(* One iteration of broadcast_message; its mq_send blocks on a full queue.  *)
BroadcastToNext ==
  /\ server = "broadcast"
  /\ next_client <= client_count
  /\ LET c == clients[next_client] IN
       IF next_client - 1 = sending.id
       THEN UNCHANGED client_queue
       ELSE /\ ~Full(client_queue[c])
            /\ client_queue' =
                 [client_queue EXCEPT
                    ![c] = Append(@, ChatMsg(sending.id, sending.text))]
  /\ next_client' = next_client + 1
  /\ UNCHANGED <<server, clients, sending, server_queue, clientVars, shown>>

BroadcastEnds ==
  /\ server = "broadcast"
  /\ next_client > client_count
  /\ server' = "receive"
  /\ sending' = NoLine
  /\ next_client' = 1
  /\ UNCHANGED <<clients, server_queue, clientVars, client_queue, shown>>

(* Ctrl+C: cleanup closes the queues, removes the server's name and exits.  *)
ServerCleanup ==
  /\ ServerMayStop
  /\ server # "off"
  /\ server' = "off"
  /\ UNCHANGED <<clients, sending, next_client, server_queue, clientVars,
                 client_queue, shown>>

-----------------------------------------------------------------------------
(* client.c                                                                 *)

(* mq_open of the own queue, then of the server's: without a server the     *)
(* client exits and leaves its own queue behind.                            *)
Open(c) ==
  /\ client[c] = "start"
  /\ linked' = linked \cup {c}
  /\ client' = [client EXCEPT ![c] = IF server = "off" THEN "gone" ELSE "opened"]
  /\ UNCHANGED <<client_id, typed, serverVars, server_queue, client_queue, shown>>

(* Mutant: the INIT is sent again until it is answered.                     *)
MutantInitRetried(c) ==
  /\ client[c] \in {"opened", "await_id"}
  /\ ~Full(server_queue)
  /\ server_queue' = Append(server_queue, InitMsg(c))
  /\ client' = [client EXCEPT ![c] = "await_id"]
  /\ UNCHANGED <<client_id, linked, typed, serverVars, client_queue, shown>>

SendInit(c) ==
  /\ client[c] = "opened"
  /\ ~Full(server_queue)
  /\ server_queue' = Append(server_queue, InitMsg(c))
  /\ client' = [client EXCEPT ![c] = "await_id"]
  /\ UNCHANGED <<client_id, linked, typed, serverVars, client_queue, shown>>

(* The first message is read as the id; any other leaves client_id at 0.    *)
ReceiveId(c) ==
  /\ client[c] = "await_id"
  /\ client_queue[c] # <<>>
  /\ LET msg == Head(client_queue[c]) IN
       client_id' = [client_id EXCEPT
                       ![c] = IF msg.type = "ID" THEN msg.id ELSE @]
  /\ client_queue' = [client_queue EXCEPT ![c] = Tail(@)]
  /\ client' = [client EXCEPT ![c] = "running"]
  /\ UNCHANGED <<linked, typed, serverVars, server_queue, shown>>

SendLine(c) ==
  /\ client[c] = "running"
  /\ typed[c] < Len(Script[c])
  /\ ~Full(server_queue)
  /\ server_queue' = Append(server_queue, LineMsg(client_id[c], c))
  /\ typed' = [typed EXCEPT ![c] = @ + 1]
  /\ UNCHANGED <<client, client_id, linked, serverVars, client_queue, shown>>

(* The receiver thread.                                                     *)
Receiver(c) ==
  /\ client[c] = "running"
  /\ client_queue[c] # <<>>
  /\ shown' = [shown EXCEPT ![c] = Append(@, Head(client_queue[c]))]
  /\ client_queue' = [client_queue EXCEPT ![c] = Tail(@)]
  /\ UNCHANGED <<serverVars, server_queue, clientVars>>

(* Ctrl+C.  A running client unlinks its queue; before its handler is       *)
(* installed the signal just kills it and the name stays.                   *)
Exit(c) ==
  /\ c \in MayExit
  /\ client[c] \in {"opened", "await_id", "running"}
  /\ client' = [client EXCEPT ![c] = "gone"]
  /\ linked' = IF client[c] = "running" THEN linked \ {c} ELSE linked
  /\ UNCHANGED <<client_id, typed, serverVars, server_queue, client_queue, shown>>

-----------------------------------------------------------------------------
ServerStep == ReceiveInit \/ SendId \/ ReceiveLine \/ BroadcastToNext
                \/ BroadcastEnds

ClientStep(c) ==
  Open(c) \/ SendInit(c) \/ ReceiveId(c) \/ SendLine(c) \/ Receiver(c) \/ Exit(c)

Next ==
  \/ ServerStep
  \/ ServerCleanup
  \/ \E c \in Clients : ClientStep(c)

Spec == Init /\ [][Next]_vars

(* The server, a client that connects and a receiver thread go on when they *)
(* are not blocked; nobody is obliged to start, to type or to leave.  Strong*)
(* fairness of the INIT: POSIX lets the senders that wait for room in a     *)
(* queue go in the order in which they came.                                *)
FairSpec ==
  /\ Spec
  /\ WF_vars(ServerStep)
  /\ \A c \in Clients :
       SF_vars(SendInit(c)) /\ WF_vars(ReceiveId(c) \/ Receiver(c))

-----------------------------------------------------------------------------
LinesOf(c) == {<<c, n>> : n \in DOMAIN Script[c]}
Lines      == {Garbage} \cup UNION {LinesOf(c) : c \in Clients}

TypeOK ==
  /\ server \in {"receive", "reply", "broadcast", "off"}
  /\ Len(server_queue) <= mq_maxmsg
  /\ clients \in Seq(Clients) /\ Len(clients) <= MAX_CLIENTS
  /\ sending.text \in Lines
  /\ next_client \in 1 .. client_count + 1
  /\ client \in [Clients -> {"start", "opened", "await_id", "running", "gone"}]
  /\ client_id \in [Clients -> 0 .. MAX_CLIENTS]
  /\ \A c \in Clients : Len(client_queue[c]) <= mq_maxmsg
  /\ linked \subseteq Clients
  /\ typed \in [Clients -> Nat]

(* A client's messages, oldest first: those shown and those still queued.   *)
Stream(c) == shown[c] \o client_queue[c]

(* A running client knows its own id: the first message it reads is the     *)
(* answer to its INIT and never a line broadcast by another client, although*)
(* the server lists it for broadcasts before it answers.                    *)
RunningKnowsItsId ==
  \A c \in Clients : client[c] = "running" =>
    client_id[c] < client_count /\ clients[client_id[c] + 1] = c

(* The answer with the id finds room: registering a client never blocks the *)
(* server, whatever other clients send at the time.                         *)
IdAlwaysFits ==
  server = "reply" => client_queue[clients[client_count]] = <<>>

(* Nobody is shown a line of its own, or one line twice.                    *)
NoEchoNoDuplicate ==
  \A c \in Clients : \A i, j \in DOMAIN Stream(c) :
    Stream(c)[i].type = "chat" =>
      /\ Stream(c)[i].text # Garbage => Stream(c)[i].text[1] # c
      /\ i # j /\ Stream(c)[i] = Stream(c)[j] => Stream(c)[i].text = Garbage

(* All clients see the lines in one order: two lines that reach two clients *)
(* reach them in the same order, whoever sent them.  (Two empty lines of one*)
(* client cannot be told apart once they are shown.)                        *)
OneOrder ==
  \A c, d \in Clients :
    \A i, j \in DOMAIN Stream(c) : \A k, l \in DOMAIN Stream(d) :
      /\ i < j /\ Stream(c)[i] = Stream(d)[l] /\ Stream(c)[j] = Stream(d)[k]
      /\ Stream(c)[i].type = "chat" /\ Stream(c)[i].text # Garbage
      /\ Stream(c)[j].type = "chat" /\ Stream(c)[j].text # Garbage
      => l < k

(* A line that is shown was typed by the client it is attributed to.  (Of an*)
(* empty line server.c:80 reads no text, and something else is shown.)      *)
ShownWasTyped ==
  \A c \in Clients : \A i \in DOMAIN Stream(c) :
    Stream(c)[i].type = "chat" /\ Stream(c)[i].text # Garbage =>
      clients[Stream(c)[i].id + 1] = Stream(c)[i].text[1]

(* The clients array is "the table that holds the data of the current       *)
(* clients" (server.c:19): whoever the server waits for, because the queue  *)
(* is full, still has that queue and has not removed it on leaving.         *)
TableHoldsCurrentClients ==
  /\ server = "broadcast"
  /\ next_client <= client_count
  /\ next_client - 1 # sending.id
  /\ Full(client_queue[clients[next_client]])
  => clients[next_client] \in linked

-----------------------------------------------------------------------------
(* Somebody has left, or the server was stopped.                            *)
Departed == server = "off" \/ \E c \in Clients : client[c] = "gone"

(* As long as nobody leaves, a client that starts is answered, however full *)
(* the queues are, unless MAX_CLIENTS others are answered before it.        *)
EveryClientConnects ==
  \A c \in Clients :
    client[c] = "opened"
      ~> \/ client[c] = "running" \/ Departed
         \/ Cardinality({d \in Clients : client[d] = "running"}) = MAX_CLIENTS

(* As long as nobody leaves, a line in the server's queue reaches every     *)
(* client that is running by then, except the one that typed it: the queues *)
(* never block each other for good, because receivers depend on nobody.     *)
Queued(t) ==
  \E i \in DOMAIN server_queue :
    server_queue[i].type = "line" /\ server_queue[i].text = t

IsShown(c, t) ==
  \E i \in DOMAIN shown[c] :
    shown[c][i].type = "chat" /\ shown[c][i].text = ReadText(t)

LinesReachEveryone ==
  \A d \in Clients : \A c \in Clients \ {d} : \A t \in LinesOf(d) :
    (client[c] = "running" /\ Queued(t)) ~> (IsShown(c, t) \/ Departed)
=============================================================================
