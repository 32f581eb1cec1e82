---------------------------- MODULE MqChatProofs ----------------------------
(***************************************************************************)
(* Theorems about the message queue chat (MqChat), for any number of       *)
(* clients, any table, any queue length and whatever the users type.       *)
(***************************************************************************)
EXTENDS MqChat, SequenceTheorems, TLAPS

-----------------------------------------------------------------------------
(* The inductive invariant.                                                 *)

TypedLines == UNION {LinesOf(c) : c \in Clients}
InitMsgs   == {InitMsg(c) : c \in Clients}
LineMsgs   == [type : {"line"}, id : 0 .. MAX_CLIENTS, text : TypedLines]
Sendings   == [type : {"line"}, id : 0 .. MAX_CLIENTS, text : Lines]
ClientMsgs == [type : {"ID"}, id : 0 .. MAX_CLIENTS]
                \cup [type : {"chat"}, id : 0 .. MAX_CLIENTS, text : Lines]

Shape ==
  /\ server \in {"receive", "reply", "broadcast", "off"}
  /\ server_queue \in Seq(InitMsgs \cup LineMsgs)
  /\ Len(server_queue) <= mq_maxmsg
  /\ clients \in Seq(Clients) /\ Len(clients) <= MAX_CLIENTS
  /\ sending \in Sendings
  /\ next_client \in 1 .. client_count + 1
  /\ client \in [Clients -> {"start", "opened", "await_id", "running", "gone"}]
  /\ client_id \in [Clients -> 0 .. MAX_CLIENTS]
  /\ client_queue \in [Clients -> Seq(ClientMsgs)]
  /\ \A c \in Clients : Len(client_queue[c]) <= mq_maxmsg
  /\ linked \subseteq Clients
  /\ typed \in [Clients -> Nat]
  /\ shown \in [Clients -> Seq(ClientMsgs)]

Listed(c) == \E i \in DOMAIN clients : clients[i] = c

Asks(c, k) == k \in DOMAIN server_queue /\ server_queue[k] = InitMsg(c)

(* A client asks once, before it is listed, and is listed once.             *)
AskedOnce ==
  /\ \A i, j \in DOMAIN clients : clients[i] = clients[j] => i = j
  /\ \A c \in Clients : \A k :
       Asks(c, k) => ~Listed(c) /\ client[c] \notin {"start", "opened"}
  /\ \A c \in Clients : \A k, l : Asks(c, k) /\ Asks(c, l) => k = l
  /\ \A c \in Clients : client[c] \in {"start", "opened"} => ~Listed(c)

(* Nothing is sent to a client before its id, and while it has not read the *)
(* id that is the first message of its queue.                               *)
IdComesFirst ==
  /\ \A c \in Clients : ~Listed(c) => client_queue[c] = <<>>
  /\ server = "reply" =>
       client_count > 0 /\ client_queue[clients[client_count]] = <<>>
  /\ \A i \in DOMAIN clients : client[clients[i]] = "await_id" =>
       \/ client_queue[clients[i]] = <<>> /\ server = "off"
       \/ client_queue[clients[i]] = <<>> /\ server = "reply" /\ i = client_count
       \/ /\ client_queue[clients[i]] # <<>>
          /\ Head(client_queue[clients[i]]) = IdMsg(i - 1)

RegistrationInv == Shape /\ AskedOnce /\ IdComesFirst /\ RunningKnowsItsId

-----------------------------------------------------------------------------
(* Facts on sequences.                                                      *)

LEMMA TailElements ==
  ASSUME NEW S, NEW q \in Seq(S), q # <<>>
  PROVE  /\ Head(q) \in S /\ Head(q) = q[1] /\ Len(q) \in Nat \ {0}
         /\ Tail(q) \in Seq(S) /\ Len(Tail(q)) = Len(q) - 1
         /\ DOMAIN q = 1 .. Len(q)
         /\ \A k \in DOMAIN Tail(q) :
              k + 1 \in DOMAIN q /\ k + 1 # 1 /\ Tail(q)[k] = q[k + 1]
  OBVIOUS

LEMMA AppendElements ==
  ASSUME NEW S, NEW q \in Seq(S), NEW e \in S
  PROVE  /\ Append(q, e) \in Seq(S) /\ Len(Append(q, e)) = Len(q) + 1
         /\ DOMAIN q = 1 .. Len(q) /\ Len(q) \in Nat
         /\ DOMAIN Append(q, e) = 1 .. Len(q) + 1
         /\ \A k \in DOMAIN q : Append(q, e)[k] = q[k]
         /\ Append(q, e)[Len(q) + 1] = e
         /\ Append(q, e) # <<>>
         /\ q = <<>> => Head(Append(q, e)) = e
         /\ q # <<>> => Head(Append(q, e)) = Head(q)
<1>1. /\ Append(q, e) \in Seq(S) /\ Len(Append(q, e)) = Len(q) + 1
      /\ DOMAIN q = 1 .. Len(q) /\ Len(q) \in Nat
      /\ DOMAIN Append(q, e) = 1 .. Len(q) + 1
      /\ Append(q, e)[Len(q) + 1] = e
  OBVIOUS
<1>2. \A k \in DOMAIN q : Append(q, e)[k] = q[k]
  OBVIOUS
<1>3. Append(q, e) # <<>>
  BY <1>1
<1>4. q = <<>> => Head(Append(q, e)) = e
  BY <1>1
<1>5. q # <<>> => Head(Append(q, e)) = Head(q)
  BY <1>1, <1>2
<1> QED
  BY <1>1, <1>2, <1>3, <1>4, <1>5

-----------------------------------------------------------------------------
LEMMA Messages ==
  /\ \A m \in InitMsgs \cup LineMsgs : m.type = "INIT" =>
       \E c \in Clients : m = InitMsg(c)
  /\ \A c, d : InitMsg(c).queue = c /\ (InitMsg(c) = InitMsg(d) => c = d)
  /\ \A m \in InitMsgs \cup LineMsgs : m.type = "line" =>
       /\ m \in LineMsgs /\ m.id \in 0 .. MAX_CLIENTS
       /\ m.text \in TypedLines /\ ReadText(m.text) \in Lines
       /\ \A c : m # InitMsg(c)
<1>1. \A m \in LineMsgs : /\ m.type = "line" /\ m.id \in 0 .. MAX_CLIENTS
                          /\ m.text \in TypedLines
  BY DEF LineMsgs
<1>2. \A m \in InitMsgs : m.type = "INIT" /\ \E c \in Clients : m = InitMsg(c)
  BY DEF InitMsgs, InitMsg
<1>3. \A t \in TypedLines : ReadText(t) \in Lines
  <2>1. \A t : ReadText(t) = Garbage \/ ReadText(t) = t
    BY DEF ReadText
  <2>2. Garbage \in Lines /\ TypedLines \subseteq Lines
    BY Zenon DEF Lines, TypedLines
  <2> QED
    BY <2>1, <2>2, Zenon
<1>4. \A c, d : /\ InitMsg(c).queue = c /\ InitMsg(c).type = "INIT"
               /\ InitMsg(c) = InitMsg(d) => c = d
  BY DEF InitMsg
<1>5. \A m \in InitMsgs \cup LineMsgs : m.type = "INIT" => m \in InitMsgs
  BY <1>1
<1>6. \A m \in InitMsgs \cup LineMsgs : m.type = "line" => m \in LineMsgs
  BY <1>2
<1>7. \A m \in LineMsgs : \A c : m # InitMsg(c)
  BY DEF LineMsgs, InitMsg
<1>8. \A m \in InitMsgs \cup LineMsgs : m.type = "INIT" =>
        \E c \in Clients : m = InitMsg(c)
  BY <1>2, <1>5
<1>9. \A m \in LineMsgs : /\ m.id \in 0 .. MAX_CLIENTS /\ m.text \in TypedLines
                          /\ ReadText(m.text) \in Lines
  BY <1>1, <1>3
<1>10. \A m \in InitMsgs \cup LineMsgs : m.type = "line" =>
         /\ m \in LineMsgs /\ m.id \in 0 .. MAX_CLIENTS
         /\ m.text \in TypedLines /\ ReadText(m.text) \in Lines
         /\ \A c : m # InitMsg(c)
  BY <1>6, <1>7, <1>9, Zenon
<1>11. \A c, d : InitMsg(c).queue = c /\ (InitMsg(c) = InitMsg(d) => c = d)
  BY DEF InitMsg
<1> QED
  BY <1>8, <1>10, <1>11, Zenon

(* The first message of the server's queue.                                 *)
LEMMA FirstMessage ==
  ASSUME Shape, server_queue # <<>>
  PROVE  /\ Head(server_queue) \in InitMsgs \cup LineMsgs
         /\ Head(server_queue) = server_queue[1] /\ 1 \in DOMAIN server_queue
         /\ Tail(server_queue) \in Seq(InitMsgs \cup LineMsgs)
         /\ Len(Tail(server_queue)) <= mq_maxmsg
         /\ \A k \in DOMAIN Tail(server_queue) :
              /\ k + 1 \in DOMAIN server_queue /\ k + 1 # 1 /\ k \in Nat
              /\ Tail(server_queue)[k] = server_queue[k + 1]
         /\ \A c : Head(server_queue) = InitMsg(c) => Asks(c, 1)
<1>1. /\ server_queue \in Seq(InitMsgs \cup LineMsgs)
      /\ Len(server_queue) <= mq_maxmsg /\ mq_maxmsg \in Nat
  BY MqChatAssumption DEF Shape
<1> DEFINE S == InitMsgs \cup LineMsgs
<1>2. /\ Head(server_queue) \in S /\ Head(server_queue) = server_queue[1]
      /\ Len(server_queue) \in Nat \ {0}
      /\ Tail(server_queue) \in Seq(S)
      /\ Len(Tail(server_queue)) = Len(server_queue) - 1
      /\ DOMAIN server_queue = 1 .. Len(server_queue)
      /\ \A k \in DOMAIN Tail(server_queue) :
           /\ k + 1 \in DOMAIN server_queue /\ k + 1 # 1
           /\ Tail(server_queue)[k] = server_queue[k + 1]
  BY <1>1, TailElements
<1>3. DOMAIN Tail(server_queue) = 1 .. Len(Tail(server_queue))
  BY <1>2
<1> QED
  BY <1>1, <1>2, <1>3 DEF Asks

(* A client takes the first message of its queue.                           *)
LEMMA TakesOne ==
  ASSUME Shape, NEW c \in Clients, client_queue[c] # <<>>,
         client_queue' = [client_queue EXCEPT ![c] = Tail(@)]
  PROVE  /\ client_queue' \in [Clients -> Seq(ClientMsgs)]
         /\ \A d \in Clients : /\ Len(client_queue'[d]) <= mq_maxmsg
                               /\ d # c => client_queue'[d] = client_queue[d]
<1>1. /\ client_queue \in [Clients -> Seq(ClientMsgs)]
      /\ \A d \in Clients : Len(client_queue[d]) <= mq_maxmsg
      /\ mq_maxmsg \in Nat
  BY MqChatAssumption DEF Shape
<1>2. /\ Tail(client_queue[c]) \in Seq(ClientMsgs)
      /\ Len(client_queue[c]) \in Nat
      /\ Len(Tail(client_queue[c])) = Len(client_queue[c]) - 1
  BY <1>1, TailElements
<1>3. \A d \in Clients : client_queue'[d] = IF d = c THEN Tail(client_queue[c])
                                                     ELSE client_queue[d]
  BY <1>1
<1>4. client_queue' \in [Clients -> Seq(ClientMsgs)]
  BY <1>1, <1>2
<1> QED
  BY <1>1, <1>2, <1>3, <1>4

LEMMA ListedIndices ==
  ASSUME Shape
  PROVE  /\ DOMAIN clients = 1 .. client_count
         /\ client_count \in 0 .. MAX_CLIENTS /\ MAX_CLIENTS \in Nat
         /\ \A i \in DOMAIN clients : clients[i] \in Clients /\ i \in Nat \ {0}
<1>1. clients \in Seq(Clients) /\ Len(clients) <= MAX_CLIENTS
  BY DEF Shape
<1> QED
  BY <1>1, MqChatAssumption DEF client_count

LEMMA NoLineIsSending == NoLine \in Sendings
<1>1. Garbage \in Lines
  BY Zenon DEF Lines
<1>2. NoLine = [type |-> "line", id |-> 0, text |-> Garbage]
  BY Zenon DEF NoLine, Garbage
<1> QED
  BY <1>1, <1>2, MqChatAssumption DEF Sendings

LEMMA InitRegistration == Init => RegistrationInv
<1> SUFFICES ASSUME Init PROVE RegistrationInv
  OBVIOUS
<1>1. Shape
  BY NoLineIsSending, MqChatAssumption DEF Init, Shape, client_count
<1> QED
  BY <1>1 DEF Init, RegistrationInv, AskedOnce, IdComesFirst, RunningKnowsItsId,
              Listed, Asks, client_count

-----------------------------------------------------------------------------
(* The server.                                                              *)

LEMMA ReceiveInitRegistration ==
  ASSUME RegistrationInv, ReceiveInit
  PROVE  RegistrationInv'
<1>1. /\ server = "receive" /\ server_queue # <<>>
      /\ Head(server_queue).type = "INIT" /\ server_queue' = Tail(server_queue)
      /\ UNCHANGED <<sending, next_client, client, client_id, linked, typed,
                     client_queue, shown>>
  BY DEF ReceiveInit, clientVars
<1>2. PICK c \in Clients : /\ Head(server_queue) = InitMsg(c)
                           /\ Head(server_queue).queue = c
  BY <1>1, FirstMessage, Messages DEF RegistrationInv
<1>3. Asks(c, 1) /\ ~Listed(c) /\ client[c] \notin {"start", "opened"}
  BY <1>1, <1>2, FirstMessage DEF RegistrationInv, AskedOnce
<1>4. \A d, k : Asks(d, k)' => Asks(d, k + 1) /\ k \in Nat /\ k + 1 # 1
  BY <1>1, FirstMessage DEF RegistrationInv, Asks
<1>5. \A k : ~Asks(c, k)'
  BY <1>3, <1>4 DEF RegistrationInv, AskedOnce
<1>6. CASE UNCHANGED <<clients, server>>
  <2>1. Shape'
    BY <1>1, <1>6, FirstMessage DEF RegistrationInv, Shape, client_count
  <2>2. \A d : Listed(d)' <=> Listed(d)
    BY <1>6 DEF Listed
  <2>3. AskedOnce'
    BY <1>1, <1>4, <1>6, <2>2 DEF RegistrationInv, AskedOnce
  <2>4. IdComesFirst' /\ RunningKnowsItsId'
    BY <1>1, <1>6, <2>2
    DEF RegistrationInv, IdComesFirst, RunningKnowsItsId, client_count
  <2> QED
    BY <2>1, <2>3, <2>4 DEF RegistrationInv
<1>7. CASE /\ client_count < MAX_CLIENTS
           /\ clients' = Append(clients, c) /\ server' = "reply"
  <2>1. /\ clients' \in Seq(Clients) /\ client_count' = client_count + 1
        /\ DOMAIN clients = 1 .. client_count /\ client_count \in Nat
        /\ DOMAIN clients' = 1 .. client_count + 1
        /\ \A i \in DOMAIN clients : clients'[i] = clients[i]
        /\ clients'[client_count + 1] = c
    <3>1. clients \in Seq(Clients)
      BY DEF RegistrationInv, Shape
    <3> QED
      BY <3>1, <1>7, AppendElements DEF client_count
  <2>2. Shape'
    <3>1. Len(clients') <= MAX_CLIENTS
      BY <1>7, <2>1, ListedIndices DEF RegistrationInv, client_count
    <3>2. next_client' \in 1 .. client_count' + 1
      BY <1>1, <2>1 DEF RegistrationInv, Shape
    <3> QED
      BY <1>1, <1>7, <2>1, <3>1, <3>2, FirstMessage DEF RegistrationInv, Shape
  <2>3. \A d : Listed(d)' <=> Listed(d) \/ d = c
    BY <2>1 DEF Listed
  <2>4. \A i, j \in DOMAIN clients' : clients'[i] = clients'[j] => i = j
    BY <1>3, <2>1 DEF RegistrationInv, AskedOnce, Listed
  <2>5. AskedOnce'
    BY <1>1, <1>3, <1>4, <1>5, <2>3, <2>4 DEF RegistrationInv, AskedOnce
  <2>6. client_queue[c] = <<>>
    BY <1>3 DEF RegistrationInv, IdComesFirst
  <2>7. IdComesFirst'
    <3>1. \A d \in Clients : ~Listed(d)' => client_queue'[d] = <<>>
      BY <1>1, <2>3 DEF RegistrationInv, IdComesFirst
    <3>2. client_count' > 0 /\ client_queue'[clients'[client_count']] = <<>>
      BY <1>1, <2>1, <2>6
    <3> QED
      BY <1>1, <1>7, <2>1, <2>6, <3>1, <3>2 DEF RegistrationInv, IdComesFirst
  <2>8. RunningKnowsItsId'
    <3>1. ASSUME NEW d \in Clients, client[d] = "running"
          PROVE  client_id[d] < client_count' /\ clients'[client_id[d] + 1] = d
      <4>1. client_id[d] \in Nat
        BY MqChatAssumption DEF RegistrationInv, Shape
      <4> QED
        BY <3>1, <4>1, <2>1 DEF RegistrationInv, RunningKnowsItsId
    <3> QED
      BY <3>1, <1>1 DEF RunningKnowsItsId
  <2> QED
    BY <2>2, <2>5, <2>7, <2>8 DEF RegistrationInv
<1> QED
  BY <1>2, <1>6, <1>7 DEF ReceiveInit

LEMMA SendIdRegistration ==
  ASSUME RegistrationInv, SendId
  PROVE  RegistrationInv'
<1> DEFINE n == client_count
<1>1. /\ server = "reply" /\ server' = "receive" /\ n > 0
      /\ client_queue[clients[n]] = <<>> /\ n \in DOMAIN clients
      /\ clients[n] \in Clients
      /\ UNCHANGED <<clients, sending, next_client, server_queue, client,
                     client_id, linked, typed, shown>>
  BY ListedIndices DEF SendId, RegistrationInv, IdComesFirst, clientVars
<1>2. PICK c \in Clients : c = clients[n]
  BY <1>1
<1>3. client_queue' = [client_queue EXCEPT ![c] = Append(@, IdMsg(n - 1))]
  BY <1>2 DEF SendId
<1>4. IdMsg(n - 1) \in ClientMsgs
  BY <1>1, ListedIndices DEF RegistrationInv, IdMsg, ClientMsgs
<1>5. /\ client_queue'[c] \in Seq(ClientMsgs) /\ Len(client_queue'[c]) = 1
      /\ client_queue'[c] # <<>> /\ Head(client_queue'[c]) = IdMsg(n - 1)
      /\ \A d \in Clients \ {c} : client_queue'[d] = client_queue[d]
  BY <1>1, <1>2, <1>3, <1>4, AppendElements DEF RegistrationInv, Shape
<1>6. Shape'
  <2>1. client_queue' \in [Clients -> Seq(ClientMsgs)]
    BY <1>3, <1>5 DEF RegistrationInv, Shape
  <2>2. \A d \in Clients : Len(client_queue'[d]) <= mq_maxmsg
    <3>1. \A d \in Clients : Len(client_queue[d]) <= mq_maxmsg
      BY DEF RegistrationInv, Shape
    <3>2. 1 <= mq_maxmsg
      BY MqChatAssumption
    <3> QED
      BY <1>5, <3>1, <3>2
  <2> QED
    BY <1>1, <2>1, <2>2 DEF RegistrationInv, Shape, client_count
<1>7. \A d : /\ Listed(d)' <=> Listed(d)
            /\ \A k : Asks(d, k)' <=> Asks(d, k)
  BY <1>1 DEF Listed, Asks
<1>8. AskedOnce'
  BY <1>1, <1>7 DEF RegistrationInv, AskedOnce
<1>9. IdComesFirst'
  <2>1. Listed(c)
    BY <1>1, <1>2 DEF Listed
  <2>2. \A i \in DOMAIN clients : clients[i] = c => i = n
    BY <1>1, <1>2 DEF RegistrationInv, AskedOnce
  <2>3. \A d \in Clients : ~Listed(d)' => client_queue'[d] = <<>>
    BY <1>5, <1>7, <2>1 DEF RegistrationInv, IdComesFirst
  <2>4. ASSUME NEW i \in DOMAIN clients, client[clients[i]] = "await_id"
        PROVE  /\ client_queue'[clients[i]] # <<>>
               /\ Head(client_queue'[clients[i]]) = IdMsg(i - 1)
    <3>1. CASE i = n
      BY <3>1, <1>2, <1>5
    <3>2. CASE i # n
      <4>1. clients[i] # c /\ clients[i] \in Clients
        BY <2>2, <2>4, <3>2, ListedIndices DEF RegistrationInv
      <4> QED
        BY <2>4, <3>2, <4>1, <1>1, <1>5 DEF RegistrationInv, IdComesFirst
    <3> QED
      BY <3>1, <3>2
  <2> QED
    BY <1>1, <2>3, <2>4 DEF IdComesFirst
<1>10. RunningKnowsItsId'
  BY <1>1 DEF RegistrationInv, RunningKnowsItsId, client_count
<1> QED
  BY <1>6, <1>8, <1>9, <1>10 DEF RegistrationInv

LEMMA ReceiveLineRegistration ==
  ASSUME RegistrationInv, ReceiveLine
  PROVE  RegistrationInv'
<1> DEFINE m == Head(server_queue)
<1>1. /\ server = "receive" /\ server_queue # <<>> /\ m.type = "line"
      /\ server_queue' = Tail(server_queue) /\ server' = "broadcast"
      /\ sending' = [m EXCEPT !.text = ReadText(@)] /\ next_client' = 1
      /\ UNCHANGED <<clients, client, client_id, linked, typed, client_queue,
                     shown>>
  BY DEF ReceiveLine, clientVars
<1>2. /\ m \in LineMsgs /\ m.id \in 0 .. MAX_CLIENTS
      /\ ReadText(m.text) \in Lines
  BY <1>1, FirstMessage, Messages DEF RegistrationInv
<1>3. sending' \in Sendings
  BY <1>1, <1>2 DEF LineMsgs, Sendings
<1>4. Shape'
  BY <1>1, <1>3, FirstMessage, ListedIndices
  DEF RegistrationInv, Shape, client_count
<1>5. \A d : /\ Listed(d)' <=> Listed(d)
            /\ \A k : Asks(d, k)' => Asks(d, k + 1) /\ k \in Nat
  BY <1>1, FirstMessage DEF RegistrationInv, Listed, Asks
<1>6. AskedOnce'
  <2>1. \A c \in Clients : \A k, l : Asks(c, k)' /\ Asks(c, l)' => k = l
    BY <1>5 DEF RegistrationInv, AskedOnce
  <2> QED
    BY <1>1, <1>5, <2>1 DEF RegistrationInv, AskedOnce
<1>7. IdComesFirst' /\ RunningKnowsItsId'
  BY <1>1, <1>5
  DEF RegistrationInv, IdComesFirst, RunningKnowsItsId, client_count
<1> QED
  BY <1>4, <1>6, <1>7 DEF RegistrationInv

LEMMA BroadcastRegistration ==
  ASSUME RegistrationInv, BroadcastToNext
  PROVE  RegistrationInv'
<1>1. /\ server = "broadcast" /\ next_client \in DOMAIN clients
      /\ next_client' = next_client + 1
      /\ UNCHANGED <<server, clients, sending, server_queue, client, client_id,
                     linked, typed, shown>>
  BY ListedIndices DEF BroadcastToNext, RegistrationInv, Shape, clientVars
<1>2. PICK c \in Clients : c = clients[next_client]
  BY <1>1, ListedIndices DEF RegistrationInv
<1> DEFINE e == ChatMsg(sending.id, sending.text)
<1>3. e \in ClientMsgs
  BY DEF RegistrationInv, Shape, Sendings, ChatMsg, ClientMsgs
<1>4. \/ UNCHANGED client_queue
      \/ /\ Len(client_queue[c]) < mq_maxmsg
         /\ client_queue' = [client_queue EXCEPT ![c] = Append(@, e)]
  <2>1. Len(client_queue[c]) \in Nat /\ mq_maxmsg \in Nat
    BY MqChatAssumption DEF RegistrationInv, Shape
  <2> QED
    BY <1>2, <2>1 DEF BroadcastToNext, Full
<1>5. /\ client_queue' \in [Clients -> Seq(ClientMsgs)]
      /\ \A d \in Clients :
           /\ Len(client_queue'[d]) <= mq_maxmsg
           /\ d # c => client_queue'[d] = client_queue[d]
           /\ client_queue[d] # <<>> =>
                /\ client_queue'[d] # <<>>
                /\ Head(client_queue'[d]) = Head(client_queue[d])
  <2>1. client_queue \in [Clients -> Seq(ClientMsgs)]
    BY DEF RegistrationInv, Shape
  <2>2. CASE UNCHANGED client_queue
    BY <2>1, <2>2 DEF RegistrationInv, Shape
  <2>3. CASE /\ Len(client_queue[c]) < mq_maxmsg
             /\ client_queue' = [client_queue EXCEPT ![c] = Append(@, e)]
    <3>1. /\ Append(client_queue[c], e) \in Seq(ClientMsgs)
          /\ Len(Append(client_queue[c], e)) = Len(client_queue[c]) + 1
          /\ Len(client_queue[c]) \in Nat
          /\ Append(client_queue[c], e) # <<>>
          /\ client_queue[c] # <<>> =>
               Head(Append(client_queue[c], e)) = Head(client_queue[c])
      BY <1>3, <2>1, AppendElements
    <3> HIDE DEF e
    <3>2. \A d \in Clients : Len(client_queue[d]) <= mq_maxmsg
      BY DEF RegistrationInv, Shape
    <3>3. \A d \in Clients :
            client_queue'[d] = IF d = c THEN Append(client_queue[c], e)
                                        ELSE client_queue[d]
      BY <2>1, <2>3
    <3>4. client_queue' \in [Clients -> Seq(ClientMsgs)]
      BY <2>1, <2>3, <3>1
    <3> QED
      BY <2>3, <3>1, <3>2, <3>3, <3>4, MqChatAssumption
  <2> QED
    BY <1>4, <2>2, <2>3
<1>6. Shape'
  <2>1. next_client' \in 1 .. client_count' + 1
    BY <1>1, ListedIndices DEF RegistrationInv, client_count
  <2> QED
    BY <1>1, <1>5, <2>1 DEF RegistrationInv, Shape
<1>7. \A d : /\ Listed(d)' <=> Listed(d)
            /\ \A k : Asks(d, k)' <=> Asks(d, k)
  BY <1>1 DEF Listed, Asks
<1>8. AskedOnce'
  BY <1>1, <1>7 DEF RegistrationInv, AskedOnce
<1>9. IdComesFirst'
  <2>1. Listed(c)
    BY <1>1, <1>2 DEF Listed
  <2>2. \A d \in Clients : ~Listed(d)' => client_queue'[d] = <<>>
    BY <1>5, <1>7, <2>1 DEF RegistrationInv, IdComesFirst
  <2>3. ASSUME NEW i \in DOMAIN clients, client[clients[i]] = "await_id"
        PROVE  /\ client_queue'[clients[i]] # <<>>
               /\ Head(client_queue'[clients[i]]) = IdMsg(i - 1)
    <3>1. /\ client_queue[clients[i]] # <<>>
          /\ Head(client_queue[clients[i]]) = IdMsg(i - 1)
      BY <1>1, <2>3 DEF RegistrationInv, IdComesFirst
    <3> QED
      BY <3>1, <1>5, ListedIndices DEF RegistrationInv
  <2> QED
    BY <1>1, <2>2, <2>3 DEF IdComesFirst
<1>10. RunningKnowsItsId'
  BY <1>1 DEF RegistrationInv, RunningKnowsItsId, client_count
<1> QED
  BY <1>6, <1>8, <1>9, <1>10 DEF RegistrationInv

LEMMA ServerRestsRegistration ==
  ASSUME RegistrationInv, BroadcastEnds \/ ServerCleanup
  PROVE  RegistrationInv'
<1>1. /\ UNCHANGED <<clients, server_queue, client, client_id, linked, typed,
                     client_queue, shown>>
      /\ \/ server = "broadcast" /\ server' = "receive"
            /\ sending' = NoLine /\ next_client' = 1
         \/ server' = "off" /\ UNCHANGED <<sending, next_client>>
  BY DEF BroadcastEnds, ServerCleanup, clientVars
<1>2. NoLine \in Sendings
  BY NoLineIsSending
<1>3. Shape'
  BY <1>1, <1>2, ListedIndices DEF RegistrationInv, Shape, client_count
<1>4. \A d : /\ Listed(d)' <=> Listed(d)
            /\ \A k : Asks(d, k)' <=> Asks(d, k)
  BY <1>1 DEF Listed, Asks
<1>5. AskedOnce'
  BY <1>1, <1>4 DEF RegistrationInv, AskedOnce
<1>6. IdComesFirst'
  BY <1>1, <1>4 DEF RegistrationInv, IdComesFirst, client_count
<1>7. RunningKnowsItsId'
  BY <1>1 DEF RegistrationInv, RunningKnowsItsId, client_count
<1> QED
  BY <1>3, <1>5, <1>6, <1>7 DEF RegistrationInv

-----------------------------------------------------------------------------
(* The clients.                                                             *)

LEMMA OpenRegistration ==
  ASSUME RegistrationInv, NEW c \in Clients, Open(c) \/ Exit(c)
  PROVE  RegistrationInv'
<1>1. /\ UNCHANGED <<server, clients, sending, next_client, server_queue,
                     client_id, typed, client_queue, shown>>
      /\ linked' \subseteq Clients
      /\ \/ client[c] = "start" /\ client' = [client EXCEPT ![c] = "opened"]
         \/ client' = [client EXCEPT ![c] = "gone"]
  BY DEF Open, Exit, RegistrationInv, Shape, serverVars
<1>2. Shape'
  BY <1>1 DEF RegistrationInv, Shape, client_count
<1>3. \A d : /\ Listed(d)' <=> Listed(d)
            /\ \A k : Asks(d, k)' <=> Asks(d, k)
  BY <1>1 DEF Listed, Asks
<1>4. \A d \in Clients :
        \/ client'[d] = client[d]
        \/ d = c /\ client'[d] = "opened" /\ client[d] = "start"
        \/ d = c /\ client'[d] = "gone"
  BY <1>1 DEF RegistrationInv, Shape
<1>5. AskedOnce'
  BY <1>1, <1>3, <1>4 DEF RegistrationInv, AskedOnce
<1>6. IdComesFirst'
  BY <1>1, <1>3, <1>4, ListedIndices
  DEF RegistrationInv, IdComesFirst, client_count
<1>7. RunningKnowsItsId'
  BY <1>1, <1>4 DEF RegistrationInv, RunningKnowsItsId, client_count
<1> QED
  BY <1>2, <1>5, <1>6, <1>7 DEF RegistrationInv

LEMMA SendInitRegistration ==
  ASSUME RegistrationInv, NEW c \in Clients, SendInit(c)
  PROVE  RegistrationInv'
<1> DEFINE S == InitMsgs \cup LineMsgs
<1>1. /\ client[c] = "opened" /\ server_queue' = Append(server_queue, InitMsg(c))
      /\ Len(server_queue) < mq_maxmsg
      /\ client' = [client EXCEPT ![c] = "await_id"]
      /\ UNCHANGED <<server, clients, sending, next_client, client_id, linked,
                     typed, client_queue, shown>>
  <2>1. Len(server_queue) \in Nat /\ mq_maxmsg \in Nat
    BY MqChatAssumption DEF RegistrationInv, Shape
  <2> QED
    BY <2>1 DEF SendInit, Full, serverVars
<1>2. server_queue \in Seq(S) /\ InitMsg(c) \in S
  BY DEF RegistrationInv, Shape, InitMsgs
<1>3. /\ server_queue' \in Seq(S) /\ Len(server_queue') = Len(server_queue) + 1
      /\ DOMAIN server_queue = 1 .. Len(server_queue)
      /\ Len(server_queue) \in Nat
      /\ DOMAIN server_queue' = 1 .. Len(server_queue) + 1
      /\ \A k \in DOMAIN server_queue : server_queue'[k] = server_queue[k]
      /\ server_queue'[Len(server_queue) + 1] = InitMsg(c)
  <2> HIDE DEF S
  <2> QED
    BY <1>1, <1>2, AppendElements
<1>4. Shape'
  <2>1. Len(server_queue') <= mq_maxmsg
    BY <1>1, <1>3, MqChatAssumption
  <2>2. client' \in [Clients -> {"start", "opened", "await_id", "running", "gone"}]
    BY <1>1 DEF RegistrationInv, Shape
  <2> QED
    BY <1>1, <1>3, <2>1, <2>2 DEF RegistrationInv, Shape, client_count
<1>5. ~Listed(c) /\ \A k : ~Asks(c, k)
  BY <1>1 DEF RegistrationInv, AskedOnce
<1>6. \A d : Listed(d)' <=> Listed(d)
  BY <1>1 DEF Listed
<1>7. \A d, k : Asks(d, k)' =>
        Asks(d, k) \/ (d = c /\ k = Len(server_queue) + 1)
  BY <1>3, Messages DEF Asks
<1>8. \A d \in Clients : IF d = c THEN client'[d] = "await_id"
                                  ELSE client'[d] = client[d]
  BY <1>1 DEF RegistrationInv, Shape
<1>9. AskedOnce'
  <2>1. \A d \in Clients : \A k, l : Asks(d, k)' /\ Asks(d, l)' => k = l
    BY <1>5, <1>7 DEF RegistrationInv, AskedOnce
  <2>2. \A d \in Clients : \A k :
          Asks(d, k)' => ~Listed(d)' /\ client'[d] \notin {"start", "opened"}
    BY <1>5, <1>6, <1>7, <1>8 DEF RegistrationInv, AskedOnce
  <2> QED
    BY <1>1, <1>6, <1>8, <2>1, <2>2 DEF RegistrationInv, AskedOnce
<1>10. IdComesFirst'
  <2>1. \A i \in DOMAIN clients : clients[i] \in Clients \ {c}
    BY <1>5, ListedIndices DEF RegistrationInv, Listed
  <2> QED
    BY <1>1, <1>6, <1>8, <2>1 DEF RegistrationInv, IdComesFirst, client_count
<1>11. RunningKnowsItsId'
  BY <1>1, <1>8 DEF RegistrationInv, RunningKnowsItsId, client_count
<1> QED
  BY <1>4, <1>9, <1>10, <1>11 DEF RegistrationInv

LEMMA ReceiveIdRegistration ==
  ASSUME RegistrationInv, NEW c \in Clients, ReceiveId(c)
  PROVE  RegistrationInv'
<1>1. /\ client[c] = "await_id" /\ client_queue[c] # <<>>
      /\ client_queue' = [client_queue EXCEPT ![c] = Tail(@)]
      /\ client' = [client EXCEPT ![c] = "running"]
      /\ client_id' = [client_id EXCEPT
                         ![c] = IF Head(client_queue[c]).type = "ID"
                                THEN Head(client_queue[c]).id ELSE @]
      /\ UNCHANGED <<server, clients, sending, next_client, server_queue,
                     linked, typed, shown>>
  BY DEF ReceiveId, serverVars
<1>2. PICK n \in DOMAIN clients : clients[n] = c
  BY <1>1 DEF RegistrationInv, IdComesFirst, Listed
<1>3. Head(client_queue[c]) = IdMsg(n - 1)
  BY <1>1, <1>2 DEF RegistrationInv, IdComesFirst
<1>4. client_id' = [client_id EXCEPT ![c] = n - 1] /\ n - 1 \in 0 .. MAX_CLIENTS
  <2>1. IdMsg(n - 1).type = "ID" /\ IdMsg(n - 1).id = n - 1
    BY DEF IdMsg
  <2>2. n - 1 \in 0 .. MAX_CLIENTS
    BY ListedIndices DEF RegistrationInv
  <2> QED
    BY <1>1, <1>3, <2>1, <2>2
<1>5. /\ client_queue' \in [Clients -> Seq(ClientMsgs)]
      /\ \A d \in Clients : /\ Len(client_queue'[d]) <= mq_maxmsg
                            /\ d # c => client_queue'[d] = client_queue[d]
  BY <1>1, TakesOne DEF RegistrationInv, Shape
<1>6. Shape'
  BY <1>1, <1>4, <1>5 DEF RegistrationInv, Shape, client_count
<1>7. \A d : /\ Listed(d)' <=> Listed(d)
            /\ \A k : Asks(d, k)' <=> Asks(d, k)
  BY <1>1 DEF Listed, Asks
<1>8. \A d \in Clients : IF d = c THEN client'[d] = "running"
                                  ELSE client'[d] = client[d]
  BY <1>1 DEF RegistrationInv, Shape
<1>9. AskedOnce'
  BY <1>1, <1>7, <1>8 DEF RegistrationInv, AskedOnce
<1>10. IdComesFirst'
  <2>1. Listed(c)
    BY <1>2 DEF Listed
  <2>2. \A d \in Clients : ~Listed(d)' => client_queue'[d] = <<>>
    BY <1>5, <1>7, <2>1 DEF RegistrationInv, IdComesFirst
  <2>3. server' = "reply" =>
          client_count' > 0 /\ client_queue'[clients'[client_count']] = <<>>
    <3>1. SUFFICES ASSUME server = "reply"
          PROVE  client_count > 0 /\ client_queue'[clients[client_count]] = <<>>
      BY <1>1 DEF client_count
    <3>2. /\ client_count > 0 /\ client_queue[clients[client_count]] = <<>>
          /\ clients[client_count] \in Clients
      BY <3>1, ListedIndices DEF RegistrationInv, IdComesFirst
    <3> QED
      BY <3>2, <1>1, <1>5
  <2>4. ASSUME NEW i \in DOMAIN clients, client'[clients[i]] = "await_id"
        PROVE  /\ client'[clients[i]] = client[clients[i]]
               /\ client_queue'[clients[i]] = client_queue[clients[i]]
    BY <2>4, <1>5, <1>8, ListedIndices DEF RegistrationInv
  <2>5. client_count' = client_count
    BY <1>1 DEF client_count
  <2>6. ASSUME NEW i \in DOMAIN clients', client'[clients'[i]] = "await_id"
        PROVE  LET q == client_queue'[clients'[i]]
               IN  \/ q = <<>> /\ server' = "off"
                   \/ q = <<>> /\ server' = "reply" /\ i = client_count'
                   \/ q # <<>> /\ Head(q) = IdMsg(i - 1)
    BY <2>4, <2>5, <2>6, <1>1 DEF RegistrationInv, IdComesFirst
  <2> QED
    BY <2>2, <2>3, <2>6 DEF IdComesFirst
<1>11. RunningKnowsItsId'
  <2>1. n - 1 < client_count /\ clients[(n - 1) + 1] = c
    BY <1>2, ListedIndices DEF RegistrationInv
  <2>2. \A d \in Clients :
          client_id'[d] = IF d = c THEN n - 1 ELSE client_id[d]
    BY <1>4 DEF RegistrationInv, Shape
  <2> QED
    BY <1>1, <1>8, <2>1, <2>2
    DEF RegistrationInv, RunningKnowsItsId, client_count
<1> QED
  BY <1>6, <1>9, <1>10, <1>11 DEF RegistrationInv

LEMMA SendLineRegistration ==
  ASSUME RegistrationInv, NEW c \in Clients, SendLine(c)
  PROVE  RegistrationInv'
<1> DEFINE S == InitMsgs \cup LineMsgs
           m == LineMsg(client_id[c], c)
<1>1. /\ typed[c] < Len(Script[c]) /\ server_queue' = Append(server_queue, m)
      /\ Len(server_queue) < mq_maxmsg
      /\ typed' = [typed EXCEPT ![c] = @ + 1]
      /\ UNCHANGED <<server, clients, sending, next_client, client, client_id,
                     linked, client_queue, shown>>
  <2>1. Len(server_queue) \in Nat /\ mq_maxmsg \in Nat
    BY MqChatAssumption DEF RegistrationInv, Shape
  <2> QED
    BY <2>1 DEF SendLine, Full, serverVars
<1>2. m \in LineMsgs
  <2>1. typed[c] + 1 \in DOMAIN Script[c]
    BY <1>1, MqChatAssumption DEF RegistrationInv, Shape
  <2>2. <<c, typed[c] + 1>> \in TypedLines
    <3>1. <<c, typed[c] + 1>> \in LinesOf(c)
      BY <2>1 DEF LinesOf
    <3> QED
      BY <3>1, Zenon DEF TypedLines
  <2> QED
    BY <2>2 DEF RegistrationInv, Shape, LineMsg, LineMsgs
<1>3. \A d : m # InitMsg(d)
  BY DEF LineMsg, InitMsg
<1>4. /\ server_queue' \in Seq(S) /\ Len(server_queue') = Len(server_queue) + 1
      /\ DOMAIN server_queue = 1 .. Len(server_queue)
      /\ Len(server_queue) \in Nat
      /\ DOMAIN server_queue' = 1 .. Len(server_queue) + 1
      /\ \A k \in DOMAIN server_queue : server_queue'[k] = server_queue[k]
      /\ server_queue'[Len(server_queue) + 1] = m
  <2>1. server_queue \in Seq(S) /\ m \in S
    BY <1>2 DEF RegistrationInv, Shape
  <2> HIDE DEF S, m
  <2> QED
    BY <1>1, <2>1, AppendElements
<1>5. Shape'
  <2>1. Len(server_queue') <= mq_maxmsg
    BY <1>1, <1>4, MqChatAssumption
  <2>2. typed' \in [Clients -> Nat]
    BY <1>1 DEF RegistrationInv, Shape
  <2> QED
    BY <1>1, <1>4, <2>1, <2>2 DEF RegistrationInv, Shape, client_count
<1>6. \A d : /\ Listed(d)' <=> Listed(d)
            /\ \A k : Asks(d, k)' => Asks(d, k)
  <2>1. \A d : Listed(d)' <=> Listed(d)
    BY <1>1 DEF Listed
  <2>2. \A d, k : Asks(d, k)' => Asks(d, k)
    BY <1>3, <1>4 DEF Asks
  <2> QED
    BY <2>1, <2>2
<1>7. AskedOnce'
  BY <1>1, <1>6 DEF RegistrationInv, AskedOnce
<1>8. IdComesFirst' /\ RunningKnowsItsId'
  BY <1>1, <1>6
  DEF RegistrationInv, IdComesFirst, RunningKnowsItsId, client_count
<1> QED
  BY <1>5, <1>7, <1>8 DEF RegistrationInv

LEMMA ReceiverRegistration ==
  ASSUME RegistrationInv, NEW c \in Clients, Receiver(c)
  PROVE  RegistrationInv'
<1>1. /\ client[c] = "running" /\ client_queue[c] # <<>>
      /\ client_queue' = [client_queue EXCEPT ![c] = Tail(@)]
      /\ shown' = [shown EXCEPT ![c] = Append(@, Head(client_queue[c]))]
      /\ UNCHANGED <<server, clients, sending, next_client, server_queue,
                     client, client_id, linked, typed>>
  BY DEF Receiver, serverVars, clientVars
<1>2. /\ client_queue' \in [Clients -> Seq(ClientMsgs)]
      /\ \A d \in Clients : /\ Len(client_queue'[d]) <= mq_maxmsg
                            /\ d # c => client_queue'[d] = client_queue[d]
  BY <1>1, TakesOne DEF RegistrationInv, Shape
<1>3. shown' \in [Clients -> Seq(ClientMsgs)]
  <2>1. Head(client_queue[c]) \in ClientMsgs
    BY <1>1, TailElements DEF RegistrationInv, Shape
  <2> QED
    BY <1>1, <2>1, AppendElements DEF RegistrationInv, Shape
<1>4. Shape'
  BY <1>1, <1>2, <1>3 DEF RegistrationInv, Shape, client_count
<1>5. \A d : /\ Listed(d)' <=> Listed(d)
            /\ \A k : Asks(d, k)' <=> Asks(d, k)
  BY <1>1 DEF Listed, Asks
<1>6. AskedOnce'
  BY <1>1, <1>5 DEF RegistrationInv, AskedOnce
<1>7. IdComesFirst'
  <2>1. Listed(c)
    BY <1>1 DEF RegistrationInv, IdComesFirst
  <2>2. \A d \in Clients : ~Listed(d)' => client_queue'[d] = <<>>
    BY <1>2, <1>5, <2>1 DEF RegistrationInv, IdComesFirst
  <2>3. server' = "reply" =>
          client_count' > 0 /\ client_queue'[clients'[client_count']] = <<>>
    <3>1. SUFFICES ASSUME server = "reply"
          PROVE  client_count > 0 /\ client_queue'[clients[client_count]] = <<>>
      BY <1>1 DEF client_count
    <3>2. /\ client_count > 0 /\ client_queue[clients[client_count]] = <<>>
          /\ clients[client_count] \in Clients
      BY <3>1, ListedIndices DEF RegistrationInv, IdComesFirst
    <3> QED
      BY <3>2, <1>1, <1>2
  <2>4. ASSUME NEW i \in DOMAIN clients, client[clients[i]] = "await_id"
        PROVE  client_queue'[clients[i]] = client_queue[clients[i]]
    BY <2>4, <1>1, <1>2, ListedIndices DEF RegistrationInv
  <2>5. client_count' = client_count
    BY <1>1 DEF client_count
  <2>6. ASSUME NEW i \in DOMAIN clients', client'[clients'[i]] = "await_id"
        PROVE  LET q == client_queue'[clients'[i]]
               IN  \/ q = <<>> /\ server' = "off"
                   \/ q = <<>> /\ server' = "reply" /\ i = client_count'
                   \/ q # <<>> /\ Head(q) = IdMsg(i - 1)
    BY <2>4, <2>5, <2>6, <1>1 DEF RegistrationInv, IdComesFirst
  <2> QED
    BY <2>2, <2>3, <2>6 DEF IdComesFirst
<1>8. RunningKnowsItsId'
  BY <1>1 DEF RegistrationInv, RunningKnowsItsId, client_count
<1> QED
  BY <1>4, <1>6, <1>7, <1>8 DEF RegistrationInv

-----------------------------------------------------------------------------
LEMMA RegistrationStep == RegistrationInv /\ [Next]_vars => RegistrationInv'
<1> SUFFICES ASSUME RegistrationInv, [Next]_vars PROVE RegistrationInv'
  OBVIOUS
<1>1. CASE ServerStep
  BY <1>1, ReceiveInitRegistration, SendIdRegistration, ReceiveLineRegistration,
     BroadcastRegistration, ServerRestsRegistration DEF ServerStep
<1>2. CASE ServerCleanup
  BY <1>2, ServerRestsRegistration
<1>3. ASSUME NEW c \in Clients, ClientStep(c) PROVE RegistrationInv'
  BY <1>3, OpenRegistration, SendInitRegistration, ReceiveIdRegistration,
     SendLineRegistration, ReceiverRegistration DEF ClientStep
<1>4. CASE UNCHANGED vars
  BY <1>4 DEF vars, serverVars, clientVars, RegistrationInv, Shape, AskedOnce,
              IdComesFirst, RunningKnowsItsId, Listed, Asks, client_count
<1> QED
  BY <1>1, <1>2, <1>3, <1>4 DEF Next

LEMMA RegistrationCorrect == Spec => []RegistrationInv
<1> QED
  BY InitRegistration, RegistrationStep, PTL DEF Spec

(* No queue, table, id or loop index leaves its range.                      *)
THEOREM MqTypesCorrect == Spec => []TypeOK
<1>1. RegistrationInv => TypeOK
  BY DEF RegistrationInv, Shape, TypeOK, Sendings
<1> QED
  BY <1>1, RegistrationCorrect, PTL

(* The first message a client reads is its id: server.c:44-46 list it for   *)
(* broadcasts before they answer it, and client.c:66 takes what comes first.*)
THEOREM IdCorrect == Spec => []RunningKnowsItsId
<1>1. RegistrationInv => RunningKnowsItsId
  BY DEF RegistrationInv
<1> QED
  BY <1>1, RegistrationCorrect, PTL

(* The answer to an INIT finds an empty queue (server.c:46 never blocks).   *)
THEOREM AnswerFits == Spec => []IdAlwaysFits
<1>1. RegistrationInv => IdAlwaysFits
  BY DEF RegistrationInv, IdComesFirst, IdAlwaysFits
<1> QED
  BY <1>1, RegistrationCorrect, PTL

-----------------------------------------------------------------------------
(* The lines on their way, from the server's queue over the broadcast to the*)
(* streams of the clients.                                                  *)

Waits(k, n, t) ==
  /\ k \in DOMAIN server_queue
  /\ server_queue[k] = [type |-> "line", id |-> n, text |-> t]

Reads(c, i, n, t) ==
  i \in DOMAIN Stream(c) /\ Stream(c)[i] = ChatMsg(n, t) /\ t # Garbage

(* Line t was typed by the client that is registered with id n.             *)
Attributed(n, t) ==
  /\ n \in Nat /\ n < client_count /\ clients[n + 1] = t[1]
  /\ t \in TypedLines /\ t[2] <= typed[t[1]]

LinesAttributed ==
  /\ \A k, n, t : Waits(k, n, t) => Attributed(n, t)
  /\ sending.text # Garbage => Attributed(sending.id, sending.text)
  /\ \A c \in Clients : \A i, n, t :
       Reads(c, i, n, t) => Attributed(n, t) /\ t[1] # c

(* A line is in one place: it waits once, or it is the line being sent, or  *)
(* it was sent.                                                             *)
InOnePlace ==
  /\ \A k, l, m, n, t : Waits(k, m, t) /\ Waits(l, n, t) => k = l
  /\ \A k, n, t : Waits(k, n, t) => sending.text # t
  /\ \A c \in Clients : \A i, k, m, n, t : Waits(k, m, t) => ~Reads(c, i, n, t)

(* The line being broadcast is the last one that anybody has got, and only  *)
(* the clients in front of the loop index have got it.                      *)
SendingIsNewest ==
  /\ server \in {"receive", "reply"} => sending.text = Garbage
  /\ server = "broadcast" => \A c \in Clients : \A i, n :
       Reads(c, i, n, sending.text) =>
         /\ \E b \in 1 .. next_client - 1 : clients[b] = c
         /\ \A j, m, t : Reads(c, j, m, t) => j <= i

StreamsAgree ==
  /\ \A c \in Clients : \A i, j, m, n, t :
       Reads(c, i, m, t) /\ Reads(c, j, n, t) => i = j
  /\ \A c, d \in Clients : \A i, j, k, l, m, n, p, q, t, u :
       /\ Reads(c, i, m, t) /\ Reads(c, j, n, u) /\ i < j
       /\ Reads(d, l, p, t) /\ Reads(d, k, q, u)
       => l < k

NothingShown ==
  \A c \in Clients : client[c] \in {"start", "opened", "await_id"} =>
    shown[c] = <<>>

LinesInv ==
  /\ LinesAttributed /\ InOnePlace /\ SendingIsNewest /\ StreamsAgree
  /\ NothingShown

-----------------------------------------------------------------------------
(* The streams.                                                             *)

LEMMA StreamElements ==
  ASSUME Shape, NEW c \in Clients
  PROVE  /\ shown[c] \in Seq(ClientMsgs) /\ client_queue[c] \in Seq(ClientMsgs)
         /\ Stream(c) \in Seq(ClientMsgs) /\ Len(Stream(c)) \in Nat
         /\ DOMAIN Stream(c) = 1 .. Len(Stream(c))
<1>1. shown[c] \in Seq(ClientMsgs) /\ client_queue[c] \in Seq(ClientMsgs)
  BY DEF Shape
<1>2. Stream(c) \in Seq(ClientMsgs)
  BY <1>1, ConcatProperties DEF Stream
<1> QED
  BY <1>1, <1>2

LEMMA ConcatAppend ==
  ASSUME NEW S, NEW p \in Seq(S), NEW q \in Seq(S), NEW e \in S
  PROVE  p \o Append(q, e) = Append(p \o q, e)
<1>1. <<e>> \in Seq(S) /\ p \o q \in Seq(S)
  BY ConcatProperties
<1>2. Append(q, e) = q \o <<e>> /\ Append(p \o q, e) = (p \o q) \o <<e>>
  BY <1>1, AppendIsConcat
<1>3. (p \o q) \o <<e>> = p \o (q \o <<e>>)
  BY <1>1, ConcatAssociative
<1> QED
  BY <1>2, <1>3

(* A stream that gets one more message.                                     *)
LEMMA StreamAppend ==
  ASSUME Shape, NEW c \in Clients, NEW e \in ClientMsgs,
         shown'[c] = shown[c], client_queue'[c] = Append(client_queue[c], e)
  PROVE  /\ Stream(c)' = Append(Stream(c), e)
         /\ DOMAIN Stream(c)' = 1 .. Len(Stream(c)) + 1
         /\ \A i \in 1 .. Len(Stream(c)) : Stream(c)'[i] = Stream(c)[i]
         /\ Stream(c)'[Len(Stream(c)) + 1] = e
<1>1. /\ shown[c] \in Seq(ClientMsgs) /\ client_queue[c] \in Seq(ClientMsgs)
      /\ Stream(c) \in Seq(ClientMsgs) /\ DOMAIN Stream(c) = 1 .. Len(Stream(c))
  BY StreamElements
<1>2. Stream(c)' = shown[c] \o Append(client_queue[c], e)
  BY DEF Stream
<1>3. ASSUME NEW p \in Seq(ClientMsgs), NEW q \in Seq(ClientMsgs)
      PROVE  p \o Append(q, e) = Append(p \o q, e)
  BY ConcatAppend
<1>4. shown[c] \o Append(client_queue[c], e) = Append(shown[c] \o client_queue[c], e)
  BY <1>1, <1>3
<1>5. Stream(c)' = Append(Stream(c), e)
  BY <1>2, <1>4 DEF Stream
<1> QED
  BY <1>1, <1>5, AppendElements

(* The receiver moves a message from the queue to the screen.               *)
LEMMA StreamKept ==
  ASSUME NEW S, NEW p \in Seq(S), NEW q \in Seq(S), q # <<>>
  PROVE  Append(p, Head(q)) \o Tail(q) = p \o q
<1>1. Head(q) \in S /\ Tail(q) \in Seq(S) /\ <<Head(q)>> \in Seq(S)
  BY HeadTailProperties
<1>2. Append(p, Head(q)) = p \o <<Head(q)>>
  BY <1>1, AppendIsConcat
<1>3. <<Head(q)>> \o Tail(q) = q
  <2>1. /\ <<Head(q)>> \o Tail(q) \in Seq(S)
        /\ Len(<<Head(q)>> \o Tail(q)) = 1 + (Len(q) - 1)
        /\ \A i \in 1 .. 1 + (Len(q) - 1) : (<<Head(q)>> \o Tail(q))[i] =
             IF i <= 1 THEN <<Head(q)>>[i] ELSE Tail(q)[i - 1]
    BY <1>1, ConcatProperties, HeadTailProperties
  <2>2. Len(q) \in Nat \ {0} /\ Head(q) = q[1]
    BY TailElements
  <2>3. \A i \in 1 .. Len(q) : (<<Head(q)>> \o Tail(q))[i] = q[i]
    <3>1. \A i \in 1 .. Len(q) - 1 : Tail(q)[i] = q[i + 1]
      BY HeadTailProperties
    <3>2. ASSUME NEW i \in 1 .. Len(q), i # 1
          PROVE  Tail(q)[i - 1] = q[i]
      <4>1. i - 1 \in 1 .. Len(q) - 1 /\ (i - 1) + 1 = i
        BY <2>2, <3>2
      <4> QED
        BY <3>1, <4>1
    <3> QED
      BY <2>1, <2>2, <3>2
  <2> QED
    BY <2>1, <2>2, <2>3, SeqEqual
<1>4. (p \o <<Head(q)>>) \o Tail(q) = p \o (<<Head(q)>> \o Tail(q))
  BY <1>1, ConcatAssociative
<1> QED
  BY <1>2, <1>3, <1>4

LEMMA ChatMessages ==
  /\ \A m \in ClientMsgs : m.type = "chat" =>
       m = ChatMsg(m.id, m.text) /\ m.id \in 0 .. MAX_CLIENTS /\ m.text \in Lines
  /\ \A m, n, t, u : ChatMsg(m, t) = ChatMsg(n, u) => m = n /\ t = u
  /\ \A n, t : /\ ChatMsg(n, t).type = "chat" /\ ChatMsg(n, t).id = n
               /\ ChatMsg(n, t).text = t /\ \A m : ChatMsg(n, t) # IdMsg(m)
<1>1. \A m \in ClientMsgs : m.type = "chat" =>
        m \in [type : {"chat"}, id : 0 .. MAX_CLIENTS, text : Lines]
  BY DEF ClientMsgs
<1>2. \A m \in [type : {"chat"}, id : 0 .. MAX_CLIENTS, text : Lines] :
        m = ChatMsg(m.id, m.text) /\ m.id \in 0 .. MAX_CLIENTS /\ m.text \in Lines
  BY DEF ChatMsg
<1>3. \A m, n, t, u : ChatMsg(m, t) = ChatMsg(n, u) => m = n /\ t = u
  BY DEF ChatMsg
<1>4. \A n, t : /\ ChatMsg(n, t).type = "chat" /\ ChatMsg(n, t).id = n
                /\ ChatMsg(n, t).text = t /\ \A m : ChatMsg(n, t) # IdMsg(m)
  BY DEF ChatMsg, IdMsg
<1> QED
  BY <1>1, <1>2, <1>3, <1>4

LEMMA TypedLine ==
  /\ \A t \in TypedLines : t[1] \in Clients /\ t[2] \in Nat \ {0} /\ t # Garbage
  /\ \A t \in Lines : t # Garbage => t \in TypedLines
  /\ \A c \in Clients : \A n : n \in DOMAIN Script[c] => <<c, n>> \in TypedLines
<1>1. \A c \in Clients : \A t \in LinesOf(c) :
        t[1] \in Clients /\ t[2] \in Nat \ {0} /\ t # Garbage
  BY MqChatAssumption DEF LinesOf, Garbage
<1>2. \A t \in TypedLines : \E c \in Clients : t \in LinesOf(c)
  BY Zenon DEF TypedLines
<1>3. \A t \in Lines : t # Garbage => t \in TypedLines
  BY Zenon DEF Lines, TypedLines
<1>4. \A c \in Clients : \A n : n \in DOMAIN Script[c] => <<c, n>> \in LinesOf(c)
  BY DEF LinesOf
<1>5. \A c \in Clients : \A t \in LinesOf(c) : t \in TypedLines
  BY Zenon DEF TypedLines
<1> QED
  BY <1>1, <1>2, <1>3, <1>4, <1>5

-----------------------------------------------------------------------------
(* No step takes a client off the table or a line back.                     *)
LEMMA TableGrows ==
  ASSUME RegistrationInv, [Next]_vars
  PROVE  /\ client_count \in Nat /\ client_count' \in Nat
         /\ client_count <= client_count'
         /\ \A i \in 1 .. client_count : clients'[i] = clients[i]
         /\ \A c \in Clients : typed[c] \in Nat /\ typed[c] <= typed'[c]
<1>1. /\ clients \in Seq(Clients) /\ client_count \in Nat
      /\ \A c \in Clients : typed[c] \in Nat /\ typed \in [Clients -> Nat]
  BY ListedIndices DEF RegistrationInv, Shape
<1>2. \/ UNCHANGED clients
      \/ \E c \in Clients : clients' = Append(clients, c)
  <2>1. CASE ReceiveInit
    <3>1. Head(server_queue).queue \in Clients
      BY <2>1, FirstMessage, Messages DEF ReceiveInit, RegistrationInv
    <3> QED
      BY <2>1, <3>1 DEF ReceiveInit
  <2>2. CASE ~ReceiveInit
    BY <2>2 DEF Next, vars, serverVars, ServerStep, SendId, ReceiveLine,
      BroadcastToNext, BroadcastEnds, ServerCleanup, ClientStep, Open, SendInit,
      ReceiveId, SendLine, Receiver, Exit
  <2> QED
    BY <2>1, <2>2
<1>3. \/ UNCHANGED typed
      \/ \E c \in Clients : typed' = [typed EXCEPT ![c] = @ + 1]
  BY DEF Next, vars, clientVars, ServerStep, ReceiveInit, SendId, ReceiveLine,
    BroadcastToNext, BroadcastEnds, ServerCleanup, ClientStep, Open, SendInit,
    ReceiveId, SendLine, Receiver, Exit
<1>4. \A c \in Clients : typed[c] <= typed'[c]
  BY <1>1, <1>3
<1>5. /\ client_count' \in Nat /\ client_count <= client_count'
      /\ \A i \in 1 .. client_count : clients'[i] = clients[i]
  <2>1. CASE UNCHANGED clients
    BY <1>1, <2>1 DEF client_count
  <2>2. ASSUME NEW c \in Clients, clients' = Append(clients, c)
        PROVE  /\ Len(clients') = Len(clients) + 1
               /\ \A i \in 1 .. Len(clients) : clients'[i] = clients[i]
    BY <1>1, <2>2, AppendElements
  <2>3. CASE \E c \in Clients : clients' = Append(clients, c)
    BY <1>1, <2>2, <2>3 DEF client_count
  <2> QED
    BY <1>2, <2>1, <2>3
<1> QED
  BY <1>1, <1>4, <1>5

LEMMA AttributedStays ==
  ASSUME RegistrationInv, [Next]_vars, NEW n, NEW t, Attributed(n, t)
  PROVE  Attributed(n, t)'
<1>1. t[1] \in Clients /\ t[2] \in Nat
  BY TypedLine DEF Attributed
<1>2. /\ client_count \in Nat /\ client_count' \in Nat
      /\ client_count <= client_count'
      /\ \A i \in 1 .. client_count : clients'[i] = clients[i]
      /\ typed[t[1]] \in Nat /\ typed[t[1]] <= typed'[t[1]]
  BY <1>1, TableGrows
<1>3. typed'[t[1]] \in Nat
  BY <1>1, RegistrationStep DEF RegistrationInv, Shape
<1>4. n \in Nat /\ n < client_count' /\ clients'[n + 1] = t[1]
  BY <1>2 DEF Attributed
<1>5. t[2] <= typed'[t[1]]
  BY <1>1, <1>2, <1>3 DEF Attributed
<1> QED
  BY <1>4, <1>5 DEF Attributed

-----------------------------------------------------------------------------
LEMMA NoneRead ==
  ASSUME RegistrationInv, UNCHANGED <<shown, client_queue>>
  PROVE  \A c \in Clients : \A i, n, t : Reads(c, i, n, t)' =>
           i \in Nat /\ Reads(c, i + 0, n, t)
<1>1. ASSUME NEW c \in Clients, NEW i, NEW n, NEW t, Reads(c, i, n, t)'
      PROVE  i \in Nat /\ Reads(c, i + 0, n, t)
  <2>1. Stream(c)' = Stream(c)
    BY DEF Stream
  <2>2. Reads(c, i, n, t)
    BY <1>1, <2>1 DEF Reads
  <2>3. i \in Nat
    BY <2>2, StreamElements DEF Reads, RegistrationInv
  <2> QED
    BY <2>2, <2>3
<1> QED
  BY <1>1

(* A step that takes f[c] messages off the front of the stream of c.        *)
LEMMA StreamsStay ==
  ASSUME RegistrationInv, LinesInv, [Next]_vars, NEW f \in [Clients -> {0, 1}],
         \A c \in Clients : \A i, n, t : Reads(c, i, n, t)' =>
           i \in Nat /\ Reads(c, i + f[c], n, t)
  PROVE  /\ \A c \in Clients : \A i, n, t :
              Reads(c, i, n, t)' => Attributed(n, t)' /\ t[1] # c
         /\ StreamsAgree'
<1>1. ASSUME NEW c \in Clients, NEW i, NEW n, NEW t, Reads(c, i, n, t)'
      PROVE  Attributed(n, t)' /\ t[1] # c
  <2>1. Attributed(n, t) /\ t[1] # c
    BY <1>1 DEF LinesInv, LinesAttributed
  <2> QED
    BY <2>1, AttributedStays
<1>2. ASSUME NEW c \in Clients, NEW i, NEW j, NEW m, NEW n, NEW t,
             Reads(c, i, m, t)', Reads(c, j, n, t)'
      PROVE  i = j
  <2>1. /\ i \in Nat /\ Reads(c, i + f[c], m, t)
        /\ j \in Nat /\ Reads(c, j + f[c], n, t) /\ f[c] \in {0, 1}
    BY <1>2
  <2>2. i + f[c] = j + f[c]
    BY <2>1 DEF LinesInv, StreamsAgree
  <2> QED
    BY <2>1, <2>2
<1>3. ASSUME NEW c \in Clients, NEW d \in Clients, NEW i, NEW j, NEW k, NEW l,
             NEW m, NEW n, NEW p, NEW q, NEW t, NEW u,
             Reads(c, i, m, t)', Reads(c, j, n, u)', i < j,
             Reads(d, l, p, t)', Reads(d, k, q, u)'
      PROVE  l < k
  <2>1. /\ i \in Nat /\ Reads(c, i + f[c], m, t)
        /\ j \in Nat /\ Reads(c, j + f[c], n, u) /\ f[c] \in {0, 1}
    BY <1>3
  <2>2. /\ l \in Nat /\ Reads(d, l + f[d], p, t)
        /\ k \in Nat /\ Reads(d, k + f[d], q, u) /\ f[d] \in {0, 1}
    BY <1>3
  <2>3. i + f[c] < j + f[c]
    BY <1>3, <2>1
  <2>4. l + f[d] < k + f[d]
    BY <2>1, <2>2, <2>3 DEF LinesInv, StreamsAgree
  <2> QED
    BY <2>2, <2>4
<1> QED
  BY <1>1, <1>2, <1>3 DEF StreamsAgree

(* A step that puts no line anywhere: it may take the first message from the*)
(* server's queue, and from those of clients.                               *)
LEMMA LinesStay ==
  ASSUME RegistrationInv, LinesInv, [Next]_vars, NEW f \in [Clients -> {0, 1}],
         NEW w \in {0, 1},
         \A c \in Clients : \A i, n, t : Reads(c, i, n, t)' =>
           i \in Nat /\ Reads(c, i + f[c], n, t),
         \A k, n, t : Waits(k, n, t)' => k \in Nat /\ Waits(k + w, n, t),
         sending' \in {sending, NoLine},
         server' \in {"receive", "reply"} => sending'.text = Garbage,
         server' = "broadcast" =>
           /\ server = "broadcast" /\ UNCHANGED <<clients, sending>>
           /\ next_client \in Nat /\ next_client' \in Nat
           /\ next_client <= next_client',
         NothingShown'
  PROVE  LinesInv'
<1>1. NoLine.text = Garbage
  BY DEF NoLine, Garbage
<1>2. LinesAttributed'
  <2>1. ASSUME NEW k, NEW n, NEW t, Waits(k, n, t)' PROVE Attributed(n, t)'
    BY <2>1, AttributedStays DEF LinesInv, LinesAttributed
  <2>2. ASSUME sending'.text # Garbage
        PROVE  Attributed(sending.id, sending.text)'
    <3>1. sending' = sending
      BY <1>1, <2>2
    <3>2. Attributed(sending.id, sending.text)
      BY <2>2, <3>1 DEF LinesInv, LinesAttributed
    <3>3. PICK n, t : n = sending.id /\ t = sending.text
      OBVIOUS
    <3>4. Attributed(n, t)
      BY <3>2, <3>3
    <3>5. Attributed(n, t)'
      BY <3>4, AttributedStays
    <3> QED
      BY <3>1, <3>3, <3>5 DEF Attributed
  <2> QED
    BY <2>1, <2>2, StreamsStay DEF LinesAttributed
<1>3. InOnePlace'
  <2>1. ASSUME NEW k, NEW l, NEW m, NEW n, NEW t, Waits(k, m, t)', Waits(l, n, t)'
        PROVE  k = l
    <3>1. k \in Nat /\ l \in Nat /\ Waits(k + w, m, t) /\ Waits(l + w, n, t)
      BY <2>1
    <3>2. k + w = l + w
      BY <3>1 DEF LinesInv, InOnePlace
    <3> QED
      BY <3>1, <3>2
  <2>2. ASSUME NEW k, NEW n, NEW t, Waits(k, n, t)'
        PROVE  sending'.text # t
    <3>1. sending.text # t
      BY <2>2 DEF LinesInv, InOnePlace
    <3>2. t # Garbage
      BY <2>2, TypedLine DEF LinesInv, LinesAttributed, Attributed
    <3> QED
      BY <1>1, <3>1, <3>2
  <2>3. ASSUME NEW c \in Clients, NEW i, NEW k, NEW m, NEW n, NEW t,
               Waits(k, m, t)', Reads(c, i, n, t)'
        PROVE  FALSE
    BY <2>3 DEF LinesInv, InOnePlace
  <2> QED
    BY <2>1, <2>2, <2>3 DEF InOnePlace
<1>4. SendingIsNewest'
  <2>1. ASSUME server' = "broadcast", NEW c \in Clients, NEW i, NEW n,
               Reads(c, i, n, sending.text)'
        PROVE  /\ \E b \in 1 .. next_client' - 1 : clients'[b] = c
               /\ \A j, m, t : Reads(c, j, m, t)' => j <= i
    <3>1. PICK s : s = sending.text /\ sending' = sending
      BY <2>1
    <3>2. Reads(c, i, n, s)'
      BY <2>1, <3>1 DEF Reads
    <3>3. i \in Nat /\ Reads(c, i + f[c], n, sending.text) /\ f[c] \in {0, 1}
      BY <3>1, <3>2
    <3>4. /\ \E b \in 1 .. next_client - 1 : clients[b] = c
          /\ \A j, m, t : Reads(c, j, m, t) => j <= i + f[c]
      BY <2>1, <3>3 DEF LinesInv, SendingIsNewest
    <3>5. \E b \in 1 .. next_client' - 1 : clients'[b] = c
      BY <2>1, <3>4
    <3>6. ASSUME NEW j, NEW m, NEW t, Reads(c, j, m, t)' PROVE j <= i
      <4>1. j \in Nat /\ j + f[c] <= i + f[c]
        BY <3>4, <3>6
      <4> QED
        BY <3>3, <4>1
    <3> QED
      BY <3>5, <3>6
  <2> QED
    BY <2>1 DEF SendingIsNewest
<1> QED
  BY <1>2, <1>3, <1>4, StreamsStay DEF LinesInv

-----------------------------------------------------------------------------
(* The server's steps.                                                      *)

LEMMA SameWaits ==
  ASSUME RegistrationInv, UNCHANGED server_queue
  PROVE  \A k, n, t : Waits(k, n, t)' => k \in Nat /\ Waits(k + 0, n, t)
<1>1. DOMAIN server_queue \subseteq Nat
  BY DEF RegistrationInv, Shape
<1> QED
  BY <1>1 DEF Waits

LEMMA TakenWaits ==
  ASSUME RegistrationInv, server_queue # <<>>, server_queue' = Tail(server_queue)
  PROVE  \A k, n, t : Waits(k, n, t)' => k \in Nat /\ Waits(k + 1, n, t)
<1> QED
  BY FirstMessage DEF RegistrationInv, Waits

LEMMA ReceiveInitLines ==
  ASSUME RegistrationInv, LinesInv, ReceiveInit
  PROVE  LinesInv'
<1>1. /\ server = "receive" /\ server_queue # <<>>
      /\ server_queue' = Tail(server_queue) /\ server' \in {"receive", "reply"}
      /\ UNCHANGED <<sending, client, client_queue, shown>>
  BY DEF ReceiveInit, clientVars
<1>2. [Next]_vars
  BY DEF Next, ServerStep
<1>3. \A c \in Clients : \A i, n, t : Reads(c, i, n, t)' =>
        i \in Nat /\ Reads(c, i + [x \in Clients |-> 0][c], n, t)
  BY <1>1, NoneRead
<1>4. \A k, n, t : Waits(k, n, t)' => k \in Nat /\ Waits(k + 1, n, t)
  BY <1>1, TakenWaits
<1>5. NothingShown'
  BY <1>1 DEF LinesInv, NothingShown
<1>6. sending'.text = Garbage
  BY <1>1 DEF LinesInv, SendingIsNewest
<1>7. [x \in Clients |-> 0] \in [Clients -> {0, 1}]
  OBVIOUS
<1> QED
  BY <1>1, <1>2, <1>3, <1>4, <1>5, <1>6, <1>7, LinesStay

LEMMA SendIdLines ==
  ASSUME RegistrationInv, LinesInv, SendId
  PROVE  LinesInv'
<1>1. /\ server = "reply" /\ server' = "receive"
      /\ UNCHANGED <<clients, sending, server_queue, client, shown>>
      /\ client_count \in DOMAIN clients
  BY ListedIndices DEF SendId, clientVars, RegistrationInv, IdComesFirst
<1>2. PICK c \in Clients : /\ c = clients[client_count]
                           /\ client_queue' = [client_queue EXCEPT
                                ![c] = Append(@, IdMsg(client_count - 1))]
  BY <1>1, ListedIndices DEF SendId, RegistrationInv
<1>3. [Next]_vars
  BY DEF Next, ServerStep
<1> DEFINE e == IdMsg(client_count - 1)
<1>4. e \in ClientMsgs
  BY <1>1, ListedIndices DEF RegistrationInv, IdMsg, ClientMsgs
<1>5. /\ client_queue'[c] = Append(client_queue[c], e)
      /\ \A d \in Clients \ {c} : client_queue'[d] = client_queue[d]
      /\ \A d \in Clients : shown'[d] = shown[d]
  BY <1>1, <1>2 DEF RegistrationInv, Shape
<1>6. /\ DOMAIN Stream(c)' = 1 .. Len(Stream(c)) + 1 /\ Len(Stream(c)) \in Nat
      /\ DOMAIN Stream(c) = 1 .. Len(Stream(c))
      /\ \A i \in 1 .. Len(Stream(c)) : Stream(c)'[i] = Stream(c)[i]
      /\ Stream(c)'[Len(Stream(c)) + 1] = e
  <2> HIDE DEF e
  <2> QED
    BY <1>4, <1>5, StreamAppend, StreamElements DEF RegistrationInv
<1>7. \A n, t : e # ChatMsg(n, t)
  BY ChatMessages
<1>8. ASSUME NEW d \in Clients, NEW i, NEW n, NEW t, Reads(d, i, n, t)'
      PROVE  i \in Nat /\ Reads(d, i, n, t)
  <2> HIDE DEF e
  <2>1. CASE d = c
    <3>1. i \in DOMAIN Stream(c)' /\ Stream(c)'[i] = ChatMsg(n, t) /\ t # Garbage
      BY <1>8, <2>1 DEF Reads
    <3>2. i \in 1 .. Len(Stream(c))
      BY <1>6, <1>7, <3>1
    <3> QED
      BY <1>6, <2>1, <3>1, <3>2 DEF Reads
  <2>2. CASE d # c
    <3>1. Stream(d)' = Stream(d)
      BY <1>5, <2>2 DEF Stream
    <3>2. Reads(d, i, n, t)
      BY <1>8, <3>1 DEF Reads
    <3> QED
      BY <3>2, StreamElements DEF Reads, RegistrationInv
  <2> QED
    BY <2>1, <2>2
<1>9. \A d \in Clients : \A i, n, t : Reads(d, i, n, t)' =>
        i \in Nat /\ Reads(d, i + [x \in Clients |-> 0][d], n, t)
  BY <1>8
<1>10. \A k, n, t : Waits(k, n, t)' => k \in Nat /\ Waits(k + 0, n, t)
  BY <1>1, SameWaits
<1>11. NothingShown'
  BY <1>1 DEF LinesInv, NothingShown
<1>12. sending'.text = Garbage
  BY <1>1 DEF LinesInv, SendingIsNewest
<1>13. [x \in Clients |-> 0] \in [Clients -> {0, 1}]
  OBVIOUS
<1> QED
  BY <1>1, <1>3, <1>9, <1>10, <1>11, <1>12, <1>13, LinesStay

LEMMA ReceiveLineLines ==
  ASSUME RegistrationInv, LinesInv, ReceiveLine
  PROVE  LinesInv'
<1>1. /\ server = "receive" /\ server_queue # <<>> /\ next_client' = 1
      /\ Head(server_queue).type = "line" /\ server' = "broadcast"
      /\ server_queue' = Tail(server_queue)
      /\ sending' = [Head(server_queue) EXCEPT !.text = ReadText(@)]
      /\ UNCHANGED <<clients, client, typed, client_queue, shown>>
  BY DEF ReceiveLine, clientVars
<1>2. [Next]_vars
  BY DEF Next, ServerStep
<1>3. PICK n0, t0 : Head(server_queue) = [type |-> "line", id |-> n0, text |-> t0]
  <2>1. Head(server_queue) \in LineMsgs
    BY <1>1, FirstMessage, Messages DEF RegistrationInv
  <2> QED
    BY <2>1 DEF LineMsgs
<1>4. Waits(1, n0, t0)
  BY <1>1, <1>3, FirstMessage DEF RegistrationInv, Waits
<1>5. sending'.id = n0 /\ sending'.text \in {Garbage, t0}
  BY <1>1, <1>3 DEF ReadText
<1>6. \A k, n, t : Waits(k, n, t)' => k \in Nat /\ Waits(k + 1, n, t)
  BY <1>1, TakenWaits
<1>7. \A c \in Clients : \A i, n, t : Reads(c, i, n, t)' =>
        i \in Nat /\ Reads(c, i + [x \in Clients |-> 0][c], n, t)
  BY <1>1, NoneRead
<1>8. \A c \in Clients : \A i, n, t : Reads(c, i, n, t)' => Reads(c, i, n, t)
  <2>1. ASSUME NEW c \in Clients, NEW i, NEW n, NEW t, Reads(c, i, n, t)'
        PROVE  Reads(c, i, n, t)
    <3>1. i \in Nat /\ Reads(c, i + 0, n, t)
      BY <2>1, <1>1, NoneRead
    <3> QED
      BY <3>1
  <2> QED
    BY <2>1
<1>9. /\ \A c \in Clients : \A i, n, t :
           Reads(c, i, n, t)' => Attributed(n, t)' /\ t[1] # c
      /\ StreamsAgree'
  <2>1. [x \in Clients |-> 0] \in [Clients -> {0, 1}]
    OBVIOUS
  <2> QED
    BY <1>2, <1>7, <2>1, StreamsStay
<1>10. LinesAttributed'
  <2>1. ASSUME NEW k, NEW n, NEW t, Waits(k, n, t)' PROVE Attributed(n, t)'
    BY <2>1, <1>2, <1>6, AttributedStays DEF LinesInv, LinesAttributed
  <2>2. Attributed(n0, t0)'
    BY <1>2, <1>4, AttributedStays DEF LinesInv, LinesAttributed
  <2>3. (sending.text # Garbage => Attributed(sending.id, sending.text))'
    BY <1>5, <2>2 DEF Attributed
  <2> QED
    BY <1>9, <2>1, <2>3 DEF LinesAttributed
<1>11. InOnePlace'
  <2>1. ASSUME NEW k, NEW l, NEW m, NEW n, NEW t, Waits(k, m, t)', Waits(l, n, t)'
        PROVE  k = l
    <3>1. k \in Nat /\ l \in Nat /\ Waits(k + 1, m, t) /\ Waits(l + 1, n, t)
      BY <2>1, <1>6
    <3>2. k + 1 = l + 1
      BY <3>1 DEF LinesInv, InOnePlace
    <3> QED
      BY <3>1, <3>2
  <2>2. ASSUME NEW k, NEW n, NEW t, Waits(k, n, t)'
        PROVE  sending'.text # t
    <3>1. k \in Nat /\ Waits(k + 1, n, t)
      BY <2>2, <1>6
    <3>2. t # t0
      <4>1. DOMAIN server_queue \subseteq Nat \ {0} /\ k + 1 # 1
        BY <1>1, <2>2, FirstMessage DEF RegistrationInv, Waits, Shape
      <4> QED
        BY <1>4, <3>1, <4>1 DEF LinesInv, InOnePlace
    <3>3. t # Garbage
      BY <3>1, TypedLine DEF LinesInv, LinesAttributed, Attributed
    <3> QED
      BY <1>5, <3>2, <3>3
  <2>3. ASSUME NEW c \in Clients, NEW i, NEW k, NEW m, NEW n, NEW t,
               Waits(k, m, t)', Reads(c, i, n, t)'
        PROVE  FALSE
    BY <2>3, <1>6, <1>8 DEF LinesInv, InOnePlace
  <2> QED
    BY <2>1, <2>2, <2>3 DEF InOnePlace
<1>12. SendingIsNewest'
  <2>1. ASSUME NEW c \in Clients, NEW i, NEW n, Reads(c, i, n, sending.text)'
        PROVE  FALSE
    <3>1. PICK s : s = sending'.text
      OBVIOUS
    <3>2. Reads(c, i, n, s)'
      BY <2>1, <3>1 DEF Reads
    <3>3. Reads(c, i, n, s) /\ s # Garbage
      BY <1>8, <3>2 DEF Reads
    <3> QED
      BY <1>4, <1>5, <3>1, <3>3 DEF LinesInv, InOnePlace
  <2> QED
    BY <1>1, <2>1 DEF SendingIsNewest
<1>13. NothingShown'
  BY <1>1 DEF LinesInv, NothingShown
<1> QED
  BY <1>10, <1>11, <1>9, <1>12, <1>13 DEF LinesInv

LEMMA BroadcastLines ==
  ASSUME RegistrationInv, LinesInv, BroadcastToNext
  PROVE  LinesInv'
<1>1. /\ server = "broadcast" /\ next_client \in DOMAIN clients
      /\ next_client' = next_client + 1 /\ next_client \in Nat
      /\ UNCHANGED <<server, clients, sending, server_queue, client, typed, shown>>
  <2>1. next_client \in 1 .. client_count + 1
    BY DEF RegistrationInv, Shape
  <2>2. DOMAIN clients = 1 .. client_count /\ client_count \in Nat
    BY ListedIndices DEF RegistrationInv
  <2>3. /\ server = "broadcast" /\ next_client <= client_count
        /\ next_client' = next_client + 1
        /\ UNCHANGED <<server, clients, sending, server_queue, client, typed,
                       shown>>
    BY DEF BroadcastToNext, clientVars
  <2> QED
    BY <2>1, <2>2, <2>3
<1>2. [Next]_vars
  BY DEF Next, ServerStep
<1>3. \A k, n, t : Waits(k, n, t)' => k \in Nat /\ Waits(k + 0, n, t)
  BY <1>1, SameWaits
<1>4. NothingShown'
  BY <1>1 DEF LinesInv, NothingShown
<1>5. ASSUME \A c \in Clients : \A i, n, t :
               Reads(c, i, n, t)' => i \in Nat /\ Reads(c, i, n, t)
      PROVE  LinesInv'
  <2>1. [x \in Clients |-> 0] \in [Clients -> {0, 1}]
    OBVIOUS
  <2>2. \A c \in Clients : \A i, n, t : Reads(c, i, n, t)' =>
          i \in Nat /\ Reads(c, i + [x \in Clients |-> 0][c], n, t)
    BY <1>5
  <2>3. /\ server' = "broadcast" =>
             /\ server = "broadcast" /\ UNCHANGED <<clients, sending>>
             /\ next_client \in Nat /\ next_client' \in Nat
             /\ next_client <= next_client'
        /\ server' \notin {"receive", "reply"} /\ sending' = sending
    BY <1>1
  <2> QED
    BY <1>2, <1>3, <1>4, <2>1, <2>2, <2>3, LinesStay
<1>6. CASE UNCHANGED client_queue
  <2>1. ASSUME NEW c \in Clients, NEW i, NEW n, NEW t, Reads(c, i, n, t)'
        PROVE  i \in Nat /\ Reads(c, i, n, t)
    <3>1. i \in Nat /\ Reads(c, i + 0, n, t)
      BY <2>1, <1>1, <1>6, NoneRead
    <3> QED
      BY <3>1
  <2> QED
    BY <2>1, <1>5
<1>7. CASE ~UNCHANGED client_queue
  <2> DEFINE e == ChatMsg(sending.id, sending.text)
  <2>1. PICK c \in Clients :
          /\ c = clients[next_client] /\ next_client - 1 # sending.id
          /\ client_queue' = [client_queue EXCEPT ![c] = Append(@, e)]
    BY <1>1, <1>7, ListedIndices DEF BroadcastToNext, RegistrationInv
  <2>2. e \in ClientMsgs
    BY DEF RegistrationInv, Shape, Sendings, ChatMsg, ClientMsgs
  <2>3. /\ client_queue'[c] = Append(client_queue[c], e)
        /\ \A d \in Clients \ {c} : client_queue'[d] = client_queue[d]
        /\ \A d \in Clients : shown'[d] = shown[d]
    BY <1>1, <2>1 DEF RegistrationInv, Shape
  <2>4. PICK s, N : s = sending.text /\ N = Len(Stream(c))
    OBVIOUS
  <2>5. /\ DOMAIN Stream(c)' = 1 .. N + 1 /\ N \in Nat
        /\ DOMAIN Stream(c) = 1 .. N
        /\ \A i \in 1 .. N : Stream(c)'[i] = Stream(c)[i]
        /\ Stream(c)'[N + 1] = e
    <3> HIDE DEF e
    <3> QED
      BY <2>2, <2>3, <2>4, StreamAppend, StreamElements DEF RegistrationInv
  <2>6. ASSUME NEW d \in Clients, NEW i, NEW n, NEW t, Reads(d, i, n, t)'
        PROVE  /\ i \in Nat
               /\ Reads(d, i, n, t)
                  \/ (d = c /\ i = N + 1 /\ t = s /\ n = sending.id /\ s # Garbage)
    <3>1. CASE d = c
      <4>1. i \in 1 .. N + 1 /\ Stream(c)'[i] = ChatMsg(n, t) /\ t # Garbage
        BY <2>5, <2>6, <3>1 DEF Reads
      <4>2. CASE i = N + 1
        BY <2>4, <2>5, <3>1, <4>1, <4>2, ChatMessages
      <4>3. CASE i # N + 1
        BY <2>5, <3>1, <4>1, <4>3 DEF Reads
      <4> QED
        BY <4>2, <4>3
    <3>2. CASE d # c
      <4>1. Stream(d)' = Stream(d)
        BY <2>3, <3>2 DEF Stream
      <4>2. Reads(d, i, n, t)
        BY <2>6, <4>1 DEF Reads
      <4> QED
        BY <4>2, StreamElements DEF Reads, RegistrationInv
    <3> QED
      BY <3>1, <3>2
  <2>7. CASE s = Garbage
    BY <1>5, <2>6, <2>7
  <2>8. CASE s # Garbage
    <3> HIDE DEF e
    <3>1. /\ Attributed(sending.id, s) /\ s[1] # c /\ s \in TypedLines
          /\ Attributed(sending.id, s)'
      <4>1. Attributed(sending.id, s)
        BY <2>4, <2>8 DEF LinesInv, LinesAttributed
      <4>2. PICK n : n = sending.id
        OBVIOUS
      <4>3. Attributed(n, s)'
        BY <4>1, <4>2, <1>2, AttributedStays
      <4>4. s[1] # c
        BY <4>1, <1>1, <2>1, ListedIndices
        DEF Attributed, RegistrationInv, AskedOnce
      <4> QED
        BY <4>1, <4>2, <4>3, <4>4, <1>1 DEF Attributed
    <3>2. \A d \in Clients : \A i, n : Reads(d, i, n, s) =>
            /\ \E b \in 1 .. next_client - 1 : clients[b] = d
            /\ \A j, m, t : Reads(d, j, m, t) => j <= i
      BY <1>1, <2>4 DEF LinesInv, SendingIsNewest
    <3>3. \A i, n : ~Reads(c, i, n, s)
      <4>1. ASSUME NEW b \in 1 .. next_client - 1, clients[b] = c PROVE FALSE
        BY <4>1, <1>1, <2>1, ListedIndices DEF RegistrationInv, AskedOnce
      <4> QED
        BY <3>2, <4>1
    <3>4. \A i, n, t : Reads(c, i, n, t) => i \in 1 .. N
      BY <2>5 DEF Reads
    <3>5. \A d \in Clients : \A i, n, t : Reads(d, i, n, t) => i \in Nat
      BY StreamElements DEF RegistrationInv, Reads
    <3>6. LinesAttributed'
      <4>1. ASSUME NEW k, NEW n, NEW t, Waits(k, n, t)' PROVE Attributed(n, t)'
        <5>1. k \in Nat /\ Waits(k + 0, n, t)
          BY <1>3, <4>1
        <5> QED
          BY <5>1, <1>2, AttributedStays DEF LinesInv, LinesAttributed
      <4>2. ASSUME NEW d \in Clients, NEW i, NEW n, NEW t, Reads(d, i, n, t)'
            PROVE  Attributed(n, t)' /\ t[1] # d
        <5>1. CASE Reads(d, i, n, t)
          BY <5>1, <1>2, AttributedStays DEF LinesInv, LinesAttributed
        <5>2. CASE d = c /\ t = s /\ n = sending.id
          BY <5>2, <3>1, <1>1 DEF Attributed
        <5> QED
          BY <4>2, <5>1, <5>2, <2>6
      <4>3. (sending.text # Garbage => Attributed(sending.id, sending.text))'
        BY <1>1, <2>4, <3>1 DEF Attributed
      <4> QED
        BY <4>1, <4>2, <4>3 DEF LinesAttributed
    <3>7. InOnePlace'
      <4>1. \A k, n, t : Waits(k, n, t)' <=> Waits(k, n, t)
        BY <1>1 DEF Waits
      <4>2. \A k, n : ~Waits(k, n, s)
        BY <2>4 DEF LinesInv, InOnePlace
      <4>3. ASSUME NEW d \in Clients, NEW i, NEW k, NEW m, NEW n, NEW t,
                   Waits(k, m, t)', Reads(d, i, n, t)'
            PROVE  FALSE
        BY <4>1, <4>2, <4>3, <2>6 DEF LinesInv, InOnePlace
      <4> QED
        BY <1>1, <4>1, <4>3 DEF LinesInv, InOnePlace
    <3>8. SendingIsNewest'
      <4>1. ASSUME NEW d \in Clients, NEW i, NEW n, Reads(d, i, n, sending.text)'
            PROVE  /\ \E b \in 1 .. next_client' - 1 : clients'[b] = d
                   /\ \A j, m, t : Reads(d, j, m, t)' => j <= i
        <5>1. Reads(d, i, n, s)'
          BY <4>1, <1>1, <2>4 DEF Reads
        <5>2. CASE d = c
          <6>1. i = N + 1
            BY <5>1, <5>2, <2>6, <3>3
          <6>2. next_client \in 1 .. next_client' - 1 /\ clients'[next_client] = d
            BY <1>1, <2>1, <5>2, ListedIndices DEF RegistrationInv
          <6>3. \A j, m, t : Reads(d, j, m, t)' => j <= i
            BY <6>1, <5>2, <2>5, <2>6, <3>4
          <6> QED
            BY <6>2, <6>3
        <5>3. CASE d # c
          <6>1. Reads(d, i, n, s)
            BY <5>1, <5>3, <2>6
          <6>2. PICK b \in 1 .. next_client - 1 : clients[b] = d
            BY <6>1, <3>2
          <6>3. b \in 1 .. next_client' - 1 /\ clients'[b] = d
            BY <6>2, <1>1
          <6>4. \A j, m, t : Reads(d, j, m, t)' => j <= i
            BY <5>3, <6>1, <2>6, <3>2
          <6> QED
            BY <6>3, <6>4
        <5> QED
          BY <5>2, <5>3
      <4> QED
        BY <1>1, <4>1 DEF SendingIsNewest
    <3>9. ASSUME NEW d \in Clients, NEW i, NEW j, NEW m, NEW n, NEW t,
                 Reads(d, i, m, t)', Reads(d, j, n, t)'
          PROVE  i = j
      <4>1. CASE Reads(d, i, m, t) /\ Reads(d, j, n, t)
        BY <4>1 DEF LinesInv, StreamsAgree
      <4>2. CASE d = c /\ t = s
        BY <3>3, <3>9, <4>2, <2>6
      <4> QED
        BY <3>9, <4>1, <4>2, <2>6
    <3>10. ASSUME NEW a \in Clients, NEW d \in Clients, NEW i, NEW j, NEW k,
                  NEW l, NEW m, NEW n, NEW p, NEW q, NEW t, NEW u,
                  Reads(a, i, m, t)', Reads(a, j, n, u)', i < j,
                  Reads(d, l, p, t)', Reads(d, k, q, u)'
           PROVE  l < k
      <4>1. CASE /\ Reads(a, i, m, t) /\ Reads(a, j, n, u)
                 /\ Reads(d, l, p, t) /\ Reads(d, k, q, u)
        BY <3>10, <4>1 DEF LinesInv, StreamsAgree
      <4>2. t # u
        BY <3>9, <3>10, <2>6
      <4>3. t # s
        <5>1. SUFFICES ASSUME t = s PROVE FALSE
          OBVIOUS
        <5>2. i \in Nat /\ j \in Nat
          BY <3>10, <2>6
        <5>3. CASE a = c
          <6>1. i = N + 1 /\ j \in 1 .. N + 1
            BY <3>3, <3>4, <3>10, <5>1, <5>3, <2>5, <2>6
          <6> QED
            BY <6>1, <3>10, <2>5
        <5>4. CASE a # c
          <6>1. Reads(a, i, m, s) /\ Reads(a, j, n, u)
            BY <3>10, <5>1, <5>4, <2>6
          <6>2. j <= i
            BY <6>1, <3>2
          <6> QED
            BY <6>2, <5>2, <3>10
        <5> QED
          BY <5>3, <5>4
      <4>4. CASE u = s
        <5>1. Reads(a, i, m, t) /\ Reads(d, l, p, t)
          BY <3>10, <4>3, <2>6
        <5>2. CASE d = c
          <6>1. k = N + 1 /\ l \in 1 .. N
            BY <3>3, <3>4, <3>10, <4>4, <5>1, <5>2, <2>6
          <6> QED
            BY <6>1, <2>5
        <5>3. CASE d # c
          <6>1. Reads(d, k, q, s) /\ l \in Nat /\ k \in Nat
            BY <3>10, <4>4, <5>3, <2>6
          <6>2. l <= k
            BY <6>1, <5>1, <3>2
          <6>3. l # k
            BY <4>2, <4>4, <5>1, <6>1, ChatMessages DEF Reads
          <6> QED
            BY <6>1, <6>2, <6>3
        <5> QED
          BY <5>2, <5>3
      <4>5. CASE u # s
        BY <3>10, <4>1, <4>3, <4>5, <2>6
      <4> QED
        BY <4>4, <4>5
    <3>11. StreamsAgree'
      BY <3>9, <3>10 DEF StreamsAgree
    <3> QED
      BY <3>6, <3>7, <3>8, <3>11, <1>4 DEF LinesInv
  <2> QED
    BY <2>7, <2>8
<1> QED
  BY <1>6, <1>7

LEMMA ServerRestsLines ==
  ASSUME RegistrationInv, LinesInv, BroadcastEnds \/ ServerCleanup
  PROVE  LinesInv'
<1>1. /\ UNCHANGED <<server_queue, client, client_queue, shown>>
      /\ \/ server' = "receive" /\ sending' = NoLine
         \/ server' = "off" /\ UNCHANGED sending
  BY DEF BroadcastEnds, ServerCleanup, clientVars
<1>2. [Next]_vars
  BY DEF Next, ServerStep
<1>3. \A c \in Clients : \A i, n, t : Reads(c, i, n, t)' =>
        i \in Nat /\ Reads(c, i + [x \in Clients |-> 0][c], n, t)
  BY <1>1, NoneRead
<1>4. \A k, n, t : Waits(k, n, t)' => k \in Nat /\ Waits(k + 0, n, t)
  BY <1>1, SameWaits
<1>5. NothingShown'
  BY <1>1 DEF LinesInv, NothingShown
<1>6. NoLine.text = Garbage
  BY DEF NoLine, Garbage
<1>7. [x \in Clients |-> 0] \in [Clients -> {0, 1}]
  OBVIOUS
<1> QED
  BY <1>1, <1>2, <1>3, <1>4, <1>5, <1>6, <1>7, LinesStay

-----------------------------------------------------------------------------
(* The clients' steps.                                                      *)

LEMMA ServerWaitsLines ==
  ASSUME RegistrationInv, LinesInv, [Next]_vars, UNCHANGED serverVars,
         NEW f \in [Clients -> {0, 1}],
         \A c \in Clients : \A i, n, t : Reads(c, i, n, t)' =>
           i \in Nat /\ Reads(c, i + f[c], n, t),
         \A k, n, t : Waits(k, n, t)' => Waits(k, n, t),
         NothingShown'
  PROVE  LinesInv'
<1>1. /\ server' = server /\ clients' = clients /\ sending' = sending
      /\ next_client' = next_client /\ next_client \in Nat
  BY ListedIndices DEF serverVars, RegistrationInv, Shape
<1>2. \A k, n, t : Waits(k, n, t)' => k \in Nat /\ Waits(k + 0, n, t)
  <2>1. DOMAIN server_queue \subseteq Nat
    BY DEF RegistrationInv, Shape
  <2> QED
    BY <2>1 DEF Waits
<1>3. server' \in {"receive", "reply"} => sending'.text = Garbage
  BY <1>1 DEF LinesInv, SendingIsNewest
<1>4. server' = "broadcast" =>
        /\ server = "broadcast" /\ UNCHANGED <<clients, sending>>
        /\ next_client \in Nat /\ next_client' \in Nat
        /\ next_client <= next_client'
  BY <1>1
<1>5. sending' \in {sending, NoLine}
  BY <1>1
<1> QED
  BY <1>2, <1>3, <1>4, <1>5, LinesStay

LEMMA OpenLines ==
  ASSUME RegistrationInv, LinesInv, NEW c \in Clients,
         Open(c) \/ Exit(c) \/ SendInit(c)
  PROVE  LinesInv'
<1>1. /\ UNCHANGED <<serverVars, typed, client_queue, shown>>
      /\ \/ client[c] \in {"start", "opened"}
         \/ client' = [client EXCEPT ![c] = "gone"]
      /\ \A d \in Clients : d # c => client'[d] = client[d]
  BY DEF Open, Exit, SendInit, RegistrationInv, Shape
<1>2. [Next]_vars
  BY DEF Next, ClientStep
<1>3. \A d \in Clients : \A i, n, t : Reads(d, i, n, t)' =>
        i \in Nat /\ Reads(d, i + [x \in Clients |-> 0][d], n, t)
  BY <1>1, NoneRead
<1>4. \A k, n, t : Waits(k, n, t)' => Waits(k, n, t)
  <2>1. CASE UNCHANGED server_queue
    BY <2>1 DEF Waits
  <2>2. CASE server_queue' = Append(server_queue, InitMsg(c))
    <3>1. /\ server_queue \in Seq(InitMsgs \cup LineMsgs)
          /\ InitMsg(c) \in InitMsgs \cup LineMsgs
      BY DEF RegistrationInv, Shape, InitMsgs
    <3>2. /\ DOMAIN server_queue = 1 .. Len(server_queue)
          /\ DOMAIN server_queue' = 1 .. Len(server_queue) + 1
          /\ \A k \in DOMAIN server_queue : server_queue'[k] = server_queue[k]
          /\ server_queue'[Len(server_queue) + 1] = InitMsg(c)
          /\ Len(server_queue) \in Nat
      BY <2>2, <3>1, AppendElements
    <3>3. \A n, t : InitMsg(c) # [type |-> "line", id |-> n, text |-> t]
      BY DEF InitMsg
    <3> QED
      BY <3>2, <3>3 DEF Waits
  <2> QED
    BY <2>1, <2>2 DEF Open, Exit, SendInit
<1>5. NothingShown'
  <2>1. client[c] \in {"start", "opened"} => shown[c] = <<>>
    BY DEF LinesInv, NothingShown
  <2>2. \A d \in Clients : d # c /\ client'[d] \in {"start", "opened", "await_id"}
                             => shown[d] = <<>>
    BY <1>1 DEF LinesInv, NothingShown
  <2>3. \/ shown[c] = <<>>
        \/ client'[c] = "gone"
    BY <1>1, <2>1 DEF RegistrationInv, Shape
  <2> QED
    BY <1>1, <2>2, <2>3 DEF NothingShown
<1>6. [x \in Clients |-> 0] \in [Clients -> {0, 1}]
  OBVIOUS
<1> QED
  BY <1>1, <1>2, <1>3, <1>4, <1>5, <1>6, ServerWaitsLines

LEMMA ReceiveIdLines ==
  ASSUME RegistrationInv, LinesInv, NEW c \in Clients, ReceiveId(c)
  PROVE  LinesInv'
<1>1. /\ client[c] = "await_id" /\ client_queue[c] # <<>>
      /\ client_queue' = [client_queue EXCEPT ![c] = Tail(@)]
      /\ client' = [client EXCEPT ![c] = "running"]
      /\ UNCHANGED <<serverVars, server_queue, shown>>
  BY DEF ReceiveId
<1>2. [Next]_vars
  BY DEF Next, ClientStep
<1>3. shown[c] = <<>>
  BY <1>1 DEF LinesInv, NothingShown
<1>4. client_queue[c] \in Seq(ClientMsgs)
  BY DEF RegistrationInv, Shape
<1>5. Stream(c) = client_queue[c] /\ Stream(c)' = Tail(client_queue[c])
  <2>1. client_queue'[c] = Tail(client_queue[c]) /\ shown'[c] = <<>>
    BY <1>1, <1>3 DEF RegistrationInv, Shape
  <2>2. Tail(client_queue[c]) \in Seq(ClientMsgs)
    BY <1>1, <1>4, TailElements
  <2> QED
    BY <1>3, <1>4, <2>1, <2>2, ConcatEmptySeq DEF Stream
<1> DEFINE f == [x \in Clients |-> IF x = c THEN 1 ELSE 0]
<1>6. f \in [Clients -> {0, 1}]
  OBVIOUS
<1>7. ASSUME NEW d \in Clients, NEW i, NEW n, NEW t, Reads(d, i, n, t)'
      PROVE  i \in Nat /\ Reads(d, i + f[d], n, t)
  <2>1. CASE d = c
    <3>1. /\ i \in DOMAIN Tail(client_queue[c]) /\ t # Garbage
          /\ Tail(client_queue[c])[i] = ChatMsg(n, t)
      BY <1>5, <1>7, <2>1 DEF Reads
    <3>2. /\ i + 1 \in DOMAIN client_queue[c] /\ i \in Nat
          /\ client_queue[c][i + 1] = ChatMsg(n, t)
      <4>1. DOMAIN Tail(client_queue[c]) \subseteq Nat
        BY <1>1, <1>4, TailElements
      <4> QED
        BY <1>1, <1>4, <3>1, <4>1, TailElements
    <3>3. f[d] = 1
      BY <2>1
    <3> QED
      BY <1>5, <2>1, <3>1, <3>2, <3>3 DEF Reads
  <2>2. CASE d # c
    <3>1. Stream(d)' = Stream(d)
      BY <1>1, <2>2 DEF Stream, RegistrationInv, Shape
    <3>2. Reads(d, i, n, t)
      BY <1>7, <3>1 DEF Reads
    <3>3. f[d] = 0 /\ i \in Nat
      BY <2>2, <3>2, StreamElements DEF Reads, RegistrationInv
    <3> QED
      BY <3>2, <3>3
  <2> QED
    BY <2>1, <2>2
<1>8. \A k, n, t : Waits(k, n, t)' => Waits(k, n, t)
  BY <1>1 DEF Waits
<1>9. NothingShown'
  <2>1. \A d \in Clients :
          client'[d] = IF d = c THEN "running" ELSE client[d]
    BY <1>1 DEF RegistrationInv, Shape
  <2> QED
    BY <1>1, <2>1 DEF LinesInv, NothingShown
<1> HIDE DEF f
<1> QED
  BY <1>1, <1>2, <1>6, <1>7, <1>8, <1>9, ServerWaitsLines

LEMMA ReceiverLines ==
  ASSUME RegistrationInv, LinesInv, NEW c \in Clients, Receiver(c)
  PROVE  LinesInv'
<1>1. /\ client[c] = "running" /\ client_queue[c] # <<>>
      /\ client_queue' = [client_queue EXCEPT ![c] = Tail(@)]
      /\ shown' = [shown EXCEPT ![c] = Append(@, Head(client_queue[c]))]
      /\ UNCHANGED <<serverVars, server_queue, client>>
  BY DEF Receiver, clientVars
<1>2. [Next]_vars
  BY DEF Next, ClientStep
<1>3. ASSUME NEW d \in Clients
      PROVE  Stream(d)' = Stream(d)
  <2>1. CASE d = c
    <3>1. shown[c] \in Seq(ClientMsgs) /\ client_queue[c] \in Seq(ClientMsgs)
      BY DEF RegistrationInv, Shape
    <3>2. Append(shown[c], Head(client_queue[c])) \o Tail(client_queue[c])
            = shown[c] \o client_queue[c]
      <4>1. ASSUME NEW p \in Seq(ClientMsgs), NEW q \in Seq(ClientMsgs), q # <<>>
            PROVE  Append(p, Head(q)) \o Tail(q) = p \o q
        BY <4>1, StreamKept
      <4> QED
        BY <1>1, <3>1, <4>1
    <3>3. /\ shown'[c] = Append(shown[c], Head(client_queue[c]))
          /\ client_queue'[c] = Tail(client_queue[c])
      BY <1>1 DEF RegistrationInv, Shape
    <3> QED
      BY <2>1, <3>2, <3>3 DEF Stream
  <2>2. CASE d # c
    BY <1>1, <2>2 DEF Stream, RegistrationInv, Shape
  <2> QED
    BY <2>1, <2>2
<1>4. ASSUME NEW d \in Clients, NEW i, NEW n, NEW t, Reads(d, i, n, t)'
      PROVE  i \in Nat /\ Reads(d, i + [x \in Clients |-> 0][d], n, t)
  <2>1. Reads(d, i, n, t)
    BY <1>3, <1>4 DEF Reads
  <2>2. i \in Nat
    BY <2>1, StreamElements DEF Reads, RegistrationInv
  <2> QED
    BY <2>1, <2>2
<1>5. \A k, n, t : Waits(k, n, t)' => Waits(k, n, t)
  BY <1>1 DEF Waits
<1>6. NothingShown'
  BY <1>1 DEF LinesInv, NothingShown, RegistrationInv, Shape
<1>7. [x \in Clients |-> 0] \in [Clients -> {0, 1}]
  OBVIOUS
<1> QED
  BY <1>1, <1>2, <1>4, <1>5, <1>6, <1>7, ServerWaitsLines

LEMMA SendLineLines ==
  ASSUME RegistrationInv, LinesInv, NEW c \in Clients, SendLine(c)
  PROVE  LinesInv'
<1> DEFINE t0 == <<c, typed[c] + 1>>
           m0 == LineMsg(client_id[c], c)
<1>1. /\ client[c] = "running" /\ typed[c] < Len(Script[c])
      /\ server_queue' = Append(server_queue, m0)
      /\ typed' = [typed EXCEPT ![c] = @ + 1]
      /\ UNCHANGED <<serverVars, client, client_queue, shown>>
  BY DEF SendLine
<1>2. [Next]_vars
  BY DEF Next, ClientStep
<1>3. m0 = [type |-> "line", id |-> client_id[c], text |-> t0]
  BY DEF LineMsg
<1>4. /\ typed[c] \in Nat /\ typed'[c] = typed[c] + 1
      /\ t0 \in TypedLines /\ client_id[c] \in 0 .. MAX_CLIENTS
  <2>1. typed[c] \in Nat /\ typed'[c] = typed[c] + 1 /\ client_id[c] \in 0 .. MAX_CLIENTS
    BY <1>1 DEF RegistrationInv, Shape
  <2>2. typed[c] + 1 \in DOMAIN Script[c]
    BY <1>1, <2>1, MqChatAssumption
  <2> QED
    BY <2>1, <2>2, TypedLine
<1>5. PICK N : N = Len(server_queue)
  OBVIOUS
<1>6. /\ DOMAIN server_queue = 1 .. N /\ N \in Nat
      /\ DOMAIN server_queue' = 1 .. N + 1
      /\ \A k \in DOMAIN server_queue : server_queue'[k] = server_queue[k]
      /\ server_queue'[N + 1] = m0
  <2>1. /\ server_queue \in Seq(InitMsgs \cup LineMsgs)
        /\ m0 \in InitMsgs \cup LineMsgs
    BY <1>3, <1>4 DEF RegistrationInv, Shape, LineMsgs
  <2> HIDE DEF m0
  <2> QED
    BY <1>1, <1>5, <2>1, AppendElements
<1>7. \A k, n, t : Waits(k, n, t)' =>
        Waits(k, n, t) \/ (k = N + 1 /\ n = client_id[c] /\ t = t0)
  <2>1. ASSUME NEW k, NEW n, NEW t, Waits(k, n, t)', k = N + 1
        PROVE  n = client_id[c] /\ t = t0
    <3>1. m0 = [type |-> "line", id |-> n, text |-> t]
      BY <1>6, <2>1 DEF Waits
    <3>2. /\ m0.id = n /\ m0.text = t
          /\ m0.id = client_id[c] /\ m0.text = t0
      <4> HIDE DEF t0, m0
      <4> QED
        BY <1>3, <3>1
    <3> QED
      BY <3>2
  <2>2. ASSUME NEW k, NEW n, NEW t, Waits(k, n, t)', k # N + 1
        PROVE  Waits(k, n, t)
    BY <1>6, <2>2 DEF Waits
  <2> QED
    BY <2>1, <2>2
<1>8. t0[1] = c /\ t0[2] = typed[c] + 1 /\ t0 # Garbage
  BY DEF Garbage
<1>9. \A n : ~Attributed(n, t0)
  BY <1>4, <1>8 DEF Attributed
<1>10. PICK s : s = t0
  OBVIOUS
<1>11. Attributed(client_id[c], s)'
  <2>1. client_id[c] < client_count /\ clients[client_id[c] + 1] = c
    BY <1>1 DEF RegistrationInv, RunningKnowsItsId
  <2>2. client_id' = client_id /\ clients' = clients /\ client_count' = client_count
    BY <1>1 DEF SendLine, serverVars, client_count
  <2>3. client_id[c] \in Nat
    BY <1>4, MqChatAssumption
  <2>4. s \in TypedLines /\ s[1] = c /\ s[2] = typed[c] + 1
    BY <1>4, <1>8, <1>10
  <2> QED
    BY <1>4, <2>1, <2>2, <2>3, <2>4 DEF Attributed
<1> HIDE DEF t0, m0
<1>12. \A d \in Clients : \A i, n, t : Reads(d, i, n, t)' =>
         i \in Nat /\ Reads(d, i + [x \in Clients |-> 0][d], n, t)
  BY <1>1, NoneRead
<1>13. [x \in Clients |-> 0] \in [Clients -> {0, 1}]
  OBVIOUS
<1>14. /\ \A d \in Clients : \A i, n, t :
            Reads(d, i, n, t)' => Attributed(n, t)' /\ t[1] # d
       /\ StreamsAgree'
  BY <1>2, <1>12, <1>13, StreamsStay
<1>15. \A d \in Clients : \A i, n, t : Reads(d, i, n, t)' <=> Reads(d, i, n, t)
  BY <1>1 DEF Reads, Stream
<1>16. sending.text # t0 /\ \A k, n : ~Waits(k, n, t0)
  BY <1>8, <1>9 DEF LinesInv, LinesAttributed
<1>17. LinesAttributed'
  <2>1. ASSUME NEW k, NEW n, NEW t, Waits(k, n, t)' PROVE Attributed(n, t)'
    <3>1. CASE Waits(k, n, t)
      BY <3>1, <1>2, AttributedStays DEF LinesInv, LinesAttributed
    <3>2. CASE n = client_id[c] /\ t = s
      <4>1. client_id' = client_id
        BY DEF SendLine
      <4> QED
        BY <3>2, <4>1, <1>11 DEF Attributed
    <3> QED
      BY <1>7, <1>10, <2>1, <3>1, <3>2
  <2>2. (sending.text # Garbage => Attributed(sending.id, sending.text))'
    <3>1. SUFFICES ASSUME sending.text # Garbage
          PROVE  Attributed(sending.id, sending.text)'
      BY <1>1 DEF serverVars
    <3>2. PICK n, t : n = sending.id /\ t = sending.text
      OBVIOUS
    <3>3. Attributed(n, t)
      BY <3>1, <3>2 DEF LinesInv, LinesAttributed
    <3>4. Attributed(n, t)'
      BY <3>3, <1>2, AttributedStays
    <3>5. sending' = sending
      BY <1>1 DEF serverVars
    <3> QED
      BY <3>2, <3>4, <3>5 DEF Attributed
  <2> QED
    BY <1>14, <2>1, <2>2 DEF LinesAttributed
<1>18. InOnePlace'
  <2>1. ASSUME NEW k, NEW l, NEW m, NEW n, NEW t, Waits(k, m, t)', Waits(l, n, t)'
        PROVE  k = l
    BY <1>7, <1>16, <2>1 DEF LinesInv, InOnePlace
  <2>2. ASSUME NEW k, NEW n, NEW t, Waits(k, n, t)'
        PROVE  sending'.text # t
    <3>1. sending' = sending
      BY <1>1 DEF serverVars
    <3> QED
      BY <1>7, <1>16, <2>2, <3>1 DEF LinesInv, InOnePlace
  <2>3. ASSUME NEW d \in Clients, NEW i, NEW k, NEW m, NEW n, NEW t,
               Waits(k, m, t)', Reads(d, i, n, t)'
        PROVE  FALSE
    <3>1. Reads(d, i, n, t)
      BY <1>15, <2>3
    <3>2. t # t0
      BY <1>9, <3>1 DEF LinesInv, LinesAttributed
    <3> QED
      BY <1>7, <2>3, <3>1, <3>2 DEF LinesInv, InOnePlace
  <2> QED
    BY <2>1, <2>2, <2>3 DEF InOnePlace
<1>19. SendingIsNewest'
  <2>1. /\ server' = server /\ sending' = sending /\ clients' = clients
        /\ next_client' = next_client
    BY <1>1 DEF serverVars
  <2>2. ASSUME server = "broadcast", NEW d \in Clients, NEW i, NEW n,
               Reads(d, i, n, sending.text)'
        PROVE  /\ \E b \in 1 .. next_client - 1 : clients[b] = d
               /\ \A j, m, t : Reads(d, j, m, t)' => j <= i
    <3>1. Reads(d, i, n, sending.text)
      BY <2>1, <2>2, <1>1 DEF Reads, Stream
    <3> QED
      BY <1>15, <2>2, <3>1 DEF LinesInv, SendingIsNewest
  <2> QED
    BY <2>1, <2>2 DEF LinesInv, SendingIsNewest
<1>20. NothingShown'
  BY <1>1 DEF LinesInv, NothingShown
<1> QED
  BY <1>14, <1>17, <1>18, <1>19, <1>20 DEF LinesInv

-----------------------------------------------------------------------------
LEMMA InitLines == Init => LinesInv
<1> SUFFICES ASSUME Init PROVE LinesInv
  OBVIOUS
<1>1. /\ \A c \in Clients : Stream(c) = <<>> \o <<>> /\ shown[c] = <<>>
      /\ server_queue = <<>> /\ server = "receive" /\ sending.text = Garbage
  BY DEF Init, Stream, NoLine, Garbage
<1>2. \A c \in Clients : \A i, n, t : ~Reads(c, i, n, t)
  <2>1. <<>> \o <<>> = <<>>
    OBVIOUS
  <2> QED
    BY <1>1, <2>1 DEF Reads
<1>3. \A k, n, t : ~Waits(k, n, t)
  BY <1>1 DEF Waits
<1> QED
  BY <1>1, <1>2, <1>3
  DEF LinesInv, LinesAttributed, InOnePlace, SendingIsNewest, StreamsAgree,
      NothingShown

LEMMA LinesStep == RegistrationInv /\ LinesInv /\ [Next]_vars => LinesInv'
<1> SUFFICES ASSUME RegistrationInv, LinesInv, [Next]_vars PROVE LinesInv'
  OBVIOUS
<1>1. CASE ServerStep
  BY <1>1, ReceiveInitLines, SendIdLines, ReceiveLineLines, BroadcastLines,
     ServerRestsLines DEF ServerStep
<1>2. CASE ServerCleanup
  BY <1>2, ServerRestsLines
<1>3. ASSUME NEW c \in Clients, ClientStep(c) PROVE LinesInv'
  BY <1>3, OpenLines, ReceiveIdLines, SendLineLines, ReceiverLines DEF ClientStep
<1>4. CASE UNCHANGED vars
  <2>1. UNCHANGED <<serverVars, server_queue, client, client_queue, shown>>
    BY <1>4 DEF vars, clientVars
  <2>2. \A c \in Clients : \A i, n, t : Reads(c, i, n, t)' =>
          i \in Nat /\ Reads(c, i + [x \in Clients |-> 0][c], n, t)
    BY <2>1, NoneRead
  <2>3. \A k, n, t : Waits(k, n, t)' => Waits(k, n, t)
    BY <2>1 DEF Waits
  <2>4. NothingShown'
    BY <2>1 DEF LinesInv, NothingShown
  <2>5. [x \in Clients |-> 0] \in [Clients -> {0, 1}]
    OBVIOUS
  <2> QED
    BY <2>1, <2>2, <2>3, <2>4, <2>5, ServerWaitsLines
<1> QED
  BY <1>1, <1>2, <1>3, <1>4 DEF Next

LEMMA LinesCorrect == Spec => [](RegistrationInv /\ LinesInv)
<1>1. Init => RegistrationInv /\ LinesInv
  BY InitRegistration, InitLines
<1>2. (RegistrationInv /\ LinesInv) /\ [Next]_vars => (RegistrationInv /\ LinesInv)'
  BY RegistrationStep, LinesStep
<1> QED
  BY <1>1, <1>2, PTL DEF Spec

(* What an element of a stream that is a line of text says.                 *)
LEMMA StreamLine ==
  ASSUME Shape, NEW c \in Clients, NEW i \in DOMAIN Stream(c),
         Stream(c)[i].type = "chat", Stream(c)[i].text # Garbage
  PROVE  Reads(c, i, Stream(c)[i].id, Stream(c)[i].text)
<1>1. Stream(c)[i] \in ClientMsgs
  BY StreamElements
<1>2. Stream(c)[i] = ChatMsg(Stream(c)[i].id, Stream(c)[i].text)
  BY <1>1, ChatMessages
<1> QED
  BY <1>2 DEF Reads

(* Every line of text that a client is shown, or will be, was typed by the  *)
(* client that holds the id in front of it (server.c:80, 57-66).            *)
THEOREM AttributionCorrect == Spec => []ShownWasTyped
<1>1. RegistrationInv /\ LinesInv => ShownWasTyped
  <2> SUFFICES ASSUME RegistrationInv, LinesInv, NEW c \in Clients,
                      NEW i \in DOMAIN Stream(c), Stream(c)[i].type = "chat",
                      Stream(c)[i].text # Garbage
               PROVE  clients[Stream(c)[i].id + 1] = Stream(c)[i].text[1]
    BY DEF ShownWasTyped
  <2> QED
    BY StreamLine DEF RegistrationInv, LinesInv, LinesAttributed, Attributed
<1> QED
  BY <1>1, LinesCorrect, PTL

(* Nobody gets a line of its own or a line twice, whatever number of clients*)
(* registers while lines are on their way (server.c:57-66).                 *)
THEOREM NoEchoCorrect == Spec => []NoEchoNoDuplicate
<1>1. RegistrationInv /\ LinesInv => NoEchoNoDuplicate
  <2> SUFFICES ASSUME RegistrationInv, LinesInv, NEW c \in Clients,
                      NEW i \in DOMAIN Stream(c), NEW j \in DOMAIN Stream(c),
                      Stream(c)[i].type = "chat"
               PROVE  /\ Stream(c)[i].text # Garbage => Stream(c)[i].text[1] # c
                      /\ i # j /\ Stream(c)[i] = Stream(c)[j] =>
                           Stream(c)[i].text = Garbage
    BY DEF NoEchoNoDuplicate
  <2>1. ASSUME Stream(c)[i].text # Garbage
        PROVE  Stream(c)[i].text[1] # c
    BY <2>1, StreamLine DEF RegistrationInv, LinesInv, LinesAttributed
  <2>2. ASSUME Stream(c)[i].text # Garbage, Stream(c)[i] = Stream(c)[j]
        PROVE  i = j
    <3>1. /\ Reads(c, i, Stream(c)[i].id, Stream(c)[i].text)
          /\ Reads(c, j, Stream(c)[i].id, Stream(c)[i].text)
      BY <2>2, StreamLine DEF RegistrationInv
    <3> QED
      BY <3>1 DEF LinesInv, StreamsAgree
  <2> QED
    BY <2>1, <2>2
<1> QED
  BY <1>1, LinesCorrect, PTL

(* All clients get the lines in one order, the order in which the server's  *)
(* single thread broadcasts them (server.c:57-66, 77-83).                   *)
THEOREM OrderCorrect == Spec => []OneOrder
<1>1. RegistrationInv /\ LinesInv => OneOrder
  <2> SUFFICES ASSUME RegistrationInv, LinesInv,
                      NEW c \in Clients, NEW d \in Clients,
                      NEW i \in DOMAIN Stream(c), NEW j \in DOMAIN Stream(c),
                      NEW k \in DOMAIN Stream(d), NEW l \in DOMAIN Stream(d),
                      i < j, Stream(c)[i] = Stream(d)[l],
                      Stream(c)[j] = Stream(d)[k],
                      Stream(c)[i].type = "chat", Stream(c)[i].text # Garbage,
                      Stream(c)[j].type = "chat", Stream(c)[j].text # Garbage
               PROVE  l < k
    BY DEF OneOrder
  <2>1. /\ Reads(c, i, Stream(c)[i].id, Stream(c)[i].text)
        /\ Reads(c, j, Stream(c)[j].id, Stream(c)[j].text)
    BY StreamLine DEF RegistrationInv
  <2>2. /\ Reads(d, l, Stream(c)[i].id, Stream(c)[i].text)
        /\ Reads(d, k, Stream(c)[j].id, Stream(c)[j].text)
    BY StreamLine DEF RegistrationInv
  <2> QED
    BY <2>1, <2>2 DEF LinesInv, StreamsAgree
<1> QED
  BY <1>1, LinesCorrect, PTL
=============================================================================
