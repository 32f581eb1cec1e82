--------------------------- MODULE ChatTcpProofs ---------------------------
(***************************************************************************)
(* Proofs about ChatTcp for every set of clients, every size of the table, *)
(* every timeout and everything that is typed.                             *)
(*                                                                         *)
(* SessionInv is about the table: it keeps sessions separate and names     *)
(* unique.  TypeInv is about every variable, and holds always.  ServiceInv *)
(* is about what lines, messages and handlers say of the session they      *)
(* belong to: chat is signed, STOP is obeyed, names are answered and who   *)
(* answers probes is not dropped.  SessionInv and ServiceInv hold until    *)
(* the alive checker closes a connection.                                  *)
(***************************************************************************)
EXTENDS ChatTcp, FiniteSetTheorems, SequenceTheorems, TLAPS

(* A handler that has its slot; one that has not stored a name in it yet.   *)
Serving == {"read_name", "wait_name", "register", "welcome", "join", "read",
            "wait", "refresh", "execute", "quit", "leave"}
Unnamed == {"read_name", "wait_name", "register"}

Shape ==
  /\ sockfd \in [Slots -> Fds] /\ active \in [Slots -> BOOLEAN]
  /\ files \in [Fds -> Clients \cup {None}]
  /\ DOMAIN name = Slots /\ DOMAIN client = Clients
  /\ handler \in [Clients -> Serving \cup {"none", "left", "done"}]
  /\ client_idx \in [Clients -> Slots]
  /\ client_sockfd \in Fds /\ main_idx \in Slots
  /\ backlog \in Seq(Clients) /\ accepted \in SUBSET Clients

(* A connection goes through the backlog once, before it has a handler.     *)
Arrivals ==
  main # "off" =>
    /\ \A k \in 1 .. Len(backlog) :
         backlog[k] \notin accepted /\ client[backlog[k]] # "start"
    /\ \A k, l \in 1 .. Len(backlog) : backlog[k] = backlog[l] => k = l
    /\ \A c \in accepted : client[c] # "start"
    /\ \A c \in Clients \ accepted : handler[c] = "none" /\ newest # c

(* main holds a connection that has no handler yet.                         *)
MainHolds ==
  /\ main \in {"place", "start"} => newest \in Clients /\ handler[newest] = "none"
  /\ main = "place" => files[client_sockfd] = newest

(* No name is left in a slot that is free, or whose handler took none yet.  *)
NoNameIsLeft ==
  /\ main # "off" => \A i \in Slots : ~active[i] => name[i] = NoName
  /\ \A c \in Clients : \A i \in Slots :
       Serves(c, i) /\ handler[c] \in Unnamed \cup {"none"} => name[i] = NoName

SessionInv ==
  /\ Shape /\ Arrivals /\ MainHolds
  /\ SlotHasOneHandler /\ HandlerHasItsSlot /\ DescriptorIsInTable
  /\ NoNameIsLeft /\ NamesDiffer

serverVars == <<sockfd, active, name, files, main, client_sockfd, main_idx,
                newest, accepted, handler, client_idx>>

LEMMA ZeroIsSlotAndFd == 0 \in Slots /\ 0 \in Fds
<1>1. Cardinality(Clients) \in Nat /\ Cardinality(Clients) # 0
  BY ChatTcpAssumption, FS_CardinalityType, FS_EmptySet
<1> QED
  BY <1>1, ChatTcpAssumption DEF Slots, Fds

LEMMA InitSessionInv == Init => SessionInv
<1> SUFFICES ASSUME Init PROVE SessionInv
  OBVIOUS
<1>1. Shape
  BY ZeroIsSlotAndFd, ChatTcpAssumption DEF Init, Shape
<1>2. Arrivals /\ MainHolds
  BY ChatTcpAssumption DEF Init, Arrivals, MainHolds
<1>3. \A c \in Clients : \A i \in Slots : ~Serves(c, i)
  BY DEF Init, Serves
<1>4. SlotHasOneHandler /\ HandlerHasItsSlot /\ DescriptorIsInTable
  BY <1>3 DEF Init, SlotHasOneHandler, HandlerHasItsSlot, DescriptorIsInTable
<1>5. NoNameIsLeft /\ NamesDiffer
  BY <1>3 DEF Init, NoNameIsLeft, NamesDiffer
<1> QED
  BY <1>1, <1>2, <1>4, <1>5 DEF SessionInv

-----------------------------------------------------------------------------
(* What SessionInv says of one handler and its slot.                        *)

(* The slot of a handler is its own, and holds its connection.              *)
LEMMA OwnSlot ==
  ASSUME SessionInv, NEW h \in Clients, NEW i \in Slots, Serves(h, i)
  PROVE  /\ active[i] /\ files[sockfd[i]] = h
         /\ \A d \in Clients \ {h} : ~Serves(d, i)
  BY DEF SessionInv, SlotHasOneHandler, HandlerHasItsSlot

(* A connection is served in one slot.                                      *)
LEMMA OneSlot ==
  ASSUME SessionInv, NEW h \in Clients, NEW i \in Slots, NEW j \in Slots,
         Serves(h, i), Serves(h, j)
  PROVE  i = j
  BY DEF SessionInv, MainHolds, Serves

(* Slots in use hold different descriptors.                                 *)
LEMMA DescriptorsDiffer ==
  ASSUME SessionInv, NEW i \in Slots, NEW j \in Slots, active[i], active[j],
         sockfd[i] = sockfd[j]
  PROVE  i = j
<1>1. PICK c \in Clients : Serves(c, i) /\ files[sockfd[i]] = c
  BY DEF SessionInv, SlotHasOneHandler
<1>2. PICK d \in Clients : Serves(d, j) /\ files[sockfd[j]] = d
  BY DEF SessionInv, SlotHasOneHandler
<1> QED
  BY <1>1, <1>2, OneSlot

-----------------------------------------------------------------------------
(* Steps of users, of the clients and of the checker that drop nobody.      *)
LEMMA ElsewhereSessionInv ==
  ASSUME SessionInv, UNCHANGED serverVars, UNCHANGED backlog,
         DOMAIN client' = Clients,
         \A c \in Clients : client'[c] = "start" <=> client[c] = "start"
  PROVE  SessionInv'
<1>1. Shape'
  BY DEF SessionInv, Shape, serverVars
<1>2. \A k \in 1 .. Len(backlog) : backlog[k] \in Clients
  BY DEF SessionInv, Shape
<1>3. Arrivals'
  BY <1>2 DEF SessionInv, Shape, Arrivals, serverVars
<1>4. \A c \in Clients : \A i \in Slots : Serves(c, i)' <=> Serves(c, i)
  BY DEF Serves, serverVars
<1>5. MainHolds' /\ DescriptorIsInTable' /\ NamesDiffer'
  BY DEF SessionInv, MainHolds, DescriptorIsInTable, NamesDiffer, serverVars
<1>6. SlotHasOneHandler'
  BY <1>4 DEF SessionInv, SlotHasOneHandler, serverVars
<1>7. HandlerHasItsSlot' /\ NoNameIsLeft'
  BY <1>4 DEF SessionInv, HandlerHasItsSlot, NoNameIsLeft, serverVars
<1> QED
  BY <1>1, <1>3, <1>5, <1>6, <1>7 DEF SessionInv

(* Steps of a handler that keeps its slot, and the end of one that left it. *)
LEMMA HandlerGoesSessionInv ==
  ASSUME SessionInv, NEW h \in Clients, NEW pc,
         handler' = [handler EXCEPT ![h] = pc],
         \/ /\ handler[h] \in Serving /\ pc \in Serving
            /\ handler[h] \in Unnamed \/ pc \notin Unnamed
         \/ handler[h] = "left" /\ pc = "done",
         UNCHANGED <<sockfd, active, name, files, main, client_sockfd, main_idx,
                     newest, accepted, client_idx, client, backlog>>
  PROVE  SessionInv'
<1>1. Shape'
  BY DEF SessionInv, Shape
<1>2. Arrivals'
  BY DEF SessionInv, Shape, Arrivals, Serving
<1>3. MainHolds'
  BY DEF SessionInv, Shape, MainHolds, Serving
<1>4. \A c \in Clients : \A i \in Slots : Serves(c, i)' <=> Serves(c, i)
  BY DEF Serves, Serving, SessionInv, Shape
<1>5. DescriptorIsInTable' /\ NamesDiffer'
  BY DEF SessionInv, DescriptorIsInTable, NamesDiffer
<1>6. SlotHasOneHandler'
  BY <1>4 DEF SessionInv, SlotHasOneHandler
<1>7. HandlerHasItsSlot'
  BY <1>4 DEF SessionInv, HandlerHasItsSlot
<1>8. NoNameIsLeft'
  BY <1>4 DEF SessionInv, Shape, NoNameIsLeft, Unnamed, Serving
<1> QED
  BY <1>1, <1>2, <1>3, <1>5, <1>6, <1>7, <1>8 DEF SessionInv

(* A handler gives its slot back: RemoveClient and RefuseName.              *)
LEMMA SlotIsReleased ==
  ASSUME SessionInv, NEW h \in Clients, NEW pc \in {"left", "done"},
         handler[h] \in Serving,
         handler' = [handler EXCEPT ![h] = pc],
         CloseFd(Fd(h)), FreeSlot(client_idx[h]),
         \/ name' = [name EXCEPT ![client_idx[h]] = NoName]
         \/ name' = name /\ handler[h] \in Unnamed,
         UNCHANGED <<sockfd, main, client_sockfd, main_idx, newest, accepted,
                     client_idx, client, backlog>>
  PROVE  SessionInv'
<1> DEFINE s == client_idx[h]
<1>1. s \in Slots /\ Serves(h, s)
  BY DEF SessionInv, Shape, Serves, Serving
<1>2. /\ active[s] /\ files[sockfd[s]] = h
      /\ \A d \in Clients \ {h} : ~Serves(d, s)
  BY <1>1, OwnSlot
<1>3. active' = [active EXCEPT ![s] = FALSE] /\ files' = [files EXCEPT ![sockfd[s]] = None]
  BY DEF CloseFd, FreeSlot, Fd
<1>4. name'[s] = NoName /\ \A i \in Slots \ {s} : name'[i] = name[i]
  BY <1>1 DEF SessionInv, Shape, NoNameIsLeft
<1>5. Shape'
  BY <1>1, <1>3 DEF SessionInv, Shape
<1>6. Arrivals'
  BY DEF SessionInv, Shape, Arrivals, Serving
<1>7. MainHolds'
  <2>1. main \in {"place", "start"} => newest # h
    BY DEF SessionInv, MainHolds, Serving
  <2>2. main = "place" => files'[client_sockfd] = newest
    BY <1>2, <1>3, <2>1 DEF SessionInv, MainHolds, Shape
  <2> QED
    BY <2>1, <2>2 DEF SessionInv, MainHolds, Shape
<1>8. \A c \in Clients : \A i \in Slots :
        Serves(c, i)' <=> Serves(c, i) /\ i # s
  <2>1. ASSUME NEW c \in Clients, NEW i \in Slots, Serves(c, i)'
        PROVE  Serves(c, i) /\ i # s
    <3>1. c # h
      BY <2>1 DEF Serves, SessionInv, Shape, MainHolds, Serving
    <3>2. Serves(c, i)
      BY <2>1, <3>1 DEF Serves, SessionInv, Shape
    <3> QED
      BY <3>1, <3>2, <1>2
  <2>2. ASSUME NEW c \in Clients, NEW i \in Slots, Serves(c, i), i # s
        PROVE  Serves(c, i)'
    <3>1. c # h
      BY <2>2, <1>1, OneSlot
    <3> QED
      BY <2>2, <3>1 DEF Serves, SessionInv, Shape
  <2> QED
    BY <2>1, <2>2
<1>9. \A i \in Slots : active'[i] <=> active[i] /\ i # s
  BY <1>1, <1>3 DEF SessionInv, Shape
<1>10. \A i \in Slots : active'[i] => files'[sockfd[i]] = files[sockfd[i]]
  BY <1>1, <1>2, <1>3, <1>9, DescriptorsDiffer DEF SessionInv, Shape
<1>11. SlotHasOneHandler'
  BY <1>8, <1>9, <1>10 DEF SessionInv, SlotHasOneHandler
<1>12. HandlerHasItsSlot'
  BY <1>8, <1>9 DEF SessionInv, HandlerHasItsSlot
<1>13. DescriptorIsInTable'
  <2>1. ASSUME NEW f \in Fds, files'[f] # None
        PROVE  f # sockfd[s] /\ files[f] # None
    BY <2>1, <1>1, <1>3 DEF SessionInv, Shape
  <2> QED
    BY <2>1, <1>9 DEF SessionInv, DescriptorIsInTable
<1>14. NoNameIsLeft'
  <2>1. main' # "off" => \A i \in Slots : ~active'[i] => name'[i] = NoName
    BY <1>4, <1>9 DEF SessionInv, NoNameIsLeft
  <2>2. ASSUME NEW c \in Clients, NEW i \in Slots, Serves(c, i)',
               handler'[c] \in Unnamed \cup {"none"}
        PROVE  name'[i] = NoName
    <3>1. Serves(c, i) /\ i # s
      BY <1>8, <2>2
    <3>2. c # h
      BY <3>1, <1>1, OneSlot
    <3> QED
      BY <3>1, <3>2, <2>2, <1>4 DEF SessionInv, Shape, NoNameIsLeft
  <2> QED
    BY <2>1, <2>2 DEF NoNameIsLeft
<1>15. NamesDiffer'
  BY <1>4, <1>9 DEF SessionInv, NamesDiffer
<1> QED
  BY <1>5, <1>6, <1>7, <1>11, <1>12, <1>13, <1>14, <1>15 DEF SessionInv

-----------------------------------------------------------------------------
(* Arrivals: a user connects, main accepts the connection, gives it a slot  *)
(* or turns it away, and starts its handler.                                *)

LEMMA ConnectSessionInv ==
  ASSUME SessionInv, NEW c \in Clients, Connect(c)
  PROVE  SessionInv'
<1>1. CASE main = "off"
  <2>1. UNCHANGED serverVars /\ Shape' /\ Arrivals'
    BY <1>1 DEF Connect, SessionInv, Shape, Arrivals, table, handlers, serverVars
  <2>2. \A d \in Clients : \A i \in Slots : Serves(d, i)' <=> Serves(d, i)
    BY <2>1 DEF Serves, serverVars
  <2>3. MainHolds' /\ DescriptorIsInTable' /\ NamesDiffer'
    BY <2>1
    DEF SessionInv, MainHolds, DescriptorIsInTable, NamesDiffer, serverVars
  <2>4. SlotHasOneHandler'
    BY <2>1, <2>2 DEF SessionInv, SlotHasOneHandler, serverVars
  <2>5. HandlerHasItsSlot' /\ NoNameIsLeft'
    BY <2>1, <2>2 DEF SessionInv, HandlerHasItsSlot, NoNameIsLeft, serverVars
  <2> QED
    BY <2>1, <2>3, <2>4, <2>5 DEF SessionInv
<1>2. CASE main # "off"
  <2>1. /\ UNCHANGED serverVars
        /\ client' = [client EXCEPT ![c] = "connected"]
        /\ backlog' = Append(backlog, c)
        /\ client[c] = "start"
    BY <1>2 DEF Connect, table, handlers, serverVars
  <2>2. Shape'
    BY <2>1 DEF SessionInv, Shape, serverVars
  <2>3. Arrivals'
    <3>1. /\ backlog \in Seq(Clients) /\ Len(backlog) \in Nat
          /\ Len(backlog') = Len(backlog) + 1
          /\ backlog'[Len(backlog) + 1] = c
          /\ \A k \in 1 .. Len(backlog) : backlog'[k] = backlog[k]
                                         /\ backlog[k] \in Clients
      BY <2>1 DEF SessionInv, Shape
    <3>2. c \notin accepted /\ \A k \in 1 .. Len(backlog) : backlog[k] # c
      BY <1>2, <2>1 DEF SessionInv, Arrivals
    <3>3. \A d \in Clients : client'[d] # "start" <=> (client[d] # "start" \/ d = c)
      BY <2>1 DEF SessionInv, Shape
    <3>4. \A k \in 1 .. Len(backlog') :
            backlog'[k] \notin accepted' /\ client'[backlog'[k]] # "start"
      BY <1>2, <2>1, <3>1, <3>2, <3>3 DEF SessionInv, Arrivals, serverVars
    <3>5. \A k, l \in 1 .. Len(backlog') : backlog'[k] = backlog'[l] => k = l
      BY <1>2, <3>1, <3>2 DEF SessionInv, Arrivals
    <3>6. \A d \in accepted' : client'[d] # "start"
      BY <1>2, <2>1, <3>3 DEF SessionInv, Shape, Arrivals, serverVars
    <3> QED
      BY <1>2, <2>1, <3>4, <3>5, <3>6 DEF SessionInv, Arrivals, serverVars
  <2>4. \A d \in Clients : \A i \in Slots : Serves(d, i)' <=> Serves(d, i)
    BY <2>1 DEF Serves, serverVars
  <2>5. MainHolds' /\ DescriptorIsInTable' /\ NamesDiffer'
    BY <2>1
    DEF SessionInv, MainHolds, DescriptorIsInTable, NamesDiffer, serverVars
  <2>6. SlotHasOneHandler'
    BY <2>1, <2>4 DEF SessionInv, SlotHasOneHandler, serverVars
  <2>7. HandlerHasItsSlot' /\ NoNameIsLeft'
    BY <2>1, <2>4 DEF SessionInv, HandlerHasItsSlot, NoNameIsLeft, serverVars
  <2> QED
    BY <2>2, <2>3, <2>5, <2>6, <2>7 DEF SessionInv
<1> QED
  BY <1>1, <1>2

LEMMA AcceptSessionInv ==
  ASSUME SessionInv, Accept
  PROVE  SessionInv'
<1> DEFINE c == Head(backlog)
<1>1. PICK f \in Fds : /\ files[f] = None
                      /\ files' = [files EXCEPT ![f] = c]
                      /\ client_sockfd' = f
  BY DEF Accept, First
<1>2. /\ backlog \in Seq(Clients) /\ backlog # <<>> /\ Len(backlog) \in Nat \ {0}
      /\ c \in Clients /\ c = backlog[1]
      /\ backlog' = Tail(backlog) /\ Len(backlog') = Len(backlog) - 1
      /\ \A k \in 1 .. Len(backlog') : backlog'[k] = backlog[k + 1]
  BY DEF Accept, SessionInv, Shape
<1>3. /\ main = "accept" /\ main' = "place" /\ newest' = c
      /\ accepted' = accepted \cup {c}
      /\ UNCHANGED <<sockfd, active, name, main_idx, handler, client_idx, client>>
  BY DEF Accept, table, handlers, users
<1>4. c \notin accepted /\ handler[c] = "none" /\ client[c] # "start"
  BY <1>2, <1>3 DEF SessionInv, Arrivals
<1>5. Shape'
  BY <1>1, <1>2, <1>3 DEF SessionInv, Shape
<1>6. Arrivals'
  <2>1. \A k \in 1 .. Len(backlog') : k + 1 \in 1 .. Len(backlog) /\ k + 1 # 1
    BY <1>2
  <2>2. \A k \in 1 .. Len(backlog') :
          backlog'[k] \notin accepted' /\ client[backlog'[k]] # "start"
    BY <1>2, <1>3, <2>1 DEF SessionInv, Arrivals
  <2>3. \A k, l \in 1 .. Len(backlog') : backlog'[k] = backlog'[l] => k = l
    BY <1>2, <1>3, <2>1 DEF SessionInv, Arrivals
  <2> QED
    BY <1>3, <1>4, <2>2, <2>3 DEF SessionInv, Arrivals
<1>7. MainHolds'
  BY <1>1, <1>2, <1>3, <1>4 DEF MainHolds, SessionInv, Shape
<1>8. \A d \in Clients : \A i \in Slots : Serves(d, i)' <=> Serves(d, i)
  BY <1>3 DEF Serves
<1>9. \A i \in Slots : active[i] => files'[sockfd[i]] = files[sockfd[i]]
  BY <1>1, ChatTcpAssumption DEF SessionInv, Shape, SlotHasOneHandler
<1>10. SlotHasOneHandler'
  BY <1>3, <1>8, <1>9 DEF SessionInv, SlotHasOneHandler
<1>11. DescriptorIsInTable'
  <2>1. ASSUME NEW g \in Fds, files'[g] # None, g # f
        PROVE  \E i \in Slots : active[i] /\ sockfd[i] = g
    BY <2>1, <1>1, <1>3 DEF SessionInv, Shape, DescriptorIsInTable
  <2> QED
    BY <2>1, <1>1, <1>3 DEF DescriptorIsInTable
<1>12. HandlerHasItsSlot' /\ NoNameIsLeft' /\ NamesDiffer'
  BY <1>3, <1>8 DEF SessionInv, HandlerHasItsSlot, NoNameIsLeft, NamesDiffer
<1> QED
  BY <1>5, <1>6, <1>7, <1>10, <1>11, <1>12 DEF SessionInv

LEMMA PlaceInSlotSessionInv ==
  ASSUME SessionInv, PlaceInSlot
  PROVE  SessionInv'
<1>1. PICK s \in Slots : /\ ~active[s]
                        /\ sockfd' = [sockfd EXCEPT ![s] = client_sockfd]
                        /\ active' = [active EXCEPT ![s] = TRUE]
                        /\ main_idx' = s
  BY DEF PlaceInSlot, First
<1>2. /\ main = "place" /\ main' = "start"
      /\ UNCHANGED <<name, files, client_sockfd, newest, accepted, backlog,
                     handler, client_idx, client>>
  BY DEF PlaceInSlot, handlers, users
<1>3. newest \in Clients /\ handler[newest] = "none" /\ files[client_sockfd] = newest
  BY <1>2 DEF SessionInv, MainHolds
<1>4. Shape'
  BY <1>1, <1>2 DEF SessionInv, Shape
<1>5. Arrivals' /\ MainHolds'
  BY <1>2, <1>3 DEF SessionInv, Arrivals, MainHolds
<1>6. \A c \in Clients : \A i \in Slots :
        /\ Serves(c, i)' <=> Serves(c, i) \/ (c = newest /\ i = s)
        /\ Serves(c, i) => i # s /\ c # newest
  BY <1>1, <1>2, <1>3 DEF Serves, SessionInv, HandlerHasItsSlot
<1>7. \A i \in Slots : /\ active'[i] <=> active[i] \/ i = s
                       /\ i # s => sockfd'[i] = sockfd[i]
                       /\ sockfd'[s] = client_sockfd
  BY <1>1 DEF SessionInv, Shape
<1>8. SlotHasOneHandler'
  <2>1. ASSUME NEW i \in Slots, active'[i], i # s
        PROVE  \E c \in Clients : /\ Serves(c, i)' /\ files'[sockfd'[i]] = c
                                  /\ \A d \in Clients \ {c} : ~Serves(d, i)'
    BY <2>1, <1>2, <1>6, <1>7 DEF SessionInv, SlotHasOneHandler
  <2>2. PICK n \in Clients : n = newest
    BY <1>3
  <2>3. /\ Serves(n, s)' /\ files'[sockfd'[s]] = n
        /\ \A d \in Clients \ {n} : ~Serves(d, s)'
    BY <2>2, <1>2, <1>3, <1>6, <1>7
  <2> QED
    BY <2>1, <2>3 DEF SlotHasOneHandler
<1>9. HandlerHasItsSlot'
  BY <1>6, <1>7 DEF SessionInv, HandlerHasItsSlot
<1>10. DescriptorIsInTable'
  BY <1>1, <1>2, <1>7 DEF SessionInv, DescriptorIsInTable
<1>11. NoNameIsLeft'
  <2>1. name[s] = NoName
    BY <1>1, <1>2 DEF SessionInv, NoNameIsLeft
  <2>2. \A i \in Slots : ~active'[i] => name'[i] = NoName
    BY <1>2, <1>7 DEF SessionInv, NoNameIsLeft
  <2>3. ASSUME NEW c \in Clients, NEW i \in Slots, Serves(c, i)',
               handler'[c] \in Unnamed \cup {"none"}
        PROVE  name'[i] = NoName
    BY <2>1, <2>3, <1>2, <1>6 DEF SessionInv, NoNameIsLeft
  <2> QED
    BY <2>2, <2>3 DEF NoNameIsLeft
<1>12. NamesDiffer'
  <2>1. name[s] = NoName
    BY <1>1, <1>2 DEF SessionInv, NoNameIsLeft
  <2> QED
    BY <2>1, <1>2, <1>7 DEF SessionInv, NamesDiffer
<1> QED
  BY <1>4, <1>5, <1>8, <1>9, <1>10, <1>11, <1>12 DEF SessionInv

LEMMA RejectWhenFullSessionInv ==
  ASSUME SessionInv, RejectWhenFull
  PROVE  SessionInv'
<1>1. /\ main = "place" /\ main' = "accept"
      /\ files' = [files EXCEPT ![client_sockfd] = None]
      /\ client_sockfd' = 0 /\ main_idx' = 0 /\ newest' = None
      /\ UNCHANGED <<sockfd, active, name, accepted, backlog, handler,
                     client_idx, client>>
  BY DEF RejectWhenFull, CloseFd, NextTurn, table, handlers, users
<1>2. newest \in Clients /\ handler[newest] = "none" /\ files[client_sockfd] = newest
  BY <1>1 DEF SessionInv, MainHolds
<1>3. Shape'
  BY <1>1, ZeroIsSlotAndFd DEF SessionInv, Shape
<1>4. Arrivals' /\ MainHolds'
  BY <1>1, ChatTcpAssumption DEF SessionInv, Arrivals, MainHolds
<1>5. \A c \in Clients : \A i \in Slots :
        /\ Serves(c, i)' <=> Serves(c, i)
        /\ Serves(c, i) => c # newest
  BY <1>1, <1>2 DEF Serves
<1>6. \A i \in Slots : active[i] => files'[sockfd[i]] = files[sockfd[i]]
  BY <1>1, <1>2, <1>5 DEF SessionInv, Shape, SlotHasOneHandler
<1>7. SlotHasOneHandler'
  BY <1>1, <1>5, <1>6 DEF SessionInv, SlotHasOneHandler
<1>8. DescriptorIsInTable'
  <2>1. ASSUME NEW f \in Fds, files'[f] # None
        PROVE  f # client_sockfd /\ files[f] # None
    BY <2>1, <1>1 DEF SessionInv, Shape
  <2> QED
    BY <2>1, <1>1 DEF SessionInv, DescriptorIsInTable
<1>9. HandlerHasItsSlot' /\ NoNameIsLeft' /\ NamesDiffer'
  BY <1>1, <1>5 DEF SessionInv, HandlerHasItsSlot, NoNameIsLeft, NamesDiffer
<1> QED
  BY <1>3, <1>4, <1>7, <1>8, <1>9 DEF SessionInv

LEMMA StartHandlerSessionInv ==
  ASSUME SessionInv, StartHandler
  PROVE  SessionInv'
<1>1. /\ main = "start" /\ main' = "accept"
      /\ handler' = [handler EXCEPT ![newest] = "read_name"]
      /\ client_idx' = [client_idx EXCEPT ![newest] = main_idx]
      /\ client_sockfd' = 0 /\ main_idx' = 0 /\ newest' = None
      /\ UNCHANGED <<sockfd, active, name, files, accepted, backlog, client>>
  BY DEF StartHandler, NextTurn, table, users
<1>2. newest \in Clients /\ handler[newest] = "none"
  BY <1>1 DEF SessionInv, MainHolds
<1>3. Shape'
  BY <1>1, <1>2, ZeroIsSlotAndFd DEF SessionInv, Shape, Serving
<1>4. MainHolds'
  BY <1>1 DEF MainHolds
<1>5. Arrivals'
  <2>1. newest \in accepted
    BY <1>1, <1>2 DEF SessionInv, Arrivals
  <2> QED
    BY <1>1, <2>1, ChatTcpAssumption DEF SessionInv, Shape, Arrivals
<1>6. \A c \in Clients : \A i \in Slots : Serves(c, i)' <=> Serves(c, i)
  BY <1>1, <1>2 DEF Serves, SessionInv, Shape
<1>7. SlotHasOneHandler'
  BY <1>1, <1>6 DEF SessionInv, SlotHasOneHandler
<1>8. HandlerHasItsSlot' /\ DescriptorIsInTable' /\ NamesDiffer'
  BY <1>1, <1>6
  DEF SessionInv, HandlerHasItsSlot, DescriptorIsInTable, NamesDiffer
<1>9. NoNameIsLeft'
  <2>1. \A c \in Clients : handler'[c] \in Unnamed => handler[c] \in Unnamed \cup {"none"}
    BY <1>1, <1>2 DEF SessionInv, Shape
  <2>2. \A c \in Clients : handler'[c] = "none" => handler[c] = "none"
    BY <1>1 DEF SessionInv, Shape
  <2> QED
    BY <1>1, <1>6, <2>1, <2>2 DEF SessionInv, NoNameIsLeft
<1> QED
  BY <1>3, <1>4, <1>5, <1>7, <1>8, <1>9 DEF SessionInv

LEMMA ShutDownSessionInv ==
  ASSUME SessionInv, ShutDown
  PROVE  SessionInv'
<1>1. /\ main' = "off"
      /\ files' = [f \in Fds |-> None]
      /\ active' = [i \in Slots |-> FALSE]
      /\ handler' = [c \in Clients |-> "done"]
      /\ accepted' = Clients /\ backlog' = <<>>
      /\ UNCHANGED <<sockfd, name, client_sockfd, main_idx, client_idx, client>>
  BY DEF ShutDown
<1>2. \A c \in Clients : \A i \in Slots : ~Serves(c, i)'
  BY <1>1 DEF Serves
<1>3. Shape'
  BY <1>1 DEF SessionInv, Shape
<1> QED
  BY <1>1, <1>2, <1>3
  DEF SessionInv, Arrivals, MainHolds, SlotHasOneHandler, HandlerHasItsSlot,
      DescriptorIsInTable, NoNameIsLeft, NamesDiffer

-----------------------------------------------------------------------------
(* The handlers.                                                            *)

(* No other slot in use bears the name that is stored: it was looked for in *)
(* the same critical section, and the free slots bear none.                 *)
LEMMA TakeNameSessionInv ==
  ASSUME SessionInv, NEW h \in Clients, TakeName(h)
  PROVE  SessionInv'
<1> DEFINE s == client_idx[h]
<1>1. /\ handler[h] = "register"
      /\ handler' = [handler EXCEPT ![h] = "welcome"]
      /\ name' = [name EXCEPT ![s] = buffer[h].text]
      /\ UNCHANGED <<sockfd, active, files, main, client_sockfd, main_idx,
                     newest, accepted, backlog, client_idx, client>>
  BY DEF TakeName, Goes, mainVars, users
<1>2. s \in Slots /\ Serves(h, s)
  BY <1>1 DEF SessionInv, Shape, Serves
<1>3. active[s] /\ \A d \in Clients \ {h} : ~Serves(d, s)
  BY <1>2, OwnSlot
<1>4. /\ name'[s] = buffer[h].text
      /\ \A i \in Slots \ {s} : name'[i] = name[i]
      /\ \A i \in Slots : active[i] => name[i] # buffer[h].text
  BY <1>1, <1>2 DEF TakeName, NameTaken, SessionInv, Shape
<1>5. Shape'
  BY <1>1 DEF SessionInv, Shape, Serving
<1>6. Arrivals' /\ MainHolds'
  BY <1>1 DEF SessionInv, Shape, Arrivals, MainHolds
<1>7. \A c \in Clients : \A i \in Slots : Serves(c, i)' <=> Serves(c, i)
  BY <1>1 DEF Serves, SessionInv, Shape
<1>8. SlotHasOneHandler'
  BY <1>1, <1>7 DEF SessionInv, SlotHasOneHandler
<1>9. HandlerHasItsSlot' /\ DescriptorIsInTable'
  BY <1>1, <1>7 DEF SessionInv, HandlerHasItsSlot, DescriptorIsInTable
<1>10. NamesDiffer'
  BY <1>1, <1>4 DEF SessionInv, NamesDiffer
<1>11. NoNameIsLeft'
  <2>1. main' # "off" => \A i \in Slots : ~active'[i] => name'[i] = NoName
    BY <1>1, <1>3, <1>4 DEF SessionInv, NoNameIsLeft
  <2>2. ASSUME NEW c \in Clients, NEW i \in Slots, Serves(c, i)',
               handler'[c] \in Unnamed \cup {"none"}
        PROVE  name'[i] = NoName
    <3>1. c # h /\ Serves(c, i)
      BY <1>1, <1>7, <2>2 DEF SessionInv, Shape, Unnamed
    <3>2. i # s /\ handler[c] \in Unnamed \cup {"none"}
      BY <3>1, <2>2, <1>1, <1>3 DEF SessionInv, Shape
    <3> QED
      BY <3>1, <3>2, <1>4 DEF SessionInv, NoNameIsLeft
  <2> QED
    BY <2>1, <2>2 DEF NoNameIsLeft
<1> QED
  BY <1>5, <1>6, <1>8, <1>9, <1>10, <1>11 DEF SessionInv

LEMMA HandlerSessionInv ==
  ASSUME SessionInv, NEW h \in Clients, HandlerStep(h)
  PROVE  SessionInv'
<1>1. CASE TakeName(h)
  BY <1>1, TakeNameSessionInv
<1>2. CASE RefuseName(h)
  <2>1. /\ handler[h] \in Serving /\ handler[h] \in Unnamed
        /\ handler' = [handler EXCEPT ![h] = "done"]
        /\ CloseFd(Fd(h)) /\ FreeSlot(client_idx[h])
        /\ name' = name
        /\ UNCHANGED <<sockfd, main, client_sockfd, main_idx, newest, accepted,
                       client_idx, client, backlog>>
    BY <1>2 DEF RefuseName, Goes, Serving, Unnamed, mainVars, users
  <2> QED
    BY <2>1, SlotIsReleased
<1>3. CASE RemoveClient(h)
  <2>1. /\ handler[h] \in Serving /\ client_idx[h] \in Slots
        /\ Serves(h, client_idx[h])
    BY <1>3 DEF RemoveClient, Serving, Serves, SessionInv, Shape
  <2>2. active[client_idx[h]]
    BY <2>1, OwnSlot
  <2>3. PICK pc \in {"left", "done"} : handler' = [handler EXCEPT ![h] = pc]
    BY <1>3 DEF RemoveClient, Goes
  <2>4. /\ CloseFd(Fd(h)) /\ FreeSlot(client_idx[h])
        /\ name' = [name EXCEPT ![client_idx[h]] = NoName]
        /\ UNCHANGED <<sockfd, main, client_sockfd, main_idx, newest, accepted,
                       client_idx, client, backlog>>
    BY <1>3, <2>2 DEF RemoveClient, mainVars, users
  <2> QED
    BY <2>1, <2>3, <2>4, SlotIsReleased
<1>4. CASE AnnounceLeft(h)
  BY <1>4, HandlerGoesSessionInv DEF AnnounceLeft, Goes, table, mainVars, users
<1>5. CASE \/ CallRead(h) \/ ReadReturns(h) \/ Welcome(h) \/ AnnounceJoin(h)
           \/ Refresh(h) \/ ToAll(h) \/ ToOne(h) \/ Respond(h) \/ Stop(h)
  <2>1. UNCHANGED <<sockfd, active, name, files, main, client_sockfd, main_idx,
                    newest, accepted, client_idx, client, backlog>>
    BY <1>5
    DEF CallRead, ReadReturns, Welcome, AnnounceJoin, Refresh, ToAll, ToOne,
        Respond, Stop, table, mainVars, users
  <2>2. \E pc \in Serving :
          /\ handler' = [handler EXCEPT ![h] = pc]
          /\ handler[h] \in Serving
          /\ handler[h] \in Unnamed \/ pc \notin Unnamed
    BY <1>5
    DEF CallRead, ReadReturns, Welcome, AnnounceJoin, Refresh, ToAll, ToOne,
        Respond, Stop, Goes, Waiting, HasLine, NothingToRead, Serving, Unnamed
  <2> QED
    BY <2>1, <2>2, HandlerGoesSessionInv
<1> QED
  BY <1>1, <1>2, <1>3, <1>4, <1>5 DEF HandlerStep

(* Users, clients and the checker, as long as it drops nobody.              *)
LEMMA OthersSessionInv ==
  ASSUME SessionInv, NEW c \in Clients,
         \/ ClientStep(c) \/ TypeLine(c) \/ TypeNothing(c) \/ EndInput(c)
         \/ CtrlC(c)
  PROVE  SessionInv'
<1>1. UNCHANGED serverVars /\ UNCHANGED backlog
  BY DEF ClientStep, WriteName, GetReply, Receive, ConnectionEnds, TypeLine, TypeNothing,
         EndInput, CtrlC, table, mainVars, handlers, serverVars
<1>2. DOMAIN client' = Clients
  BY DEF ClientStep, WriteName, GetReply, Receive, ConnectionEnds, TypeLine, TypeNothing,
         EndInput, CtrlC, SessionInv, Shape
<1>3. \A d \in Clients : client'[d] = "start" <=> client[d] = "start"
  BY DEF ClientStep, WriteName, GetReply, Receive, ConnectionEnds, TypeLine, TypeNothing,
         EndInput, CtrlC, SessionInv, Shape
<1> QED
  BY <1>1, <1>2, <1>3, ElsewhereSessionInv

LEMMA CheckerSessionInv ==
  ASSUME SessionInv, CheckerStep, timed_out' = {}
  PROVE  SessionInv'
<1>1. UNCHANGED serverVars /\ UNCHANGED <<backlog, client>>
  BY DEF CheckerStep, WakeUp, Scan, AnnounceTimeout, table, mainVars, handlers,
         users, serverVars
<1> QED
  BY <1>1, ElsewhereSessionInv DEF SessionInv, Shape

-----------------------------------------------------------------------------
LEMMA NextSessionInv ==
  ASSUME SessionInv, [Next]_vars, timed_out' = {}
  PROVE  SessionInv'
<1>1. CASE MainStep
  BY <1>1, AcceptSessionInv, PlaceInSlotSessionInv, RejectWhenFullSessionInv,
     StartHandlerSessionInv DEF MainStep
<1>2. CASE ShutDown
  BY <1>2, ShutDownSessionInv
<1>3. CASE CheckerStep
  BY <1>3, CheckerSessionInv
<1>4. ASSUME NEW c \in Clients, HandlerStep(c) \/ ClientStep(c) \/ UserStep(c)
      PROVE  SessionInv'
  BY <1>4, HandlerSessionInv, OthersSessionInv, ConnectSessionInv DEF UserStep
<1>5. CASE UNCHANGED vars
  BY <1>5, ElsewhereSessionInv
  DEF vars, table, mainVars, handlers, users, serverVars, SessionInv, Shape
<1> QED
  BY <1>1, <1>2, <1>3, <1>4, <1>5 DEF Next

(* Nothing makes the checker forget whom it closed.                         *)
LEMMA TimedOutGrows ==
  ASSUME [Next]_vars, timed_out' = {}
  PROVE  timed_out = {}
  BY DEF Next, vars, MainStep, Accept, PlaceInSlot, RejectWhenFull,
         StartHandler, ShutDown, CheckerStep, WakeUp, Scan, AnnounceTimeout,
         HandlerStep, CallRead, ReadReturns, RefuseName, TakeName, Welcome,
         AnnounceJoin, Refresh, ToAll, ToOne, Respond, Stop, RemoveClient,
         AnnounceLeft, ClientStep, WriteName, GetReply, Receive, ConnectionEnds,
         UserStep, Connect, TypeLine, TypeNothing, EndInput, CtrlC, checkers

(* Until the checker closes a connection, SessionInv holds.                 *)
THEOREM SessionsCorrect == Spec => [](NobodyTimedOut => SessionInv)
<1>1. Init => (NobodyTimedOut => SessionInv)
  BY InitSessionInv
<1>2. (NobodyTimedOut => SessionInv) /\ [Next]_vars =>
        (NobodyTimedOut => SessionInv)'
  BY NextSessionInv, TimedOutGrows DEF NobodyTimedOut
<1> QED
  BY <1>1, <1>2, PTL DEF Spec

(* A slot in use belongs to one handler and holds its open connection; no   *)
(* descriptor leaks.                                                        *)
THEOREM SeparationCorrect == Spec => []SessionsAreSeparate
<1>1. (NobodyTimedOut => SessionInv) => SessionsAreSeparate
  BY DEF SessionInv, SessionsAreSeparate
<1> QED
  BY <1>1, SessionsCorrect, PTL

(* Two slots in use do not bear the same name.                              *)
THEOREM NamesCorrect == Spec => []NamesAreUnique
<1>1. (NobodyTimedOut => SessionInv) => NamesAreUnique
  BY DEF SessionInv, NamesAreUnique
<1> QED
  BY <1>1, SessionsCorrect, PTL

-----------------------------------------------------------------------------
(* What is written, and the type invariant.                                 *)

Messages == [kind : {"OK", "ERROR", "text", "ALIVE"}]
            \cup [kind : {"chat"}, from : Texts \cup {NoName},
                  to : Names \cup {NoName}, by : Clients]

(* The clients in Who, and no others, are sent msg, some perhaps twice.     *)
OutboxGains(msg, Who) ==
  /\ outbox' \in [Clients -> Seq(Messages)]
  /\ \A c \in Clients :
       /\ Len(outbox[c]) <= Len(outbox'[c])
       /\ \A k \in 1 .. Len(outbox[c]) : outbox'[c][k] = outbox[c][k]
       /\ \A k \in Len(outbox[c]) + 1 .. Len(outbox'[c]) : outbox'[c][k] = msg
       /\ c \in Who <=> Len(outbox[c]) < Len(outbox'[c])

Holders(S) == {c \in Clients : client[c] # "gone" /\ \E i \in S : files[sockfd[i]] = c}

Holder(f) == {c \in Clients : client[c] # "gone" /\ files[f] = c}

LEMMA WriteFdGains ==
  ASSUME outbox \in [Clients -> Seq(Messages)], NEW f, NEW msg \in Messages,
         WriteFd(f, msg)
  PROVE  OutboxGains(msg, Holder(f))
<1>1. \A c \in Clients : outbox'[c] = IF c \in Holder(f) THEN Append(outbox[c], msg)
                                                         ELSE outbox[c]
  BY DEF WriteFd, Holder
<1>2. outbox' = [c \in Clients |-> outbox'[c]]
  BY DEF WriteFd
<1>3. ASSUME NEW c \in Clients
      PROVE  /\ outbox'[c] \in Seq(Messages)
             /\ Len(outbox[c]) <= Len(outbox'[c])
             /\ \A k \in 1 .. Len(outbox[c]) : outbox'[c][k] = outbox[c][k]
             /\ \A k \in Len(outbox[c]) + 1 .. Len(outbox'[c]) : outbox'[c][k] = msg
             /\ c \in Holder(f) <=> Len(outbox[c]) < Len(outbox'[c])
  <2>1. outbox[c] \in Seq(Messages) /\ Len(outbox[c]) \in Nat
    BY <1>3
  <2>2. CASE c \in Holder(f)
    <3>1. outbox'[c] = Append(outbox[c], msg)
      BY <2>2, <1>1
    <3> QED
      BY <2>1, <2>2, <3>1, AppendProperties
  <2>3. CASE c \notin Holder(f)
    BY <2>1, <2>3, <1>1
  <2> QED
    BY <2>2, <2>3
<1> QED
  BY <1>2, <1>3 DEF OutboxGains

LEMMA Repeated ==
  ASSUME NEW S, NEW q \in Seq(S), NEW m \in S, NEW n \in Nat, NEW r,
         r = q \o [k \in 1 .. n |-> m]
  PROVE  /\ r \in Seq(S) /\ Len(r) = Len(q) + n
         /\ \A k \in 1 .. Len(q) : r[k] = q[k]
         /\ \A k \in Len(q) + 1 .. Len(r) : r[k] = m
<1>1. PICK t : t = [k \in 1 .. n |-> m]
  OBVIOUS
<1>2. t \in Seq(S) /\ Len(t) = n /\ \A k \in 1 .. n : t[k] = m
  BY <1>1
<1>3. /\ q \o t \in Seq(S) /\ Len(q \o t) = Len(q) + Len(t)
      /\ \A k \in 1 .. Len(q) + Len(t) :
           (q \o t)[k] = IF k <= Len(q) THEN q[k] ELSE t[k - Len(q)]
  BY <1>2, ConcatProperties
<1>4. r = q \o t /\ Len(q) \in Nat
  BY <1>1
<1> QED
  BY <1>2, <1>3, <1>4

LEMMA WriteSlotsGains ==
  ASSUME outbox \in [Clients -> Seq(Messages)], NEW S \in SUBSET Slots,
         NEW msg \in Messages, WriteSlots(S, msg)
  PROVE  OutboxGains(msg, Holders(S))
<1> DEFINE copies(c) == Cardinality({i \in S : files[sockfd[i]] = c})
<1>1. \A c \in Clients : outbox'[c] = IF client[c] = "gone" THEN outbox[c]
                                                          ELSE outbox[c] \o [k \in 1 .. copies(c) |-> msg]
  BY DEF WriteSlots
<1>2. outbox' = [c \in Clients |-> outbox'[c]]
  BY DEF WriteSlots
<1>3. IsFiniteSet(Slots)
  BY ChatTcpAssumption, FS_Interval DEF Slots
<1>4. ASSUME NEW c \in Clients
      PROVE  /\ copies(c) \in Nat
             /\ copies(c) = 0 <=> ~ \E i \in S : files[sockfd[i]] = c
  <2> DEFINE T == {i \in S : files[sockfd[i]] = c}
  <2>1. IsFiniteSet(T)
    BY <1>3, FS_Subset
  <2>2. T = {} <=> ~ \E i \in S : files[sockfd[i]] = c
    OBVIOUS
  <2> QED
    BY <2>1, <2>2, FS_CardinalityType, FS_EmptySet
<1> HIDE DEF copies
<1>5. ASSUME NEW c \in Clients
      PROVE  /\ outbox'[c] \in Seq(Messages)
             /\ Len(outbox[c]) <= Len(outbox'[c])
             /\ \A k \in 1 .. Len(outbox[c]) : outbox'[c][k] = outbox[c][k]
             /\ \A k \in Len(outbox[c]) + 1 .. Len(outbox'[c]) : outbox'[c][k] = msg
             /\ c \in Holders(S) <=> Len(outbox[c]) < Len(outbox'[c])
  <2>1. outbox[c] \in Seq(Messages) /\ Len(outbox[c]) \in Nat
    BY <1>5
  <2>2. CASE client[c] # "gone"
    <3>1. outbox'[c] = outbox[c] \o [k \in 1 .. copies(c) |-> msg]
      BY <2>2, <1>1
    <3>2. copies(c) \in Nat
      BY <1>4
    <3>3. /\ outbox'[c] \in Seq(Messages)
          /\ Len(outbox'[c]) = Len(outbox[c]) + copies(c)
          /\ \A k \in 1 .. Len(outbox[c]) : outbox'[c][k] = outbox[c][k]
          /\ \A k \in Len(outbox[c]) + 1 .. Len(outbox'[c]) : outbox'[c][k] = msg
      <4>1. PICK q, r, n : q = outbox[c] /\ r = outbox'[c] /\ n = copies(c)
        OBVIOUS
      <4>2. q \in Seq(Messages) /\ r = q \o [k \in 1 .. n |-> msg]
        BY <2>1, <3>1, <4>1
      <4> n \in Nat
        BY <3>2, <4>1
      <4>3. /\ r \in Seq(Messages) /\ Len(r) = Len(q) + n
            /\ \A k \in 1 .. Len(q) : r[k] = q[k]
            /\ \A k \in Len(q) + 1 .. Len(r) : r[k] = msg
        BY <4>2, Repeated
      <4> QED
        BY <4>1, <4>3
    <3>4. c \in Holders(S) <=> \E i \in S : files[sockfd[i]] = c
      BY <1>5, <2>2 DEF Holders
    <3>5. c \in Holders(S) <=> copies(c) # 0
      BY <1>4, <3>4
    <3> QED
      BY <2>1, <3>2, <3>3, <3>5
  <2>3. CASE client[c] = "gone"
    <3>1. outbox'[c] = outbox[c] /\ c \notin Holders(S)
      BY <2>3, <1>1 DEF Holders
    <3> QED
      BY <2>1, <3>1
  <2> QED
    BY <2>2, <2>3
<1> QED
  BY <1>2, <1>5 DEF OutboxGains

(* What is left when the first n of a sequence were read.                   *)
LEMMA RestOf ==
  ASSUME NEW S, NEW q \in Seq(S), NEW n \in 1 .. Len(q)
  PROVE  /\ SubSeq(q, n + 1, Len(q)) \in Seq(S)
         /\ Len(SubSeq(q, n + 1, Len(q))) = Len(q) - n
         /\ \A k \in 1 .. Len(q) - n : SubSeq(q, n + 1, Len(q))[k] = q[k + n]
<1>1. /\ n + 1 \in Int /\ Len(q) \in Nat /\ n <= Len(q) /\ n \in Nat
      /\ \A i \in n + 1 .. Len(q) : q[i] \in S
  OBVIOUS
<1> DEFINE r == SubSeq(q, n + 1, Len(q))
<1>2. /\ r \in Seq(S)
      /\ Len(r) = IF n + 1 <= Len(q) THEN Len(q) - (n + 1) + 1 ELSE 0
      /\ \A i \in 1 .. Len(q) - (n + 1) + 1 : r[i] = q[n + 1 + i - 1]
  BY <1>1, SubSeqProperties
<1> HIDE DEF r
<1>3. Len(r) = Len(q) - n
  BY <1>1, <1>2
<1>4. ASSUME NEW k \in 1 .. Len(q) - n PROVE r[k] = q[k + n]
  <2>1. k \in 1 .. Len(q) - (n + 1) + 1 /\ n + 1 + k - 1 = k + n
    BY <1>1
  <2> QED
    BY <1>2, <2>1
<1> QED
  BY <1>2, <1>3, <1>4 DEF r

(* What a read leaves: the lines behind those it has taken, the first of    *)
(* them as it is or cut.                                                    *)
LEMMA LeftOf ==
  ASSUME NEW q \in Seq(Lines), NEW n \in 1 .. Len(q), NEW cut \in BOOLEAN,
         cut => n < Len(q)
  PROVE  /\ Left(q, n, cut) \in Seq(Lines)
         /\ Len(Left(q, n, cut)) = Len(q) - n
         /\ \A k \in 1 .. Len(q) - n :
              \/ Left(q, n, cut)[k] = q[k + n]
              \/ /\ cut /\ k = 1
                 /\ Left(q, n, cut)[k].text = "rest"
                 /\ Left(q, n, cut)[k].by = q[k + n].by
<1>1. PICK left : left = SubSeq(q, n + 1, Len(q))
  OBVIOUS
<1>2. /\ left \in Seq(Lines) /\ Len(left) = Len(q) - n /\ Len(q) \in Nat
      /\ \A k \in 1 .. Len(q) - n : left[k] = q[k + n]
  BY <1>1, RestOf
<1>3. CASE ~cut
  <2>1. Left(q, n, cut) = left
    BY <1>1, <1>3 DEF Left
  <2> QED
    BY <1>2, <2>1
<1>4. CASE cut
  <2>1. Len(left) \in Nat \ {0} /\ left[1] \in Lines /\ left[1] = q[1 + n]
    BY <1>2, <1>4
  <2>2. PICK rest : rest = [left[1] EXCEPT !.text = "rest", !.to = NoName]
    OBVIOUS
  <2>3. rest \in Lines /\ rest.text = "rest" /\ rest.by = left[1].by
    BY <2>1, <2>2 DEF Lines, Texts
  <2>4. /\ Tail(left) \in Seq(Lines) /\ Len(Tail(left)) = Len(left) - 1
        /\ \A k \in 1 .. Len(left) - 1 : Tail(left)[k] = left[k + 1]
    BY <1>2, <2>1
  <2>5. PICK r : r = <<rest>> \o Tail(left)
    OBVIOUS
  <2>6. /\ r \in Seq(Lines) /\ Len(r) = Len(left) /\ r[1] = rest
        /\ \A k \in 2 .. Len(left) : r[k] = Tail(left)[k - 1]
    BY <2>1, <2>3, <2>4, <2>5
  <2>7. Left(q, n, cut) = r
    BY <1>1, <1>4, <2>2, <2>5 DEF Left
  <2>8. \A k \in 2 .. Len(left) : r[k] = left[k]
    BY <2>1, <2>4, <2>6
  <2>9. ASSUME NEW k \in 1 .. Len(q) - n
        PROVE  r[k] = q[k + n] \/ (k = 1 /\ r[k].text = "rest" /\ r[k].by = q[k + n].by)
    <3>1. CASE k = 1
      BY <2>1, <2>3, <2>6, <3>1
    <3>2. CASE k # 1
      <4>1. k \in 2 .. Len(left)
        BY <1>2, <3>2
      <4> QED
        BY <1>2, <2>8, <4>1
    <3> QED
      BY <3>1, <3>2
  <2> QED
    BY <1>2, <1>4, <2>6, <2>7, <2>9
<1> QED
  BY <1>3, <1>4

(* TypeOK, as functions, with what makes it inductive: what connects and    *)
(* who waits where, and what lines and messages are.                        *)
TableTyped ==
  /\ sockfd \in [Slots -> Fds] /\ active \in [Slots -> BOOLEAN]
  /\ name \in [Slots -> Texts \cup {NoName}]
  /\ age \in [Slots -> 0..Stale]
  /\ files \in [Fds -> Clients \cup {None}]

MainTyped ==
  /\ main \in {"accept", "place", "start", "off"}
  /\ client_sockfd \in Fds /\ main_idx \in Slots
  /\ newest \in Clients \cup {None} /\ accepted \in SUBSET Clients
  /\ backlog \in Seq(Clients)
  /\ Arrivals
  /\ main \in {"place", "start"} => newest \in Clients /\ handler[newest] = "none"

HandlersTyped ==
  /\ handler \in [Clients -> Serving \cup {"none", "left", "done"}]
  /\ client_idx \in [Clients -> Slots]
  /\ reading \in [Clients -> Clients \cup {None}]
  /\ buffer \in [Clients -> Lines \cup {None}]
  /\ ignored \in SUBSET Clients
  /\ \A c \in Clients :
       /\ buffer[c] # None <=> handler[c] \in {"register", "refresh", "execute"}
       /\ reading[c] # None <=> handler[c] \in {"wait_name", "wait"}

CheckerTyped ==
  /\ checker \in {"sleep", "scan", "announce", "off"}
  /\ next_slot \in 0..MAX_CLIENTS
  /\ timed_out \in SUBSET (Clients \cup {None})

UsersTyped ==
  /\ client \in [Clients -> {"start", "connected", "await", "running", "gone"}]
  /\ flag \in [Clients -> BOOLEAN]
  /\ send_thread \in [Clients -> {"none", "fgets", "over"}]
  /\ swallowed \in [Clients -> 0..CLIENT_TIMEOUT]

StreamsTyped ==
  inbox \in [Clients -> Seq(Lines)] /\ outbox \in [Clients -> Seq(Messages)]

TypeInv ==
  /\ TableTyped /\ MainTyped /\ HandlersTyped
  /\ CheckerTyped /\ UsersTyped /\ StreamsTyped

LEMMA TypeInvImpliesTypeOK == TypeInv => TypeOK
<1> SUFFICES ASSUME TypeInv PROVE TypeOK
  OBVIOUS
<1>1. \A c \in Clients :
       /\ client[c] \in {"start", "connected", "await", "running", "gone"}
       /\ send_thread[c] \in {"none", "fgets", "over"}
       /\ handler[c] \in {"none", "read_name", "wait_name", "register",
                         "welcome", "join", "read", "wait", "refresh",
                         "execute", "quit", "leave", "left", "done"}
  BY DEF TypeInv, HandlersTyped, UsersTyped, Serving
<1> QED
  BY <1>1 DEF TypeInv, TypeOK, TableTyped, MainTyped, HandlersTyped,
              CheckerTyped, UsersTyped

LEMMA InitTypeInv == Init => TypeInv
<1> SUFFICES ASSUME Init PROVE TypeInv
  OBVIOUS
<1>1. TableTyped
  BY ZeroIsSlotAndFd, ChatTcpAssumption DEF Init, TableTyped, Stale
<1>2. MainTyped
  BY ZeroIsSlotAndFd, ChatTcpAssumption DEF Init, MainTyped, Arrivals
<1>3. HandlersTyped
  BY ZeroIsSlotAndFd DEF Init, HandlersTyped
<1>4. CheckerTyped /\ UsersTyped
  BY ChatTcpAssumption DEF Init, CheckerTyped, UsersTyped
<1>5. StreamsTyped
  BY DEF Init, StreamsTyped
<1> QED
  BY <1>1, <1>2, <1>3, <1>4, <1>5 DEF TypeInv

LEMMA SaidAreMessages ==
  \A m \in {"OK", "ERROR", "text", "ALIVE"} : Say(m) \in Messages
  BY DEF Say, Messages

LEMMA SignedAreMessages ==
  ASSUME TypeInv, NEW h \in Clients, handler[h] = "execute"
  PROVE  Signed(h) \in Messages /\ Signed(h).kind = "chat"
<1>1. buffer[h] \in Lines /\ name[client_idx[h]] \in Texts \cup {NoName}
  BY DEF TypeInv, HandlersTyped, TableTyped
<1>2. buffer[h].to \in Names \cup {NoName} /\ buffer[h].by \in Clients
  BY <1>1 DEF Lines
<1> QED
  BY <1>1, <1>2 DEF Signed, Messages

(* Everything a client can write is a line.                                 *)
LEMMA LinesWritten ==
  ASSUME NEW c \in Clients
  PROVE  /\ Line(Name[c], NoName, c) \in Lines
         /\ Line("STOP", NoName, c) \in Lines
         /\ Line("ALIVE_ACK", NoName, c) \in Lines
         /\ \A t \in Typed : Line(t.text, t.to, c) \in Lines
<1>1. \A t \in Typed : t.to \in Names \cup {NoName}
  BY ChatTcpAssumption
<1>2. Name[c] \in Names
  BY DEF Names
<1> QED
  BY <1>1, <1>2 DEF Line, Lines, Texts

LEMMA WritesType ==
  ASSUME inbox \in [Clients -> Seq(Lines)], NEW c \in Clients, NEW l \in Lines,
         Writes(c, l)
  PROVE  /\ inbox' \in [Clients -> Seq(Lines)]
         /\ Len(inbox'[c]) = Len(inbox[c]) + 1 /\ inbox'[c][Len(inbox[c]) + 1] = l
         /\ \A k \in 1 .. Len(inbox[c]) : inbox'[c][k] = inbox[c][k]
         /\ \A d \in Clients \ {c} : inbox'[d] = inbox[d]
<1>1. PICK q, r : q = inbox[c] /\ r = Append(q, l)
  OBVIOUS
<1>2. q \in Seq(Lines)
  BY <1>1
<1>3. /\ r \in Seq(Lines) /\ Len(r) = Len(q) + 1
      /\ \A k \in 1 .. Len(q) : r[k] = q[k]
      /\ r[Len(q) + 1] = l
  BY <1>1, <1>2, AppendProperties
<1>4. inbox' = [inbox EXCEPT ![c] = r]
  BY <1>1 DEF Writes
<1> QED
  BY <1>1, <1>3, <1>4

(* Who has connected, and where main and the handlers are, stay in step.    *)
LEMMA MainTypeInv ==
  ASSUME TypeInv, MainStep
  PROVE  TypeInv'
<1>1. CASE Accept
  <2>1. PICK f \in Fds : /\ files' = [files EXCEPT ![f] = Head(backlog)]
                        /\ client_sockfd' = f
    BY <1>1 DEF Accept
  <2>2. /\ backlog \in Seq(Clients) /\ backlog # <<>> /\ Len(backlog) \in Nat \ {0}
        /\ Head(backlog) \in Clients /\ Head(backlog) = backlog[1]
        /\ backlog' = Tail(backlog) /\ backlog' \in Seq(Clients)
        /\ Len(backlog') = Len(backlog) - 1
        /\ \A k \in 1 .. Len(backlog') : backlog'[k] = backlog[k + 1]
    BY <1>1 DEF Accept, TypeInv, MainTyped
  <2>3. /\ main = "accept" /\ main' = "place" /\ newest' = Head(backlog)
        /\ accepted' = accepted \cup {Head(backlog)}
        /\ UNCHANGED <<table, main_idx, handlers, checkers, inbox, outbox, users>>
    BY <1>1 DEF Accept
  <2>4. TableTyped'
    BY <2>1, <2>2, <2>3 DEF TypeInv, TableTyped, table
  <2>5. /\ Head(backlog) \notin accepted /\ handler[Head(backlog)] = "none"
        /\ client[Head(backlog)] # "start"
    BY <2>2, <2>3 DEF TypeInv, MainTyped, Arrivals
  <2>6. \A k \in 1 .. Len(backlog') : k + 1 \in 1 .. Len(backlog) /\ k + 1 # 1
    BY <2>2
  <2>7. Arrivals'
    <3>1. \A k \in 1 .. Len(backlog') :
            backlog'[k] \notin accepted' /\ client[backlog'[k]] # "start"
      BY <2>2, <2>3, <2>6 DEF TypeInv, MainTyped, Arrivals
    <3>2. \A k, l \in 1 .. Len(backlog') : backlog'[k] = backlog'[l] => k = l
      BY <2>2, <2>3, <2>6 DEF TypeInv, MainTyped, Arrivals
    <3> QED
      BY <2>3, <2>5, <3>1, <3>2 DEF TypeInv, MainTyped, Arrivals, handlers, users
  <2>8. MainTyped'
    BY <2>1, <2>2, <2>3, <2>5, <2>7 DEF TypeInv, MainTyped, handlers
  <2> QED
    BY <2>3, <2>4, <2>8
    DEF TypeInv, HandlersTyped, CheckerTyped, UsersTyped, StreamsTyped, handlers,
        checkers, users
<1>2. CASE PlaceInSlot
  <2>1. TableTyped'
    BY <1>2 DEF PlaceInSlot, TypeInv, TableTyped, MainTyped
  <2>2. MainTyped'
    BY <1>2 DEF PlaceInSlot, TypeInv, MainTyped, Arrivals, handlers, users
  <2> QED
    BY <1>2, <2>1, <2>2
    DEF PlaceInSlot, TypeInv, HandlersTyped, CheckerTyped, UsersTyped,
        StreamsTyped, handlers, checkers, users
<1>3. CASE RejectWhenFull
  <2>1. outbox' \in [Clients -> Seq(Messages)]
    BY <1>3, SaidAreMessages, WriteFdGains
    DEF RejectWhenFull, TypeInv, StreamsTyped, OutboxGains
  <2>2. TableTyped'
    BY <1>3 DEF RejectWhenFull, CloseFd, TypeInv, TableTyped, table
  <2>3. MainTyped'
    BY <1>3, ZeroIsSlotAndFd, ChatTcpAssumption
    DEF RejectWhenFull, NextTurn, TypeInv, MainTyped, Arrivals, handlers, users
  <2> QED
    BY <1>3, <2>1, <2>2, <2>3
    DEF RejectWhenFull, TypeInv, HandlersTyped, CheckerTyped, UsersTyped,
        StreamsTyped, handlers, checkers, users
<1>4. CASE StartHandler
  <2>1. newest \in Clients /\ handler[newest] = "none" /\ main = "start"
    BY <1>4 DEF StartHandler, TypeInv, MainTyped
  <2>2. newest \in accepted
    BY <2>1 DEF TypeInv, MainTyped, Arrivals
  <2>3. Arrivals'
    BY <1>4, <2>1, <2>2, ChatTcpAssumption
    DEF StartHandler, NextTurn, TypeInv, MainTyped, HandlersTyped, Arrivals, users
  <2>4. MainTyped'
    BY <1>4, <2>3, ZeroIsSlotAndFd DEF StartHandler, NextTurn, TypeInv, MainTyped
  <2>5. HandlersTyped'
    BY <1>4, <2>1
    DEF StartHandler, TypeInv, HandlersTyped, MainTyped, Serving
  <2> QED
    BY <1>4, <2>4, <2>5
    DEF StartHandler, TypeInv, TableTyped, CheckerTyped, UsersTyped,
        StreamsTyped, table, checkers, users
<1> QED
  BY <1>1, <1>2, <1>3, <1>4 DEF MainStep

LEMMA ShutDownTypeInv ==
  ASSUME TypeInv, ShutDown
  PROVE  TypeInv'
<1>1. outbox' \in [Clients -> Seq(Messages)]
  <2>1. WriteSlots(ActiveBut(NoSlot), Say("text"))
    BY DEF ShutDown
  <2> QED
    BY <2>1, SaidAreMessages, WriteSlotsGains
    DEF ActiveBut, TypeInv, StreamsTyped, OutboxGains
<1>2. TableTyped'
  BY DEF ShutDown, TypeInv, TableTyped
<1>3. MainTyped'
  BY DEF ShutDown, TypeInv, MainTyped, Arrivals
<1>4. HandlersTyped'
  BY DEF ShutDown, TypeInv, HandlersTyped
<1>5. CheckerTyped' /\ UsersTyped'
  BY DEF ShutDown, TypeInv, CheckerTyped, UsersTyped
<1> QED
  BY <1>1, <1>2, <1>3, <1>4, <1>5 DEF ShutDown, TypeInv, StreamsTyped

LEMMA CheckerTypeInv ==
  ASSUME TypeInv, CheckerStep
  PROVE  TypeInv'
<1>1. MainTyped' /\ HandlersTyped'
  BY DEF CheckerStep, WakeUp, Scan, AnnounceTimeout, TypeInv, MainTyped, Arrivals,
         HandlersTyped, mainVars, handlers, users
<1>2. UsersTyped' /\ inbox' = inbox
  BY DEF CheckerStep, WakeUp, Scan, AnnounceTimeout, TypeInv, UsersTyped, users
<1>3. CASE WakeUp
  <2>1. TableTyped'
    <3>1. Stale \in Nat
      BY ChatTcpAssumption DEF Stale
    <3> QED
      BY <1>3, <3>1 DEF WakeUp, TypeInv, TableTyped
  <2>2. CheckerTyped'
    BY <1>3, ChatTcpAssumption DEF WakeUp, TypeInv, CheckerTyped
  <2> QED
    BY <1>1, <1>2, <1>3, <2>1, <2>2 DEF WakeUp, TypeInv, StreamsTyped
<1>4. CASE Scan
  <2>1. PICK S \in SUBSET Slots : WriteSlots(S, Say("ALIVE"))
    <3>1. next_slot \in Nat /\ MAX_CLIENTS \in Nat
      BY ChatTcpAssumption DEF TypeInv, CheckerTyped
    <3>2. \A i \in next_slot .. MAX_CLIENTS - 1 :
            {j \in next_slot .. i - 1 : active[j]} \in SUBSET Slots
      BY <3>1 DEF Slots
    <3>3. {j \in next_slot .. MAX_CLIENTS - 1 : active[j]} \in SUBSET Slots
      BY <3>1 DEF Slots
    <3> QED
      BY <1>4, <3>2, <3>3 DEF Scan
  <2>2. outbox' \in [Clients -> Seq(Messages)]
    BY <2>1, SaidAreMessages, WriteSlotsGains DEF TypeInv, StreamsTyped, OutboxGains
  <2>3. \A i \in next_slot .. MAX_CLIENTS - 1 : i \in Slots /\ i + 1 \in 0 .. MAX_CLIENTS
    BY ChatTcpAssumption DEF TypeInv, CheckerTyped, Slots
  <2>4. TableTyped'
    BY <1>4, <2>3 DEF Scan, CloseFd, FreeSlot, TypeInv, TableTyped
  <2>5. CheckerTyped'
    <3>1. \A i \in Slots : files[sockfd[i]] \in Clients \cup {None}
      BY DEF TypeInv, TableTyped
    <3>2. timed_out' \in SUBSET (Clients \cup {None})
      <4>1. \/ timed_out' = timed_out
            \/ \E i \in Slots : timed_out' = timed_out \cup {files[sockfd[i]]}
        BY <1>4, <2>3 DEF Scan
      <4> QED
        BY <3>1, <4>1 DEF TypeInv, CheckerTyped
    <3>3. next_slot' \in 0 .. MAX_CLIENTS
      <4>1. \/ next_slot' = 0
            \/ \E i \in next_slot .. MAX_CLIENTS - 1 : next_slot' = i + 1
        BY <1>4 DEF Scan
      <4> QED
        BY <2>3, <4>1, ChatTcpAssumption
    <3> QED
      BY <1>4, <3>2, <3>3 DEF Scan, CheckerTyped
  <2> QED
    BY <1>1, <1>2, <2>2, <2>4, <2>5 DEF TypeInv, StreamsTyped
<1>5. CASE AnnounceTimeout
  <2>1. WriteSlots(ActiveBut(NoSlot), Say("text"))
    BY <1>5 DEF AnnounceTimeout
  <2>2. outbox' \in [Clients -> Seq(Messages)]
    BY <2>1, SaidAreMessages, WriteSlotsGains
    DEF ActiveBut, TypeInv, StreamsTyped, OutboxGains
  <2>3. TableTyped' /\ CheckerTyped'
    BY <1>5 DEF AnnounceTimeout, TypeInv, TableTyped, CheckerTyped, table
  <2> QED
    BY <1>1, <1>2, <2>2, <2>3 DEF TypeInv, StreamsTyped
<1> QED
  BY <1>3, <1>4, <1>5 DEF CheckerStep

(* What no handler touches.                                                 *)
LEMMA HandlerFrame ==
  ASSUME NEW h, HandlerStep(h)
  PROVE  UNCHANGED <<sockfd, mainVars, client_idx, checkers, users>>
  BY DEF HandlerStep, CallRead, ReadReturns, RefuseName, TakeName, Welcome,
         AnnounceJoin, Refresh, ToAll, ToOne, Respond, Stop, RemoveClient,
         AnnounceLeft, table

(* What a handler writes; the other steps of a handler write nothing.       *)
LEMMA HandlerWrites ==
  ASSUME TypeInv, NEW h \in Clients, HandlerStep(h)
  PROVE  \/ outbox' = outbox
         \/ RefuseName(h) /\ OutboxGains(Say("ERROR"), Holder(Fd(h)))
         \/ Welcome(h) /\ OutboxGains(Say("OK"), Holder(Fd(h)))
         \/ AnnounceJoin(h) /\ OutboxGains(Say("text"), Holders(ActiveBut(client_idx[h])))
         \/ ToAll(h) /\ OutboxGains(Signed(h), Holders(ActiveBut(client_idx[h])))
         \/ ToOne(h) /\ \E i \in Slots : /\ active[i] /\ name[i] = buffer[h].to
                                        /\ OutboxGains(Signed(h), Holder(sockfd[i]))
         \/ (ToOne(h) \/ Respond(h)) /\ OutboxGains(Say("text"), Holder(Fd(h)))
         \/ AnnounceLeft(h) /\ OutboxGains(Say("text"), Holders(ActiveBut(NoSlot)))
<1>1. outbox \in [Clients -> Seq(Messages)]
  BY DEF TypeInv, StreamsTyped
<1>2. \A n : ActiveBut(n) \in SUBSET Slots
  BY DEF ActiveBut
<1>3. CASE RefuseName(h)
  BY <1>1, <1>3, SaidAreMessages, WriteFdGains DEF RefuseName
<1>4. CASE Welcome(h)
  BY <1>1, <1>4, SaidAreMessages, WriteFdGains DEF Welcome
<1>5. CASE AnnounceJoin(h)
  BY <1>1, <1>2, <1>5, SaidAreMessages, WriteSlotsGains DEF AnnounceJoin
<1>6. CASE ToAll(h)
  <2>1. Signed(h) \in Messages
    BY <1>6, SignedAreMessages DEF ToAll
  <2> QED
    BY <1>1, <1>2, <1>6, <2>1, WriteSlotsGains DEF ToAll
<1>7. CASE ToOne(h)
  <2>1. Signed(h) \in Messages
    BY <1>7, SignedAreMessages DEF ToOne
  <2>2. \/ WriteFd(Fd(h), Say("text"))
        \/ \E i \in Slots : /\ active[i] /\ name[i] = buffer[h].to
                           /\ WriteFd(sockfd[i], Signed(h))
    BY <1>7 DEF ToOne, First
  <2> QED
    BY <1>1, <1>7, <2>1, <2>2, SaidAreMessages, WriteFdGains
<1>8. CASE Respond(h)
  BY <1>1, <1>8, SaidAreMessages, WriteFdGains DEF Respond
<1>9. CASE AnnounceLeft(h)
  BY <1>1, <1>2, <1>9, SaidAreMessages, WriteSlotsGains DEF AnnounceLeft
<1> QED
  BY <1>3, <1>4, <1>5, <1>6, <1>7, <1>8, <1>9
  DEF HandlerStep, CallRead, ReadReturns, TakeName, Refresh, Stop, RemoveClient

LEMMA HandlerTypeInv ==
  ASSUME TypeInv, NEW h \in Clients, HandlerStep(h)
  PROVE  TypeInv'
<1>1. UNCHANGED <<sockfd, mainVars, client_idx, checkers, users>>
  BY HandlerFrame
<1>2. outbox' \in [Clients -> Seq(Messages)]
  BY HandlerWrites DEF OutboxGains, TypeInv, StreamsTyped
<1>3. /\ handler[h] \notin {"none", "done"}
      /\ \E pc \in Serving \cup {"left", "done"} : handler' = [handler EXCEPT ![h] = pc]
  BY DEF HandlerStep, CallRead, ReadReturns, RefuseName, TakeName, Welcome,
         AnnounceJoin, Refresh, ToAll, ToOne, Respond, Stop, RemoveClient,
         AnnounceLeft, Goes, Waiting, HasLine, NothingToRead, Serving
<1>4. MainTyped'
  BY <1>1, <1>3 DEF TypeInv, MainTyped, HandlersTyped, Arrivals, mainVars, users, Serving
<1>5. CheckerTyped' /\ UsersTyped'
  BY <1>1 DEF TypeInv, CheckerTyped, UsersTyped, checkers, users
<1>6. CASE ReadReturns(h)
  <2>1. TableTyped' /\ UNCHANGED <<table, outbox>>
    BY <1>6 DEF ReadReturns, TypeInv, TableTyped, table
  <2>2. reading[h] \in Clients
    BY <1>6 DEF ReadReturns, TypeInv, HandlersTyped
  <2>3. CASE inbox[reading[h]] = <<>>
    <3>1. HandlersTyped'
      BY <1>1, <1>6, <2>3
      DEF ReadReturns, TypeInv, HandlersTyped, Goes, NothingToRead, Serving
    <3> QED
      BY <1>2, <1>4, <1>5, <1>6, <2>1, <2>3, <3>1 DEF ReadReturns, TypeInv, StreamsTyped
  <2>4. CASE inbox[reading[h]] # <<>>
    <3>1. PICK q : q = inbox[reading[h]]
      OBVIOUS
    <3>2. q \in Seq(Lines) /\ Len(q) \in Nat \ {0}
      BY <2>2, <2>4, <3>1 DEF TypeInv, StreamsTyped
    <3>3. PICK n \in 1 .. Len(q), cut \in BOOLEAN :
            /\ cut => n < Len(q)
            /\ buffer' = [buffer EXCEPT ![h] = Head(q)]
            /\ inbox' = [inbox EXCEPT ![reading[h]] = Left(q, n, cut)]
            /\ ignored' = ignored \cup
                 {q[k].by : k \in {j \in Unheard(h, n, cut) : q[j].text = "STOP"}}
            /\ handler' = [handler EXCEPT ![h] = HasLine(handler[h])]
      BY <1>6, <2>4, <3>1 DEF ReadReturns, Goes, MayCut
    <3>4. Left(q, n, cut) \in Seq(Lines)
      BY <3>2, <3>3, LeftOf
    <3>6. inbox' \in [Clients -> Seq(Lines)]
      BY <2>2, <3>3, <3>4 DEF TypeInv, StreamsTyped
    <3>7. Head(q) \in Lines /\ \A k \in Unheard(h, n, cut) : q[k] \in Lines
      BY <3>2, <3>3 DEF Unheard
    <3>8. ignored' \in SUBSET Clients
      <4>1. \A k \in Unheard(h, n, cut) : q[k].by \in Clients
        BY <3>7 DEF Lines
      <4> QED
        BY <3>3, <4>1 DEF TypeInv, HandlersTyped
    <3>9. HandlersTyped'
      <4>1. buffer' \in [Clients -> Lines \cup {None}] /\ buffer'[h] # None
        BY <3>3, <3>7, ChatTcpAssumption DEF TypeInv, HandlersTyped
      <4>2. /\ handler' \in [Clients -> Serving \cup {"none", "left", "done"}]
            /\ handler'[h] \in {"register", "refresh"}
        BY <3>3 DEF TypeInv, HandlersTyped, HasLine, Serving
      <4>3. /\ reading' = [reading EXCEPT ![h] = None] /\ client_idx' = client_idx
            /\ buffer' = [buffer EXCEPT ![h] = buffer'[h]]
            /\ handler' = [handler EXCEPT ![h] = handler'[h]]
        BY <1>6, <3>3 DEF ReadReturns, TypeInv, HandlersTyped
      <4>4. reading' \in [Clients -> Clients \cup {None}]
        BY <4>3 DEF TypeInv, HandlersTyped
      <4>5. \A c \in Clients :
              /\ buffer'[c] # None <=> handler'[c] \in {"register", "refresh", "execute"}
              /\ reading'[c] # None <=> handler'[c] \in {"wait_name", "wait"}
        BY <4>1, <4>2, <4>3 DEF TypeInv, HandlersTyped
      <4> QED
        BY <3>8, <4>1, <4>2, <4>3, <4>4, <4>5 DEF TypeInv, HandlersTyped
    <3> QED
      BY <1>2, <1>4, <1>5, <2>1, <3>6, <3>9 DEF TypeInv, StreamsTyped
  <2> QED
    BY <2>3, <2>4
<1>7. CASE ~ReadReturns(h)
  <2>0. 0 \in 0 .. Stale
    BY ChatTcpAssumption DEF Stale
  <2>1. TableTyped'
    <3>1. CASE TakeName(h)
      <4>1. buffer[h].text \in Texts
        BY <3>1 DEF TakeName, TypeInv, HandlersTyped, Lines
      <4>2. name' \in [Slots -> Texts \cup {NoName}]
        BY <3>1, <4>1 DEF TakeName, TypeInv, TableTyped
      <4>3. age' \in [Slots -> 0..Stale]
        BY <2>0, <3>1 DEF TakeName, TypeInv, TableTyped
      <4> QED
        BY <3>1, <4>2, <4>3 DEF TakeName, TypeInv, TableTyped
    <3>2. CASE Refresh(h)
      BY <2>0, <3>2 DEF Refresh, TypeInv, TableTyped
    <3>3. CASE RefuseName(h) \/ RemoveClient(h)
      BY <3>3 DEF RefuseName, RemoveClient, CloseFd, FreeSlot, TypeInv, TableTyped
    <3> QED
      BY <1>7, <3>1, <3>2, <3>3
      DEF HandlerStep, CallRead, Welcome, AnnounceJoin, ToAll, ToOne, Respond,
          Stop, AnnounceLeft, TypeInv, TableTyped, table
  <2>2. inbox' = inbox
    BY <1>7
    DEF HandlerStep, CallRead, RefuseName, TakeName, Welcome, AnnounceJoin,
        Refresh, ToAll, ToOne, Respond, Stop, RemoveClient, AnnounceLeft
  <2>3. HandlersTyped'
    <3>1. CASE CallRead(h)
      <4>1. files[Fd(h)] \in Clients \cup {None}
        BY DEF TypeInv, TableTyped, HandlersTyped, Fd
      <4> QED
        BY <3>1, <4>1, ChatTcpAssumption
        DEF CallRead, TypeInv, HandlersTyped, Goes, Waiting, NothingToRead, Serving
    <3>2. CASE \/ Welcome(h) \/ AnnounceJoin(h) \/ Refresh(h) \/ RemoveClient(h)
               \/ AnnounceLeft(h)
      BY <3>2
      DEF Welcome, AnnounceJoin, Refresh, RemoveClient, AnnounceLeft, TypeInv,
          HandlersTyped, Goes, Serving
    <3>3. CASE \/ RefuseName(h) \/ TakeName(h) \/ ToAll(h) \/ ToOne(h)
               \/ Respond(h) \/ Stop(h)
      BY <3>3
      DEF RefuseName, TakeName, ToAll, ToOne, Respond, Stop, TypeInv,
          HandlersTyped, Goes, Forgets, Serving
    <3> QED
      BY <1>7, <3>1, <3>2, <3>3 DEF HandlerStep
  <2> QED
    BY <1>2, <1>4, <1>5, <2>1, <2>2, <2>3 DEF TypeInv, StreamsTyped
<1> QED
  BY <1>6, <1>7

(* A client that reads n messages at once.                                  *)
LEMMA ReadsSome ==
  ASSUME TypeInv, NEW c \in Clients, NEW n \in 1 .. Len(outbox[c]),
         outbox' = [outbox EXCEPT ![c] = SubSeq(@, n + 1, Len(@))]
  PROVE  /\ outbox' \in [Clients -> Seq(Messages)]
         /\ Len(outbox'[c]) = Len(outbox[c]) - n /\ Len(outbox[c]) \in Nat
         /\ \A k \in 1 .. Len(outbox[c]) - n : outbox'[c][k] = outbox[c][k + n]
         /\ \A d \in Clients \ {c} : outbox'[d] = outbox[d]
<1>1. PICK q, r : q = outbox[c] /\ r = SubSeq(q, n + 1, Len(q))
  OBVIOUS
<1>2. q \in Seq(Messages) /\ n \in 1 .. Len(q) /\ Len(q) \in Nat
  BY <1>1 DEF TypeInv, StreamsTyped
<1>3. /\ r \in Seq(Messages) /\ Len(r) = Len(q) - n
      /\ \A k \in 1 .. Len(q) - n : r[k] = q[k + n]
  BY <1>1, <1>2, RestOf
<1>4. outbox' = [outbox EXCEPT ![c] = r]
  BY <1>1
<1>5. outbox \in [Clients -> Seq(Messages)]
  BY DEF TypeInv, StreamsTyped
<1> QED
  BY <1>1, <1>2, <1>3, <1>4, <1>5

LEMMA OneMoreType ==
  ASSUME NEW k \in 0 .. CLIENT_TIMEOUT
  PROVE  OneMore(k) \in 0 .. CLIENT_TIMEOUT
  BY ChatTcpAssumption DEF OneMore

(* The two ends of a client: its receiver and its user.                     *)
LEMMA ClientFrame ==
  ASSUME TypeInv, NEW c \in Clients, ClientStep(c) \/ UserStep(c)
  PROVE  /\ UNCHANGED <<table, files, main, client_sockfd, main_idx, newest,
                        accepted, handler, client_idx, reading, buffer, checkers>>
         /\ ignored' = ignored \/ (CtrlC(c) /\ ignored' = ignored \cup {c})
         /\ Connect(c) \/ UNCHANGED backlog
         /\ \E pc \in {"start", "connected", "await", "running", "gone"} :
              client' = [client EXCEPT ![c] = pc]
         /\ Connect(c) => client[c] = "start" /\ client'[c] # "start"
         /\ ~Connect(c) => (client'[c] = "start" <=> client[c] = "start")
<1>1. CASE CtrlC(c)
  BY <1>1 DEF CtrlC, Connect, TypeInv, UsersTyped, mainVars
<1>2. CASE ~CtrlC(c)
  BY <1>2
  DEF ClientStep, WriteName, GetReply, Receive, ConnectionEnds, UserStep, Connect,
      TypeLine, TypeNothing, EndInput, Reads, TypeInv, UsersTyped, mainVars, handlers
<1> QED
  BY <1>1, <1>2

LEMMA ClientTypeInv ==
  ASSUME TypeInv, NEW c \in Clients, ClientStep(c) \/ UserStep(c)
  PROVE  TypeInv'
<1>1. TableTyped' /\ HandlersTyped' /\ CheckerTyped'
  BY ClientFrame
  DEF TypeInv, TableTyped, HandlersTyped, CheckerTyped, table, checkers
<1>2. UsersTyped'
  <2>1. client' \in [Clients -> {"start", "connected", "await", "running", "gone"}]
    BY ClientFrame DEF TypeInv, UsersTyped
  <2>2. /\ flag' \in [Clients -> BOOLEAN]
        /\ send_thread' \in [Clients -> {"none", "fgets", "over"}]
    BY DEF ClientStep, WriteName, GetReply, Receive, ConnectionEnds, UserStep, Connect,
           TypeLine, TypeNothing, EndInput, CtrlC, TypeInv, UsersTyped
  <2>3. \E k \in {0, swallowed[c], OneMore(swallowed[c])} :
          swallowed' = [swallowed EXCEPT ![c] = k]
    BY DEF ClientStep, WriteName, GetReply, Receive, Swallows, ConnectionEnds, UserStep,
           Connect, TypeLine, TypeNothing, EndInput, CtrlC, TypeInv, UsersTyped
  <2>4. swallowed' \in [Clients -> 0..CLIENT_TIMEOUT]
    BY <2>3, OneMoreType, ChatTcpAssumption DEF TypeInv, UsersTyped
  <2> QED
    BY <2>1, <2>2, <2>4 DEF UsersTyped
<1>3. inbox' \in [Clients -> Seq(Lines)]
  <2>1. \/ inbox' = inbox \/ inbox' = [inbox EXCEPT ![c] = <<>>]
        \/ Writes(c, Line(Name[c], NoName, c))
        \/ Writes(c, Line("STOP", NoName, c))
        \/ Writes(c, Line("ALIVE_ACK", NoName, c))
        \/ \E t \in Typed : Writes(c, Line(t.text, t.to, c))
    BY DEF ClientStep, WriteName, GetReply, Receive, ConnectionEnds, UserStep, Connect,
           TypeLine, TypeNothing, EndInput, CtrlC
  <2>2. inbox \in [Clients -> Seq(Lines)]
    BY DEF TypeInv, StreamsTyped
  <2>3. ASSUME NEW l \in Lines, Writes(c, l) PROVE inbox' \in [Clients -> Seq(Lines)]
    BY <2>2, <2>3, WritesType
  <2>4. ASSUME NEW q \in Seq(Lines), inbox' = [inbox EXCEPT ![c] = q]
        PROVE  inbox' \in [Clients -> Seq(Lines)]
    BY <2>2, <2>4
  <2>5. <<>> \in Seq(Lines)
    OBVIOUS
  <2> QED
    BY <2>1, <2>2, <2>3, <2>4, <2>5, LinesWritten
<1>4. outbox' \in [Clients -> Seq(Messages)]
  <2>1. \/ outbox' = outbox \/ outbox' = [outbox EXCEPT ![c] = <<>>]
        \/ \E n \in 1 .. Len(outbox[c]) :
             outbox' = [outbox EXCEPT ![c] = SubSeq(@, n + 1, Len(@))]
    BY DEF ClientStep, WriteName, GetReply, Receive, ConnectionEnds, UserStep, Connect,
           TypeLine, TypeNothing, EndInput, CtrlC
  <2>2. outbox \in [Clients -> Seq(Messages)]
    BY DEF TypeInv, StreamsTyped
  <2>3. ASSUME NEW q \in Seq(Messages), outbox' = [outbox EXCEPT ![c] = q]
        PROVE  outbox' \in [Clients -> Seq(Messages)]
    BY <2>2, <2>3
  <2>4. <<>> \in Seq(Messages)
    OBVIOUS
  <2> QED
    BY <2>1, <2>2, <2>3, <2>4, ReadsSome
<1>5. MainTyped'
  <2>1. CASE Connect(c) /\ main # "off"
    <3>1. /\ UNCHANGED <<main, client_sockfd, main_idx, newest, accepted, handler>>
          /\ client' = [client EXCEPT ![c] = "connected"]
          /\ backlog' = Append(backlog, c)
          /\ client[c] = "start"
      BY <2>1 DEF Connect, handlers
    <3>2. /\ backlog \in Seq(Clients) /\ Len(backlog) \in Nat
          /\ backlog' \in Seq(Clients) /\ Len(backlog') = Len(backlog) + 1
          /\ backlog'[Len(backlog) + 1] = c
          /\ \A k \in 1 .. Len(backlog) : backlog'[k] = backlog[k]
                                         /\ backlog[k] \in Clients
      BY <3>1 DEF TypeInv, MainTyped
    <3>3. c \notin accepted /\ \A k \in 1 .. Len(backlog) : backlog[k] # c
      BY <2>1, <3>1 DEF TypeInv, MainTyped, Arrivals
    <3>4. \A d \in Clients : client'[d] # "start" <=> (client[d] # "start" \/ d = c)
      BY <3>1 DEF TypeInv, UsersTyped
    <3>5. \A k \in 1 .. Len(backlog') :
            backlog'[k] \notin accepted' /\ client'[backlog'[k]] # "start"
      BY <2>1, <3>1, <3>2, <3>3, <3>4 DEF TypeInv, MainTyped, Arrivals
    <3>6. \A k, l \in 1 .. Len(backlog') : backlog'[k] = backlog'[l] => k = l
      BY <2>1, <3>2, <3>3 DEF TypeInv, MainTyped, Arrivals
    <3>7. Arrivals'
      BY <2>1, <3>1, <3>4, <3>5, <3>6 DEF TypeInv, MainTyped, Arrivals
    <3> QED
      BY <3>1, <3>2, <3>7 DEF TypeInv, MainTyped
  <2>2. CASE ~(Connect(c) /\ main # "off")
    <3>1. UNCHANGED <<main, client_sockfd, main_idx, newest, accepted, handler,
                      backlog>>
      BY <2>2, ClientFrame DEF Connect, handlers
    <3>2. main # "off" => \A d \in Clients : client'[d] = "start" <=> client[d] = "start"
      BY <2>2, ClientFrame DEF TypeInv, UsersTyped
    <3>3. backlog \in Seq(Clients) /\ accepted \in SUBSET Clients
      BY DEF TypeInv, MainTyped
    <3>4. Arrivals'
      BY <3>1, <3>2, <3>3 DEF TypeInv, MainTyped, Arrivals
    <3> QED
      BY <3>1, <3>4 DEF TypeInv, MainTyped
  <2> QED
    BY <2>1, <2>2
<1> QED
  BY <1>1, <1>2, <1>3, <1>4, <1>5 DEF TypeInv, StreamsTyped

LEMMA NextTypeInv ==
  ASSUME TypeInv, [Next]_vars
  PROVE  TypeInv'
<1>1. CASE UNCHANGED vars
  BY <1>1
  DEF TypeInv, TableTyped, MainTyped, Arrivals, HandlersTyped, CheckerTyped,
      UsersTyped, StreamsTyped, vars, table, mainVars, handlers, checkers, users
<1>2. CASE Next
  BY <1>2, MainTypeInv, ShutDownTypeInv, CheckerTypeInv, HandlerTypeInv,
     ClientTypeInv DEF Next
<1> QED
  BY <1>1, <1>2

LEMMA AlwaysTypeInv == Spec => []TypeInv
<1>1. TypeInv /\ [Next]_vars => TypeInv'
  BY NextTypeInv
<1> QED
  BY <1>1, InitTypeInv, PTL DEF Spec

(* Every variable keeps its type, before and after the checker closes       *)
(* connections: a handler has a line exactly where it needs one, waits in   *)
(* read exactly for a connection, and the checker stays within the table.   *)
THEOREM TypeCorrect == Spec => []TypeOK
  BY AlwaysTypeInv, TypeInvImpliesTypeOK, PTL

-----------------------------------------------------------------------------
(* Until the checker closes a connection: what lines and messages say of    *)
(* the session they belong to.  Each part is shown to be inductive in turn, *)
(* given SessionInv, TypeInv and the parts before it.                       *)

(* Who has a name, and is no more than about to leave.                      *)
Named == {"welcome", "join", "read", "wait", "refresh", "execute", "leave"}

(* Only 2ONE says for whom it is.                                           *)
Proper(l, c) ==
  /\ l.by = c
  /\ l.text = "2ALL" => l.to = NoName
  /\ l.text = "2ONE" => l.to \in Names

(* A handler reads its own connection and has what its client wrote.        *)
OwnLines ==
  \A c \in Clients :
    /\ \A k \in 1 .. Len(inbox[c]) : Proper(inbox[c][k], c)
    /\ buffer[c] # None => Proper(buffer[c], c)
    /\ reading[c] # None => reading[c] = c

Shut(c)    == c \in accepted /\ \A f \in Fds : files[f] # c
Told(q, m) == \E k \in 1 .. Len(q) : q[k].kind = m

(* A client ends when its connection is closed, or it is told that it will  *)
(* be; one that waits for its answer is in the backlog or served, and has   *)
(* it once its handler has written it.                                      *)
EndsAreClosed ==
  /\ main = "off" => \A c \in Clients : Shut(c)
  /\ \A c \in Clients :
       /\ client[c] = "gone" \/ Told(outbox[c], "ERROR") => Shut(c)
       /\ client[c] # "start" /\ c \notin accepted =>
            \E k \in 1 .. Len(backlog) : backlog[k] = c
       /\ handler[c] \in Named \ {"welcome"} /\ client[c] \in {"connected", "await"} =>
            outbox[c] # <<>>

(* Of a client whose user pressed Ctrl+C before it had written its name the *)
(* server may take STOP for the name.  Such a client never sends a line of  *)
(* its user.                                                                *)
Chat == {"2ALL", "2ONE"}

Silent(c) ==
  /\ flag[c] /\ send_thread[c] # "fgets"
  /\ \A k \in 1 .. Len(inbox[c]) : inbox[c][k].text \notin Chat
  /\ buffer[c] # None => buffer[c].text \notin Chat

NameLine(c) == Line(Name[c], NoName, c)
Opens(l, c) == l = NameLine(c) \/ (l.text = "STOP" /\ Silent(c))
IsCalled(c) ==
  \/ name[client_idx[c]] = Name[c]
  \/ name[client_idx[c]] = "STOP" /\ Silent(c)

(* The first line of a client is its name or that STOP, and is the name its *)
(* slot has; no read fails before.                                          *)
Arriving == {"none", "read_name", "wait_name"}

NameFirst(c) ==
  /\ client[c] = "start" => inbox[c] = <<>>
  /\ client[c] \in {"start", "connected", "await"} => send_thread[c] = "none"
  /\ handler[c] \in Arriving =>
       /\ client[c] \in {"await", "running"} => inbox[c] # <<>>
       /\ client[c] # "gone" /\ inbox[c] # <<>> => Opens(inbox[c][1], c)
  /\ handler[c] = "register" => Opens(buffer[c], c)
  /\ handler[c] \in Named => IsCalled(c)
  /\ handler[c] # "quit"

NameComesFirst == \A c \in Clients : NameFirst(c)

(* A chat line for c bears its author's name and was not for others.        *)
MaySee(c, m) ==
  m.kind = "chat" =>
    /\ m.from = Name[m.by]
    /\ IF m.to = NoName THEN m.by # c ELSE m.to = Name[c]

ChatIsSigned ==
  \A c \in Clients : \A k \in 1 .. Len(outbox[c]) : MaySee(c, outbox[c][k])

(* STOP of a client that the server still serves is on its way, in the      *)
(* client's stream or in the handler's hands.                               *)
StopWaits(q) == \E k \in 1 .. Len(q) : q[k].text = "STOP"

StopComes(c) ==
  \/ StopWaits(inbox[c])
  \/ handler[c] \in {"refresh", "execute"} /\ buffer[c].text = "STOP"

(* Where a handler is before it has read STOP, or has it in hand.           *)
Attending == Arriving \cup {"register"} \cup (Named \ {"leave"})

StopIsPending ==
  \A c \in Clients :
    flag[c] /\ c \notin ignored /\ client[c] # "gone" =>
      client[c] # "start" /\ (handler[c] \in Attending => StopComes(c))

(* The age of a slot exceeds the probes its client has swallowed only while *)
(* one more is on its way, or something the client wrote is not executed.   *)
Probed(c) == checker = "scan" \/ Told(outbox[c], "ALIVE")

Fresh(c) ==
  \/ inbox[c] # <<>> \/ handler[c] = "refresh"
  \/ swallowed[c] >= CLIENT_TIMEOUT
  \/ age[client_idx[c]] <= swallowed[c]
  \/ age[client_idx[c]] <= swallowed[c] + 1 /\ Probed(c)

ProbesAreCounted ==
  /\ checker # "announce" /\ (checker = "scan" => next_slot = 0)
  /\ \A c \in Clients : handler[c] \in Named => Fresh(c)

(* What does not change.                                                    *)
LEMMA MainFrame ==
  ASSUME MainStep
  PROVE  /\ UNCHANGED <<name, age, reading, buffer, ignored, checkers, inbox, users>>
         /\ Accept \/ UNCHANGED accepted
         /\ StartHandler \/ UNCHANGED <<handler, client_idx>>
         /\ RejectWhenFull \/ UNCHANGED outbox
  BY DEF MainStep, Accept, PlaceInSlot, RejectWhenFull, StartHandler, table, handlers

LEMMA CheckerFrame ==
  ASSUME CheckerStep, timed_out' = {}
  PROVE  UNCHANGED <<sockfd, active, name, files, mainVars, handlers, inbox,
                     client, flag, send_thread, swallowed>>
<1>1. ASSUME NEW S, NEW x PROVE timed_out' # S \cup {x}
  <2>1. x \in S \cup {x} /\ x \notin timed_out'
    OBVIOUS
  <2> QED
    BY <2>1
<1>2. CASE Scan
  <2>1. UNCHANGED <<active, name, files>>
    BY <1>1, <1>2 DEF Scan
  <2> QED
    BY <1>2, <2>1 DEF Scan, users
<1>3. CASE WakeUp
  BY <1>3 DEF WakeUp
<1>4. CASE AnnounceTimeout
  BY <1>4 DEF AnnounceTimeout, table, users
<1> QED
  BY <1>2, <1>3, <1>4 DEF CheckerStep

LEMMA OnlyReadsTakeLines ==
  ASSUME NEW h, HandlerStep(h), ~ReadReturns(h)
  PROVE  /\ UNCHANGED <<inbox, ignored>>
         /\ CallRead(h) \/ UNCHANGED reading
         /\ buffer' = buffer \/ buffer' = [buffer EXCEPT ![h] = None]
  BY DEF HandlerStep, CallRead, RefuseName, TakeName, Welcome, AnnounceJoin, Refresh,
         ToAll, ToOne, Respond, Stop, RemoveClient, AnnounceLeft, Forgets

(* Who is served has not been shut.                                         *)
LEMMA ServedIsNotShut ==
  ASSUME SessionInv, NEW c \in Clients, handler[c] \in Serving
  PROVE  ~Shut(c) /\ files[Fd(c)] = c /\ Fd(c) \in Fds /\ active[client_idx[c]]
<1>1. client_idx[c] \in Slots /\ Serves(c, client_idx[c])
  BY DEF SessionInv, Shape, Serves, Serving
<1>2. active[client_idx[c]] /\ files[sockfd[client_idx[c]]] = c
  BY <1>1, OwnSlot
<1> QED
  BY <1>1, <1>2 DEF SessionInv, Shape, Shut, Fd

(* The handler of a connection takes the first of the lines its client has  *)
(* written, and drops those that came with it; a STOP that is dropped, cut  *)
(* or taken for the name is recorded.                                       *)
LEMMA TakesLine ==
  ASSUME TypeInv, OwnLines, NEW h \in Clients, ReadReturns(h), inbox[h] # <<>>
  PROVE  \E n \in 1 .. Len(inbox[h]) :
           /\ buffer' = [buffer EXCEPT ![h] = inbox[h][1]]
           /\ inbox[h][1] \in Lines
           /\ Len(inbox[h]) \in Nat \ {0} /\ Len(inbox'[h]) = Len(inbox[h]) - n
           /\ \A k \in 1 .. Len(inbox[h]) - n :
                \/ inbox'[h][k] = inbox[h][k + n]
                \/ /\ inbox'[h][k].text = "rest" /\ inbox'[h][k].by = h
                   /\ inbox[h][k + n].text = "STOP" => h \in ignored'
           /\ \A d \in Clients \ {h} : inbox'[d] = inbox[d]
           /\ ignored \subseteq ignored'
           /\ \A k \in 1 .. n : inbox[h][k].text = "STOP" =>
                h \in ignored' \/ (k = 1 /\ handler[h] = "wait")
           /\ handler' = [handler EXCEPT ![h] = HasLine(handler[h])]
           /\ UNCHANGED <<outbox, table, files>>
<1>1. reading[h] = h /\ handler[h] \in {"wait_name", "wait"}
  BY DEF ReadReturns, TypeInv, HandlersTyped, OwnLines
<1>2. PICK q : q = inbox[h]
  OBVIOUS
<1>3. /\ q \in Seq(Lines) /\ Len(q) \in Nat \ {0} /\ Head(q) = q[1] /\ q[1] \in Lines
      /\ \A k \in 1 .. Len(q) : q[k].by = h
  BY <1>2 DEF TypeInv, StreamsTyped, OwnLines, Proper
<1>4. PICK n \in 1 .. Len(q), cut \in BOOLEAN :
        /\ cut => n < Len(q)
        /\ buffer' = [buffer EXCEPT ![h] = Head(q)]
        /\ inbox' = [inbox EXCEPT ![h] = Left(q, n, cut)]
        /\ ignored' = ignored \cup
             {q[k].by : k \in {j \in Unheard(h, n, cut) : q[j].text = "STOP"}}
        /\ handler' = [handler EXCEPT ![h] = HasLine(handler[h])]
  <2>1. q = inbox[reading[h]] /\ q # <<>>
    BY <1>1, <1>2
  <2> QED
    BY <1>1, <2>1 DEF ReadReturns, Goes, MayCut
<1>5. PICK r : r = Left(q, n, cut)
  OBVIOUS
<1>6. /\ Len(r) = Len(q) - n
      /\ \A k \in 1 .. Len(q) - n :
           \/ r[k] = q[k + n]
           \/ cut /\ k = 1 /\ r[k].text = "rest" /\ r[k].by = q[k + n].by
  BY <1>3, <1>4, <1>5, LeftOf
<1>7. inbox' = [inbox EXCEPT ![h] = r] /\ inbox \in [Clients -> Seq(Lines)]
  BY <1>4, <1>5 DEF TypeInv, StreamsTyped
<1>8. inbox'[h] = r /\ \A d \in Clients \ {h} : inbox'[d] = inbox[d]
  BY <1>7
<1>9. ASSUME NEW k \in Unheard(h, n, cut), q[k].text = "STOP"
      PROVE  h \in ignored'
  <2>1. k \in 1 .. Len(q)
    BY <1>3, <1>4 DEF Unheard
  <2>2. q[k].by = h
    BY <1>3, <2>1
  <2> QED
    BY <1>4, <1>9, <2>2
<1>10. ASSUME NEW k \in 1 .. n, q[k].text = "STOP"
       PROVE  h \in ignored' \/ (k = 1 /\ handler[h] = "wait")
  <2>1. k \in Unheard(h, n, cut) \/ (k = 1 /\ handler[h] = "wait")
    BY <1>1, <1>3 DEF Unheard
  <2> QED
    BY <1>9, <1>10, <2>1
<1>11. ASSUME NEW k \in 1 .. Len(q) - n
       PROVE  \/ r[k] = q[k + n]
              \/ /\ r[k].text = "rest" /\ r[k].by = h
                 /\ q[k + n].text = "STOP" => h \in ignored'
  <2>1. ASSUME cut, k = 1
        PROVE  k + n \in Unheard(h, n, cut) /\ k + n \in 1 .. Len(q)
    BY <1>3, <1>4, <2>1 DEF Unheard
  <2> QED
    BY <1>3, <1>6, <1>9, <2>1
<1>12. UNCHANGED <<outbox, table, files>> /\ ignored \subseteq ignored'
  BY <1>4 DEF ReadReturns
<1>13. /\ n \in 1 .. Len(inbox[h]) /\ buffer' = [buffer EXCEPT ![h] = inbox[h][1]]
       /\ inbox[h][1] \in Lines /\ Len(inbox[h]) \in Nat \ {0}
       /\ \A d \in Clients \ {h} : inbox'[d] = inbox[d]
       /\ handler' = [handler EXCEPT ![h] = HasLine(handler[h])]
  BY <1>2, <1>3, <1>4, <1>8
<1>14. Len(inbox'[h]) = Len(inbox[h]) - n
  BY <1>2, <1>6, <1>8
<1>15. \A k \in 1 .. Len(inbox[h]) - n :
         \/ inbox'[h][k] = inbox[h][k + n]
         \/ /\ inbox'[h][k].text = "rest" /\ inbox'[h][k].by = h
            /\ inbox[h][k + n].text = "STOP" => h \in ignored'
  BY <1>2, <1>8, <1>11
<1>16. \A k \in 1 .. n : inbox[h][k].text = "STOP" =>
         h \in ignored' \/ (k = 1 /\ handler[h] = "wait")
  BY <1>2, <1>10
<1> QED
  BY <1>12, <1>13, <1>14, <1>15, <1>16

(* The other connections' lines stay what they are.                         *)
LEMMA OthersLines ==
  ASSUME TypeInv, OwnLines, NEW h \in Clients, HandlerStep(h),
         NEW c \in Clients, c # h
  PROVE  /\ inbox'[c] = inbox[c] /\ buffer'[c] = buffer[c]
         /\ ignored \subseteq ignored'
<1>1. CASE ReadReturns(h)
  <2>1. reading[h] = h
    BY <1>1 DEF ReadReturns, TypeInv, HandlersTyped, OwnLines
  <2>2. CASE inbox[h] = <<>>
    BY <1>1, <2>1, <2>2 DEF ReadReturns
  <2>3. CASE inbox[h] # <<>>
    <3>1. /\ buffer' = [buffer EXCEPT ![h] = inbox[h][1]]
          /\ \A d \in Clients \ {h} : inbox'[d] = inbox[d]
          /\ ignored \subseteq ignored'
      BY <1>1, <2>3, TakesLine
    <3> QED
      BY <3>1 DEF TypeInv, HandlersTyped
  <2> QED
    BY <2>2, <2>3
<1>2. CASE ~ReadReturns(h)
  BY <1>2, OnlyReadsTakeLines DEF TypeInv, HandlersTyped
<1> QED
  BY <1>1, <1>2

-----------------------------------------------------------------------------
(* What a client writes is its own and properly addressed.                  *)
LEMMA LinesAreProper ==
  ASSUME NEW c \in Clients
  PROVE  /\ Proper(Line(Name[c], NoName, c), c)
         /\ Proper(Line("STOP", NoName, c), c)
         /\ Proper(Line("ALIVE_ACK", NoName, c), c)
         /\ \A t \in Typed : Proper(Line(t.text, t.to, c), c)
<1>1. \A t \in Typed : /\ t.text = "2ALL" => t.to = NoName
                       /\ t.text = "2ONE" => t.to \in Names
  BY ChatTcpAssumption
<1> QED
  BY <1>1, ChatTcpAssumption DEF Proper, Line

(* How a client's stream to the server changes when the client moves.       *)
LEMMA ClientLines ==
  ASSUME TypeInv, NEW c \in Clients, ClientStep(c) \/ UserStep(c)
  PROVE  /\ \A d \in Clients \ {c} : inbox'[d] = inbox[d]
         /\ \/ inbox' = inbox
            \/ ConnectionEnds(c) /\ inbox'[c] = <<>>
            \/ \E l \in Lines : Proper(l, c) /\ Writes(c, l)
<1>1. inbox \in [Clients -> Seq(Lines)]
  BY DEF TypeInv, StreamsTyped
<1>2. \/ inbox' = inbox
      \/ ConnectionEnds(c) /\ inbox' = [inbox EXCEPT ![c] = <<>>]
      \/ Writes(c, Line(Name[c], NoName, c))
      \/ Writes(c, Line("STOP", NoName, c))
      \/ Writes(c, Line("ALIVE_ACK", NoName, c))
      \/ \E t \in Typed : Writes(c, Line(t.text, t.to, c))
  BY DEF ClientStep, WriteName, GetReply, Receive, ConnectionEnds, UserStep, Connect,
         TypeLine, TypeNothing, EndInput, CtrlC
<1>3. \/ inbox' = inbox
      \/ ConnectionEnds(c) /\ inbox' = [inbox EXCEPT ![c] = <<>>]
      \/ \E l \in Lines : Proper(l, c) /\ Writes(c, l)
  BY <1>2, LinesWritten, LinesAreProper
<1> QED
  BY <1>1, <1>3 DEF Writes

LEMMA OwnLinesNext ==
  ASSUME SessionInv, TypeInv, OwnLines, Next, timed_out' = {}
  PROVE  OwnLines'
<1>1. CASE MainStep
  BY <1>1, MainFrame DEF OwnLines, Proper
<1>2. CASE ShutDown
  BY <1>2 DEF ShutDown, OwnLines, Proper
<1>3. CASE CheckerStep
  BY <1>3, CheckerFrame DEF OwnLines, Proper, handlers
<1>4. ASSUME NEW h \in Clients, HandlerStep(h)
      PROVE  OwnLines'
  <2>1. CASE ReadReturns(h)
    <3>1. /\ reading[h] = h /\ reading' = [reading EXCEPT ![h] = None]
          /\ inbox \in [Clients -> Seq(Lines)] /\ DOMAIN reading = Clients
          /\ DOMAIN buffer = Clients
      BY <2>1 DEF ReadReturns, TypeInv, HandlersTyped, StreamsTyped, OwnLines
    <3>2. CASE inbox[h] = <<>>
      BY <2>1, <3>1, <3>2 DEF ReadReturns, OwnLines, Proper
    <3>3. CASE inbox[h] # <<>>
      <4>1. PICK n \in 1 .. Len(inbox[h]) :
              /\ buffer' = [buffer EXCEPT ![h] = inbox[h][1]]
              /\ Len(inbox[h]) \in Nat \ {0} /\ Len(inbox'[h]) = Len(inbox[h]) - n
              /\ \A k \in 1 .. Len(inbox[h]) - n :
                   \/ inbox'[h][k] = inbox[h][k + n]
                   \/ inbox'[h][k].text = "rest" /\ inbox'[h][k].by = h
              /\ \A d \in Clients \ {h} : inbox'[d] = inbox[d]
        BY <2>1, <3>3, TakesLine
      <4>2. \A k \in 1 .. Len(inbox[h]) : Proper(inbox[h][k], h)
        BY DEF OwnLines
      <4>3. ASSUME NEW k \in 1 .. Len(inbox'[h]) PROVE Proper(inbox'[h][k], h)
        <5>1. k \in 1 .. Len(inbox[h]) - n /\ k + n \in 1 .. Len(inbox[h])
          BY <4>1
        <5>2. CASE inbox'[h][k] = inbox[h][k + n]
          BY <4>2, <5>1, <5>2
        <5>3. CASE inbox'[h][k].text = "rest" /\ inbox'[h][k].by = h
          BY <5>3 DEF Proper
        <5> QED
          BY <4>1, <5>1, <5>2, <5>3
      <4>4. Proper(buffer'[h], h) /\ \A d \in Clients \ {h} : buffer'[d] = buffer[d]
        BY <3>1, <4>1, <4>2
      <4> QED
        BY <3>1, <4>1, <4>3, <4>4 DEF OwnLines, Proper
    <3> QED
      BY <3>2, <3>3
  <2>2. CASE ~ReadReturns(h)
    <3>1. /\ inbox' = inbox
          /\ CallRead(h) \/ UNCHANGED reading
          /\ buffer' = buffer \/ buffer' = [buffer EXCEPT ![h] = None]
      BY <1>4, <2>2, OnlyReadsTakeLines
    <3>2. \A c \in Clients : reading'[c] # None => reading'[c] = c
      <4>1. CASE CallRead(h)
        <5>1. files[Fd(h)] = h
          BY <4>1, ServedIsNotShut DEF CallRead, Serving
        <5> QED
          BY <4>1, <5>1 DEF CallRead, TypeInv, HandlersTyped, OwnLines
      <4> QED
        BY <3>1, <4>1 DEF OwnLines
    <3> QED
      BY <3>1, <3>2 DEF OwnLines, Proper, TypeInv, HandlersTyped
  <2> QED
    BY <2>1, <2>2
<1>5. ASSUME NEW c \in Clients, ClientStep(c) \/ UserStep(c)
      PROVE  OwnLines'
  <2>1. UNCHANGED <<reading, buffer>>
    BY <1>5, ClientFrame
  <2>2. \A d \in Clients \ {c} : inbox'[d] = inbox[d]
    BY <1>5, ClientLines
  <2>3. \A k \in 1 .. Len(inbox'[c]) : Proper(inbox'[c][k], c)
    <3>1. \A k \in 1 .. Len(inbox[c]) : Proper(inbox[c][k], c)
      BY DEF OwnLines
    <3>2. CASE inbox' = inbox \/ inbox'[c] = <<>>
      BY <3>1, <3>2
    <3>3. ASSUME NEW l \in Lines, Proper(l, c), Writes(c, l)
          PROVE  \A k \in 1 .. Len(inbox'[c]) : Proper(inbox'[c][k], c)
      <4>1. inbox \in [Clients -> Seq(Lines)] /\ Len(inbox[c]) \in Nat
        BY DEF TypeInv, StreamsTyped
      <4>2. /\ Len(inbox'[c]) = Len(inbox[c]) + 1
            /\ inbox'[c][Len(inbox[c]) + 1] = l
            /\ \A k \in 1 .. Len(inbox[c]) : inbox'[c][k] = inbox[c][k]
        BY <3>3, <4>1, WritesType
      <4> QED
        BY <3>1, <3>3, <4>1, <4>2
    <3> QED
      BY <1>5, <3>2, <3>3, ClientLines
  <2> QED
    BY <2>1, <2>2, <2>3 DEF OwnLines, Proper
<1> QED
  BY <1>1, <1>2, <1>3, <1>4, <1>5 DEF Next

-----------------------------------------------------------------------------
(* Who is told what.                                                        *)

(* What main and the checker write.                                         *)
LEMMA ServerWrites ==
  ASSUME TypeInv, MainStep \/ ShutDown \/ CheckerStep, timed_out' = {}
  PROVE  \/ outbox' = outbox
         \/ RejectWhenFull /\ OutboxGains(Say("ERROR"), Holder(client_sockfd))
         \/ (ShutDown \/ AnnounceTimeout)
            /\ OutboxGains(Say("text"), Holders(ActiveBut(NoSlot)))
         \/ Scan /\ OutboxGains(Say("ALIVE"),
                      Holders({j \in next_slot .. MAX_CLIENTS - 1 : active[j]}))
<1>1. outbox \in [Clients -> Seq(Messages)] /\ ActiveBut(NoSlot) \in SUBSET Slots
  BY DEF TypeInv, StreamsTyped, ActiveBut
<1>2. CASE RejectWhenFull
  BY <1>1, <1>2, SaidAreMessages, WriteFdGains DEF RejectWhenFull
<1>3. CASE ShutDown \/ AnnounceTimeout
  BY <1>1, <1>3, SaidAreMessages, WriteSlotsGains DEF ShutDown, AnnounceTimeout
<1>4. CASE Scan
  <2>1. ASSUME NEW S, NEW x PROVE timed_out' # S \cup {x}
    <3>1. x \in S \cup {x} /\ x \notin timed_out'
      OBVIOUS
    <3> QED
      BY <3>1
  <2>2. {j \in next_slot .. MAX_CLIENTS - 1 : active[j]} \in SUBSET Slots
    BY ChatTcpAssumption DEF TypeInv, CheckerTyped, Slots
  <2>3. WriteSlots({j \in next_slot .. MAX_CLIENTS - 1 : active[j]}, Say("ALIVE"))
    BY <1>4, <2>1 DEF Scan
  <2> QED
    BY <1>1, <1>4, <2>2, <2>3, SaidAreMessages, WriteSlotsGains
<1> QED
  BY <1>2, <1>3, <1>4, MainFrame DEF CheckerStep, WakeUp

LEMMA GainsTold ==
  ASSUME TypeInv, NEW msg, NEW Who, OutboxGains(msg, Who),
         NEW c \in Clients, NEW m
  PROVE  /\ Told(outbox'[c], m) <=> Told(outbox[c], m) \/ (c \in Who /\ msg.kind = m)
         /\ outbox[c] # <<>> \/ c \in Who => outbox'[c] # <<>>
<1>1. PICK q, r : q = outbox[c] /\ r = outbox'[c]
  OBVIOUS
<1>2. q \in Seq(Messages) /\ r \in Seq(Messages) /\ Len(q) \in Nat /\ Len(r) \in Nat
  BY <1>1 DEF TypeInv, StreamsTyped, OutboxGains
<1>3. /\ Len(q) <= Len(r)
      /\ \A k \in 1 .. Len(q) : r[k] = q[k]
      /\ \A k \in Len(q) + 1 .. Len(r) : r[k] = msg
      /\ c \in Who <=> Len(q) < Len(r)
  BY <1>1 DEF OutboxGains
<1>4. /\ Told(q, m) <=> \E k \in 1 .. Len(q) : q[k].kind = m
      /\ Told(r, m) <=> \E k \in 1 .. Len(r) : r[k].kind = m
  BY DEF Told
<1>5. (\E k \in 1 .. Len(r) : r[k].kind = m)
        <=> (\E k \in 1 .. Len(q) : q[k].kind = m) \/ (c \in Who /\ msg.kind = m)
  <2>1. ASSUME NEW k \in 1 .. Len(r), r[k].kind = m
        PROVE  (\E j \in 1 .. Len(q) : q[j].kind = m) \/ (c \in Who /\ msg.kind = m)
    <3>1. CASE k \in 1 .. Len(q)
      <4>1. q[k].kind = m
        BY <1>3, <2>1, <3>1
      <4> QED
        BY <3>1, <4>1
    <3>2. CASE k \in Len(q) + 1 .. Len(r)
      <4>1. r[k] = msg /\ Len(q) < Len(r)
        BY <1>2, <1>3, <3>2
      <4> QED
        BY <1>3, <2>1, <4>1
    <3> QED
      BY <1>2, <3>1, <3>2
  <2>2. ASSUME NEW k \in 1 .. Len(q), q[k].kind = m
        PROVE  \E j \in 1 .. Len(r) : r[j].kind = m
    BY <1>2, <1>3, <2>2
  <2>3. ASSUME c \in Who, msg.kind = m
        PROVE  \E j \in 1 .. Len(r) : r[j].kind = m
    <3>1. Len(r) \in 1 .. Len(r) /\ r[Len(r)] = msg
      BY <1>2, <1>3, <2>3
    <3> QED
      BY <2>3, <3>1
  <2> QED
    BY <2>1, <2>2, <2>3
<1>6. q # <<>> \/ c \in Who => r # <<>>
  BY <1>2, <1>3
<1> QED
  BY <1>1, <1>4, <1>5, <1>6

(* A client forgets what it reads, and is told nothing by itself.           *)
LEMMA ClientTold ==
  ASSUME TypeInv, NEW c \in Clients, NEW m, ClientStep(c) \/ UserStep(c)
  PROVE  /\ \A d \in Clients \ {c} : outbox'[d] = outbox[d]
         /\ Told(outbox'[c], m) => Told(outbox[c], m)
         /\ outbox' = outbox \/ client'[c] \notin {"connected", "await"}
<1>1. outbox \in [Clients -> Seq(Messages)]
  BY DEF TypeInv, StreamsTyped
<1>2. \/ outbox' = outbox \/ outbox' = [outbox EXCEPT ![c] = <<>>]
      \/ \E n \in 1 .. Len(outbox[c]) :
           outbox' = [outbox EXCEPT ![c] = SubSeq(@, n + 1, Len(@))]
  BY DEF ClientStep, WriteName, GetReply, Receive, ConnectionEnds, UserStep, Connect,
         TypeLine, TypeNothing, EndInput, CtrlC
<1>3. \A d \in Clients \ {c} : outbox'[d] = outbox[d]
  BY <1>1, <1>2
<1>4. outbox' = outbox \/ client'[c] \notin {"connected", "await"}
  BY DEF ClientStep, WriteName, GetReply, Receive, ConnectionEnds, UserStep, Connect,
         TypeLine, TypeNothing, EndInput, CtrlC, TypeInv, UsersTyped
<1>5. ASSUME Told(outbox'[c], m)
      PROVE  Told(outbox[c], m)
  <2>1. CASE outbox' = outbox
    BY <1>5, <2>1 DEF Told
  <2>2. CASE outbox' = [outbox EXCEPT ![c] = <<>>]
    <3>1. outbox'[c] = <<>>
      BY <1>1, <2>2
    <3> QED
      BY <1>5, <3>1 DEF Told
  <2>3. ASSUME NEW n \in 1 .. Len(outbox[c]),
               outbox' = [outbox EXCEPT ![c] = SubSeq(@, n + 1, Len(@))]
        PROVE  Told(outbox[c], m)
    <3>1. /\ Len(outbox'[c]) = Len(outbox[c]) - n /\ Len(outbox[c]) \in Nat
          /\ \A k \in 1 .. Len(outbox[c]) - n : outbox'[c][k] = outbox[c][k + n]
      BY <2>3, ReadsSome
    <3>2. PICK k \in 1 .. Len(outbox'[c]) : outbox'[c][k].kind = m
      BY <1>5 DEF Told
    <3>3. k + n \in 1 .. Len(outbox[c]) /\ outbox[c][k + n].kind = m
      BY <3>1, <3>2
    <3> QED
      BY <3>3 DEF Told
  <2> QED
    BY <1>2, <2>1, <2>2, <2>3
<1> QED
  BY <1>3, <1>4, <1>5

-----------------------------------------------------------------------------
(* Where a handler goes.                                                    *)
LEMMA HandlerMoves ==
  ASSUME TypeInv, NEW h \in Clients, HandlerStep(h)
  PROVE  /\ handler[h] \in Serving \cup {"left"}
         /\ \A c \in Clients \ {h} : handler'[c] = handler[c]
         /\ handler'[h] \in Named => handler[h] \in Named \/ TakeName(h)
         /\ handler'[h] \in Named \ {"welcome"} =>
              handler[h] \in Named \ {"welcome"} \/ Welcome(h)
         /\ handler'[h] \in {"read_name", "wait_name"} =>
              handler[h] = "read_name" /\ CallRead(h)
         /\ handler'[h] # "none"
<1>1. PICK pc : handler' = [handler EXCEPT ![h] = pc]
  BY DEF HandlerStep, CallRead, ReadReturns, RefuseName, TakeName, Welcome,
         AnnounceJoin, Refresh, ToAll, ToOne, Respond, Stop, RemoveClient,
         AnnounceLeft, Goes
<1>2. handler \in [Clients -> Serving \cup {"none", "left", "done"}]
  BY DEF TypeInv, HandlersTyped
<1>3. handler'[h] = pc /\ \A c \in Clients \ {h} : handler'[c] = handler[c]
  BY <1>1, <1>2
<1>4. CASE CallRead(h) \/ ReadReturns(h)
  BY <1>2, <1>3, <1>4
  DEF CallRead, ReadReturns, Goes, Waiting, HasLine, NothingToRead, Serving, Named
<1>5. CASE \/ RefuseName(h) \/ TakeName(h) \/ Welcome(h) \/ AnnounceJoin(h)
           \/ Refresh(h) \/ ToAll(h) \/ ToOne(h) \/ Respond(h) \/ Stop(h)
           \/ RemoveClient(h) \/ AnnounceLeft(h)
  BY <1>2, <1>3, <1>5
  DEF RefuseName, TakeName, Welcome, AnnounceJoin, Refresh, ToAll, ToOne, Respond,
      Stop, RemoveClient, AnnounceLeft, Goes, Serving, Named
<1> QED
  BY <1>4, <1>5 DEF HandlerStep

(* A connection has one descriptor, its slot's or the one main holds.       *)
LEMMA OneDescriptor ==
  ASSUME SessionInv, NEW c \in Clients, NEW f \in Fds, files[f] = c
  PROVE  \/ main = "place" /\ f = client_sockfd /\ newest = c
         \/ \E i \in Slots : active[i] /\ sockfd[i] = f /\ Serves(c, i)
<1>1. c # None
  BY ChatTcpAssumption
<1>2. CASE main = "place" /\ f = client_sockfd
  BY <1>2 DEF SessionInv, MainHolds
<1>3. ASSUME NEW i \in Slots, active[i], sockfd[i] = f
      PROVE  Serves(c, i)
  BY <1>3 DEF SessionInv, SlotHasOneHandler
<1> QED
  BY <1>1, <1>2, <1>3 DEF SessionInv, DescriptorIsInTable

(* A connection that is shut stays shut.                                    *)
LEMMA ShutStays ==
  ASSUME SessionInv, TypeInv, Next, timed_out' = {}, NEW c \in Clients, Shut(c)
  PROVE  Shut(c)'
<1>1. CASE Accept
  <2>1. PICK f \in Fds : files' = [files EXCEPT ![f] = Head(backlog)]
    BY <1>1 DEF Accept
  <2>2. Head(backlog) # c
    <3>1. backlog # <<>> /\ backlog \in Seq(Clients) /\ main # "off"
      BY <1>1 DEF Accept, TypeInv, MainTyped
    <3>2. Head(backlog) = backlog[1] /\ 1 \in 1 .. Len(backlog)
      BY <3>1
    <3> QED
      BY <3>1, <3>2 DEF TypeInv, MainTyped, Arrivals, Shut
  <2> QED
    BY <1>1, <2>1, <2>2 DEF Accept, Shut, TypeInv, TableTyped
<1>2. CASE ShutDown
  BY <1>2, ChatTcpAssumption DEF ShutDown, Shut
<1>3. CASE MainStep /\ ~Accept
  BY <1>3, ChatTcpAssumption
  DEF MainStep, PlaceInSlot, RejectWhenFull, StartHandler, CloseFd, NextTurn, Shut,
      TypeInv, TableTyped
<1>4. CASE CheckerStep
  BY <1>4, CheckerFrame DEF Shut, mainVars
<1>5. ASSUME NEW h \in Clients, HandlerStep(h)
      PROVE  Shut(c)'
  <2>1. accepted' = accepted
    BY <1>5, HandlerFrame DEF mainVars
  <2>2. files' = files \/ \E f : files' = [files EXCEPT ![f] = None]
    BY <1>5
    DEF HandlerStep, CallRead, ReadReturns, RefuseName, TakeName, Welcome,
        AnnounceJoin, Refresh, ToAll, ToOne, Respond, Stop, RemoveClient,
        AnnounceLeft, CloseFd
  <2> QED
    BY <2>1, <2>2, ChatTcpAssumption DEF Shut, TypeInv, TableTyped
<1>6. ASSUME NEW d \in Clients, ClientStep(d) \/ UserStep(d)
      PROVE  Shut(c)'
  BY <1>6, ClientFrame DEF Shut
<1> QED
  BY <1>1, <1>2, <1>3, <1>4, <1>5, <1>6 DEF Next

(* Who is told ERROR has been told so before, or is shut now.               *)
LEMMA ErrorIsTheEnd ==
  ASSUME SessionInv, TypeInv, EndsAreClosed, Next, timed_out' = {},
         NEW c \in Clients, Told(outbox'[c], "ERROR")
  PROVE  Told(outbox[c], "ERROR") \/ Shut(c)'
<1>1. \A k : Say(k).kind = k
  BY DEF Say
<1>2. CASE MainStep \/ ShutDown \/ CheckerStep
  <2>1. CASE outbox' = outbox
    BY <2>1
  <2>2. CASE RejectWhenFull /\ OutboxGains(Say("ERROR"), Holder(client_sockfd))
    <3>1. CASE c \in Holder(client_sockfd)
      <4>1. /\ main = "place" /\ accepted' = accepted
            /\ files' = [files EXCEPT ![client_sockfd] = None]
        BY <2>2 DEF RejectWhenFull, CloseFd
      <4>2. newest = c /\ handler[c] = "none" /\ c \in accepted
        BY <3>1, <4>1 DEF Holder, SessionInv, MainHolds, Arrivals
      <4>3. \A i \in Slots : ~Serves(c, i)
        BY <4>1, <4>2 DEF Serves
      <4>4. \A f \in Fds : files[f] = c => f = client_sockfd
        BY <4>3, OneDescriptor
      <4>5. \A f \in Fds : files'[f] # c
        BY <4>1, <4>4, ChatTcpAssumption DEF TypeInv, TableTyped
      <4> QED
        BY <4>1, <4>2, <4>5 DEF Shut
    <3>2. CASE c \notin Holder(client_sockfd)
      BY <2>2, <3>2, GainsTold
    <3> QED
      BY <3>1, <3>2
  <2>3. CASE OutboxGains(Say("text"), Holders(ActiveBut(NoSlot)))
    BY <1>1, <2>3, GainsTold
  <2>4. CASE OutboxGains(Say("ALIVE"),
                         Holders({j \in next_slot .. MAX_CLIENTS - 1 : active[j]}))
    BY <1>1, <2>4, GainsTold
  <2> QED
    BY <1>2, <2>1, <2>2, <2>3, <2>4, ServerWrites
<1>3. ASSUME NEW h \in Clients, HandlerStep(h)
      PROVE  Told(outbox[c], "ERROR") \/ Shut(c)'
  <2>1. CASE outbox' = outbox
    BY <2>1
  <2>2. CASE RefuseName(h) /\ OutboxGains(Say("ERROR"), Holder(Fd(h)))
    <3>1. /\ handler[h] = "register" /\ accepted' = accepted
          /\ files' = [files EXCEPT ![Fd(h)] = None]
      BY <2>2 DEF RefuseName, CloseFd, mainVars
    <3>2. /\ files[Fd(h)] = h /\ handler[h] \in Serving
          /\ client_idx[h] \in Slots /\ Serves(h, client_idx[h])
      BY <3>1, ServedIsNotShut DEF Serving, Serves, SessionInv, Shape
    <3>3. CASE c \in Holder(Fd(h))
      <4>1. c = h
        BY <3>2, <3>3 DEF Holder
      <4>2. h \in accepted
        BY <3>1, <3>2, ServedIsNotShut DEF SessionInv, Arrivals, EndsAreClosed
      <4>3. \A f \in Fds : files[f] = h => f = Fd(h)
        BY <3>1, <3>2, OneDescriptor, OneSlot DEF Fd, SessionInv, MainHolds
      <4>4. \A f \in Fds : files'[f] # h
        BY <3>1, <4>3, ChatTcpAssumption DEF TypeInv, TableTyped
      <4> QED
        BY <3>1, <4>1, <4>2, <4>4 DEF Shut
    <3>4. CASE c \notin Holder(Fd(h))
      BY <2>2, <3>4, GainsTold
    <3> QED
      BY <3>3, <3>4
  <2>3. ASSUME NEW msg \in {Say("OK"), Say("text"), Signed(h)}, NEW Who,
               OutboxGains(msg, Who)
        PROVE  Told(outbox[c], "ERROR")
    <3>1. msg.kind # "ERROR"
      BY <1>1 DEF Signed
    <3> QED
      BY <2>3, <3>1, GainsTold
  <2> QED
    BY <1>3, <2>1, <2>2, <2>3, HandlerWrites
<1>4. ASSUME NEW d \in Clients, ClientStep(d) \/ UserStep(d)
      PROVE  Told(outbox[c], "ERROR")
  BY <1>4, ClientTold
<1> QED
  BY <1>2, <1>3, <1>4 DEF Next

LEMMA EndsAreClosedNext ==
  ASSUME SessionInv, TypeInv, EndsAreClosed, Next, timed_out' = {}
  PROVE  EndsAreClosed'
<1>1. main' = "off" => \A c \in Clients : Shut(c)'
  <2>1. CASE ShutDown
    BY <2>1, ChatTcpAssumption DEF ShutDown, Shut
  <2>2. CASE ~ShutDown
    <3>1. main' = "off" => main = "off"
      <4>1. CASE MainStep
        BY <4>1
        DEF MainStep, Accept, PlaceInSlot, RejectWhenFull, StartHandler, NextTurn
      <4> QED
        BY <2>2, <4>1, CheckerFrame, HandlerFrame, ClientFrame DEF Next, mainVars
    <3>2. main = "off" => \A c \in Clients : Shut(c)
      BY DEF EndsAreClosed
    <3> QED
      BY <3>1, <3>2, ShutStays
  <2> QED
    BY <2>1, <2>2
<1>2. ASSUME NEW c \in Clients, client'[c] = "gone" \/ Told(outbox'[c], "ERROR")
      PROVE  Shut(c)'
  <2>1. CASE Told(outbox'[c], "ERROR")
    <3>1. Told(outbox[c], "ERROR") => Shut(c)
      BY DEF EndsAreClosed
    <3> QED
      BY <2>1, <3>1, ErrorIsTheEnd, ShutStays
  <2>2. CASE client'[c] = "gone"
    <3>1. CASE client[c] = "gone"
      BY <3>1, ShutStays DEF EndsAreClosed
    <3>2. CASE client[c] # "gone"
      <4>1. ~(MainStep \/ ShutDown \/ CheckerStep)
        BY <2>2, <3>2, MainFrame, CheckerFrame DEF ShutDown, users
      <4>2. \A h \in Clients : ~HandlerStep(h)
        BY <2>2, <3>2, HandlerFrame DEF users
      <4>3. PICK d \in Clients : ClientStep(d) \/ UserStep(d)
        BY <4>1, <4>2 DEF Next
      <4>4. d = c
        BY <2>2, <3>2, <4>3, ClientFrame DEF TypeInv, UsersTyped
      <4>5. (GetReply(c) /\ Head(outbox[c]) = Say("ERROR") /\ outbox[c] # <<>>)
            \/ ConnectionEnds(c) \/ (Connect(c) /\ main = "off")
        <5>1. outbox[c] \in Seq(Messages)
          BY DEF TypeInv, StreamsTyped
        <5>2. \A n \in 1 .. Len(outbox[c]) : outbox[c] # <<>>
          BY <5>1
        <5> QED
          BY <2>2, <3>2, <4>3, <4>4, <5>2
          DEF ClientStep, WriteName, GetReply, Receive, ConnectionEnds, UserStep, Connect,
              TypeLine, TypeNothing, EndInput, CtrlC, TypeInv, UsersTyped
      <4>6. Shut(c)
        <5>1. CASE GetReply(c) /\ Head(outbox[c]) = Say("ERROR") /\ outbox[c] # <<>>
          <6>1. outbox[c] \in Seq(Messages)
            BY DEF TypeInv, StreamsTyped
          <6>2. 1 \in 1 .. Len(outbox[c]) /\ outbox[c][1].kind = "ERROR"
            BY <5>1, <6>1 DEF Say
          <6>3. Told(outbox[c], "ERROR")
            BY <6>2 DEF Told
          <6> QED
            BY <6>3 DEF EndsAreClosed
        <5>2. CASE ConnectionEnds(c)
          BY <5>2 DEF ConnectionEnds, Closed, Shut
        <5>3. CASE Connect(c) /\ main = "off"
          BY <5>3 DEF EndsAreClosed
        <5> QED
          BY <4>5, <5>1, <5>2, <5>3
      <4> QED
        BY <4>6, ShutStays
    <3> QED
      BY <3>1, <3>2
  <2> QED
    BY <1>2, <2>1, <2>2
<1>3. ASSUME NEW c \in Clients, client'[c] # "start", c \notin accepted'
      PROVE  \E k \in 1 .. Len(backlog') : backlog'[k] = c
  <2>1. backlog \in Seq(Clients) /\ Len(backlog) \in Nat
    BY DEF TypeInv, MainTyped
  <2>2. CASE Accept
    <3>1. client[c] # "start" /\ c \notin accepted /\ c # Head(backlog)
      BY <1>3, <2>2 DEF Accept, users
    <3>2. PICK k \in 1 .. Len(backlog) : backlog[k] = c
      BY <3>1 DEF EndsAreClosed
    <3>3. /\ backlog # <<>> /\ Len(backlog') = Len(backlog) - 1
          /\ \A j \in 1 .. Len(backlog') : backlog'[j] = backlog[j + 1]
          /\ Head(backlog) = backlog[1]
      BY <2>1, <2>2 DEF Accept
    <3>4. k - 1 \in 1 .. Len(backlog') /\ backlog'[k - 1] = c
      BY <2>1, <3>1, <3>2, <3>3
    <3> QED
      BY <3>4
  <2>3. CASE ShutDown
    BY <1>3, <2>3 DEF ShutDown
  <2>4. CASE \E d \in Clients : Connect(d)
    <3>1. PICK d \in Clients : Connect(d)
      BY <2>4
    <3>2. CASE main = "off"
      BY <1>3, <3>1, <3>2 DEF Connect, EndsAreClosed, Shut
    <3>3. CASE main # "off"
      <4>1. /\ Len(backlog') = Len(backlog) + 1 /\ backlog'[Len(backlog) + 1] = d
            /\ \A k \in 1 .. Len(backlog) : backlog'[k] = backlog[k]
            /\ accepted' = accepted /\ client' = [client EXCEPT ![d] = "connected"]
        BY <2>1, <3>1, <3>3 DEF Connect
      <4>2. CASE c = d
        BY <2>1, <4>1, <4>2
      <4>3. CASE c # d
        <5>1. client[c] # "start" /\ c \notin accepted
          BY <1>3, <4>1, <4>3 DEF TypeInv, UsersTyped
        <5>2. PICK k \in 1 .. Len(backlog) : backlog[k] = c
          BY <5>1 DEF EndsAreClosed
        <5> QED
          BY <2>1, <4>1, <5>2
      <4> QED
        BY <4>2, <4>3
    <3> QED
      BY <3>2, <3>3
  <2>5. CASE ~(Accept \/ ShutDown \/ \E d \in Clients : Connect(d))
    <3>1. /\ UNCHANGED <<backlog, accepted>>
          /\ client'[c] = "start" <=> client[c] = "start"
      <4>1. CASE MainStep
        BY <2>5, <4>1, MainFrame
        DEF MainStep, PlaceInSlot, RejectWhenFull, StartHandler, users
      <4>2. CASE CheckerStep
        BY <4>2, CheckerFrame DEF mainVars
      <4>3. ASSUME NEW h \in Clients, HandlerStep(h)
            PROVE  /\ UNCHANGED <<backlog, accepted>>
                   /\ client'[c] = "start" <=> client[c] = "start"
        BY <4>3, HandlerFrame DEF mainVars, users
      <4>4. ASSUME NEW d \in Clients, ClientStep(d) \/ UserStep(d)
            PROVE  /\ UNCHANGED <<backlog, accepted>>
                   /\ client'[c] = "start" <=> client[c] = "start"
        BY <2>5, <4>4, ClientFrame DEF TypeInv, UsersTyped
      <4> QED
        BY <2>5, <4>1, <4>2, <4>3, <4>4 DEF Next
    <3> QED
      BY <1>3, <3>1 DEF EndsAreClosed
  <2> QED
    BY <2>2, <2>3, <2>4, <2>5
<1>4. ASSUME NEW c \in Clients, handler'[c] \in Named \ {"welcome"},
             client'[c] \in {"connected", "await"}
      PROVE  outbox'[c] # <<>>
  <2>1. CASE MainStep \/ ShutDown \/ CheckerStep
    <3>1. handler[c] \in Named \ {"welcome"} /\ client[c] \in {"connected", "await"}
      BY <1>4, <2>1, MainFrame, CheckerFrame
      DEF ShutDown, StartHandler, TypeInv, HandlersTyped, Named, users, handlers
    <3>2. outbox[c] # <<>>
      BY <3>1 DEF EndsAreClosed
    <3> QED
      BY <2>1, <3>2, ServerWrites, GainsTold
  <2>2. ASSUME NEW h \in Clients, HandlerStep(h)
        PROVE  outbox'[c] # <<>>
    <3>1. client[c] \in {"connected", "await"}
      BY <1>4, <2>2, HandlerFrame DEF users
    <3>2. CASE handler[c] \in Named \ {"welcome"}
      <4>1. outbox[c] # <<>>
        BY <3>1, <3>2 DEF EndsAreClosed
      <4> QED
        BY <2>2, <4>1, HandlerWrites, GainsTold
    <3>3. CASE handler[c] \notin Named \ {"welcome"}
      <4>1. c = h /\ Welcome(h)
        BY <1>4, <2>2, <3>3, HandlerMoves
      <4>2. files[Fd(h)] = h
        BY <4>1, ServedIsNotShut DEF Welcome, Serving
      <4>3. c \in Holder(Fd(h))
        BY <3>1, <4>1, <4>2 DEF Holder
      <4>4. outbox \in [Clients -> Seq(Messages)] /\ Say("OK") \in Messages
            /\ WriteFd(Fd(h), Say("OK"))
        BY <4>1, SaidAreMessages DEF Welcome, TypeInv, StreamsTyped
      <4>5. OutboxGains(Say("OK"), Holder(Fd(h)))
        BY <4>4, WriteFdGains
      <4> QED
        BY <4>3, <4>5, GainsTold
    <3> QED
      BY <3>2, <3>3
  <2>3. ASSUME NEW d \in Clients, ClientStep(d) \/ UserStep(d)
        PROVE  outbox'[c] # <<>>
    <3>1. handler[c] \in Named \ {"welcome"}
      BY <1>4, <2>3, ClientFrame DEF handlers
    <3>2. ~Connect(c)
      <4>1. Connect(c) => main # "off" /\ c \notin accepted
        BY <1>4, <3>1 DEF Connect, EndsAreClosed, TypeInv, UsersTyped, MainTyped, Arrivals
      <4> QED
        BY <3>1, <4>1 DEF TypeInv, MainTyped, Arrivals, Named
    <3>3. client[c] \in {"connected", "await"}
      BY <1>4, <2>3, <3>2, ClientFrame
      DEF ClientStep, WriteName, GetReply, Receive, ConnectionEnds, UserStep, Connect,
          TypeLine, TypeNothing, EndInput, CtrlC, TypeInv, UsersTyped
    <3>4. outbox[c] # <<>>
      BY <3>1, <3>3 DEF EndsAreClosed
    <3> QED
      BY <1>4, <2>3, <3>4, ClientTold
  <2> QED
    BY <2>1, <2>2, <2>3 DEF Next
<1> QED
  BY <1>1, <1>2, <1>3, <1>4 DEF EndsAreClosed, Shut

-----------------------------------------------------------------------------
(* Who is served is connected, and read does not fail.                      *)
LEMMA NameIsThere ==
  ASSUME SessionInv, TypeInv, EndsAreClosed, NEW c \in Clients, handler[c] \in Serving
  PROVE  client[c] \notin {"start", "gone"}
<1>1. client[c] # "gone" /\ main # "off"
  BY ServedIsNotShut DEF EndsAreClosed
<1> QED
  BY <1>1 DEF TypeInv, MainTyped, Arrivals, Serving

(* What a client writes, and when.                                          *)
LEMMA ClientWrites ==
  ASSUME TypeInv, NEW c \in Clients, ClientStep(c) \/ UserStep(c)
  PROVE  \/ inbox' = inbox
         \/ ConnectionEnds(c) /\ inbox' = [inbox EXCEPT ![c] = <<>>]
         \/ WriteName(c) /\ Writes(c, NameLine(c))
         \/ /\ CtrlC(c) \/ EndInput(c)
            /\ client[c] \in {"connected", "await", "running"}
            /\ Writes(c, Line("STOP", NoName, c))
         \/ Receive(c) /\ Writes(c, Line("ALIVE_ACK", NoName, c))
         \/ TypeLine(c) /\ \E t \in Typed : Writes(c, Line(t.text, t.to, c))
  BY DEF ClientStep, WriteName, GetReply, Receive, ConnectionEnds, UserStep, Connect,
         TypeLine, TypeNothing, EndInput, CtrlC, Reads, NameLine

(* How a client that writes a line, or none, changes its stream.            *)
LEMMA StreamGrows ==
  ASSUME TypeInv, NEW c \in Clients, NEW l \in Lines, Writes(c, l)
  PROVE  /\ \A d \in Clients \ {c} : inbox'[d] = inbox[d]
         /\ Len(inbox[c]) \in Nat /\ Len(inbox'[c]) = Len(inbox[c]) + 1
         /\ inbox'[c] # <<>> /\ inbox'[c][Len(inbox[c]) + 1] = l
         /\ \A k \in 1 .. Len(inbox[c]) : inbox'[c][k] = inbox[c][k]
         /\ inbox[c] = <<>> => inbox'[c][1] = l
         /\ inbox[c] # <<>> => inbox'[c][1] = inbox[c][1]
<1>1. inbox \in [Clients -> Seq(Lines)] /\ Len(inbox[c]) \in Nat
  BY DEF TypeInv, StreamsTyped
<1>2. /\ inbox' \in [Clients -> Seq(Lines)]
      /\ Len(inbox'[c]) = Len(inbox[c]) + 1 /\ inbox'[c][Len(inbox[c]) + 1] = l
      /\ \A k \in 1 .. Len(inbox[c]) : inbox'[c][k] = inbox[c][k]
      /\ \A d \in Clients \ {c} : inbox'[d] = inbox[d]
  BY <1>1, WritesType
<1>3. inbox[c] = <<>> <=> Len(inbox[c]) = 0
  BY <1>1
<1>4. inbox'[c] # <<>>
  BY <1>1, <1>2
<1>5. inbox[c] = <<>> => inbox'[c][1] = l
  <2>1. Len(inbox[c]) = 0 => Len(inbox[c]) + 1 = 1
    OBVIOUS
  <2> QED
    BY <1>2, <1>3, <2>1
<1>6. inbox[c] # <<>> => inbox'[c][1] = inbox[c][1]
  <2>1. Len(inbox[c]) # 0 => 1 \in 1 .. Len(inbox[c])
    BY <1>1
  <2> QED
    BY <1>2, <1>3, <2>1
<1> QED
  BY <1>1, <1>2, <1>4, <1>5, <1>6

(* Who is silent stays so.                                                  *)
LEMMA HandlerSilent ==
  ASSUME TypeInv, OwnLines, NEW h \in Clients, HandlerStep(h), NEW c \in Clients,
         Silent(c)
  PROVE  Silent(c)'
<1>1. UNCHANGED <<flag, send_thread>>
  BY HandlerFrame DEF users
<1>2. CASE c # h
  <2>1. inbox'[c] = inbox[c] /\ buffer'[c] = buffer[c]
    BY <1>2, OthersLines
  <2> QED
    BY <1>1, <2>1 DEF Silent
<1>3. CASE c = h /\ ReadReturns(h) /\ inbox[h] # <<>>
  <2>1. PICK n \in 1 .. Len(inbox[h]) :
          /\ buffer' = [buffer EXCEPT ![h] = inbox[h][1]]
          /\ Len(inbox[h]) \in Nat \ {0} /\ Len(inbox'[h]) = Len(inbox[h]) - n
          /\ \A k \in 1 .. Len(inbox[h]) - n :
               \/ inbox'[h][k] = inbox[h][k + n]
               \/ /\ inbox'[h][k].text = "rest" /\ inbox'[h][k].by = h
                  /\ inbox[h][k + n].text = "STOP" => h \in ignored'
    BY <1>3, TakesLine
  <2>2. buffer'[h] = inbox[h][1] /\ buffer'[h].text \notin Chat
    BY <1>3, <2>1 DEF Silent, TypeInv, HandlersTyped
  <2>3. ASSUME NEW k \in 1 .. Len(inbox'[h])
        PROVE  inbox'[h][k].text \notin Chat
    <3>1. k \in 1 .. Len(inbox[h]) - n /\ k + n \in 1 .. Len(inbox[h])
      BY <2>1
    <3>2. inbox[h][k + n].text \notin Chat
      BY <1>3, <3>1 DEF Silent
    <3> QED
      BY <2>1, <3>1, <3>2 DEF Chat
  <2> QED
    BY <1>1, <1>3, <2>2, <2>3 DEF Silent
<1>4. CASE c = h /\ ~(ReadReturns(h) /\ inbox[h] # <<>>)
  <2>1. inbox' = inbox /\ (buffer'[h] = buffer[h] \/ buffer'[h] = None)
    <3>1. CASE ReadReturns(h)
      <4>1. reading[h] = h
        BY <3>1 DEF ReadReturns, TypeInv, HandlersTyped, OwnLines
      <4>2. inbox[h] = <<>> /\ Len(inbox[h]) = 0
        BY <1>4, <3>1
      <4> QED
        BY <3>1, <4>1, <4>2 DEF ReadReturns
    <3>2. CASE ~ReadReturns(h)
      BY <3>2, OnlyReadsTakeLines DEF TypeInv, HandlersTyped
    <3> QED
      BY <3>1, <3>2
  <2> QED
    BY <1>1, <1>4, <2>1 DEF Silent
<1> QED
  BY <1>2, <1>3, <1>4

LEMMA ClientSilent ==
  ASSUME TypeInv, NEW d \in Clients, ClientStep(d) \/ UserStep(d),
         NEW c \in Clients, Silent(c)
  PROVE  Silent(c)'
<1>1. buffer' = buffer
  BY ClientFrame
<1>2. flag'[c] /\ send_thread'[c] # "fgets"
  BY DEF Silent, ClientStep, WriteName, GetReply, Receive, ConnectionEnds, UserStep,
         Connect, TypeLine, TypeNothing, EndInput, CtrlC, TypeInv, UsersTyped
<1>3. \A k \in 1 .. Len(inbox'[c]) : inbox'[c][k].text \notin Chat
  <2>1. \A k \in 1 .. Len(inbox[c]) : inbox[c][k].text \notin Chat
    BY DEF Silent
  <2>2. CASE inbox'[c] = inbox[c]
    BY <2>1, <2>2
  <2>3. CASE inbox' = [inbox EXCEPT ![d] = <<>>]
    BY <2>1, <2>3 DEF TypeInv, StreamsTyped
  <2>4. ASSUME NEW l \in Lines, Writes(d, l), l.text \notin Chat
        PROVE  \A k \in 1 .. Len(inbox'[c]) : inbox'[c][k].text \notin Chat
    <3>1. CASE c # d
      BY <2>1, <2>4, <3>1, StreamGrows
    <3>2. CASE c = d
      <4>1. /\ Len(inbox[c]) \in Nat /\ Len(inbox'[c]) = Len(inbox[c]) + 1
            /\ inbox'[c][Len(inbox[c]) + 1] = l
            /\ \A k \in 1 .. Len(inbox[c]) : inbox'[c][k] = inbox[c][k]
        BY <2>4, <3>2, StreamGrows
      <4> QED
        BY <2>1, <2>4, <4>1
    <3> QED
      BY <3>1, <3>2
  <2>5. CASE WriteName(d) /\ Writes(d, NameLine(d))
    <3>1. NameLine(d) \in Lines /\ NameLine(d).text \notin Chat
      BY LinesWritten, ChatTcpAssumption DEF NameLine, Line, Chat
    <3> QED
      BY <2>4, <2>5, <3>1
  <2>6. ASSUME NEW x \in {"STOP", "ALIVE_ACK"}, Writes(d, Line(x, NoName, d))
        PROVE  \A k \in 1 .. Len(inbox'[c]) : inbox'[c][k].text \notin Chat
    <3>1. Line(x, NoName, d) \in Lines /\ Line(x, NoName, d).text \notin Chat
      BY LinesWritten DEF Line, Chat
    <3> QED
      BY <2>4, <2>6, <3>1
  <2>7. CASE TypeLine(d) /\ \E t \in Typed : Writes(d, Line(t.text, t.to, d))
    <3>1. d # c
      BY <2>7 DEF TypeLine, Reads, Silent
    <3> QED
      BY <2>2, <2>7, <3>1, LinesWritten, StreamGrows
  <2> QED
    BY <2>2, <2>3, <2>5, <2>6, <2>7, ClientWrites
<1> QED
  BY <1>1, <1>2, <1>3 DEF Silent

LEMMA HandlerNameComesFirst ==
  ASSUME SessionInv, TypeInv, OwnLines, EndsAreClosed, NameComesFirst,
         NEW h \in Clients, HandlerStep(h), NEW c \in Clients
  PROVE  NameFirst(c)'
<1>1. UNCHANGED <<client_idx, client, send_thread>>
  BY HandlerFrame DEF users
<1>2. /\ handler[h] \in Serving \cup {"left"}
      /\ \A d \in Clients \ {h} : handler'[d] = handler[d]
      /\ handler'[h] \in Named => handler[h] \in Named \/ TakeName(h)
      /\ handler'[h] \in {"read_name", "wait_name"} =>
              handler[h] = "read_name" /\ CallRead(h)
      /\ handler'[h] # "none"
  BY HandlerMoves
<1>3. NameFirst(c) /\ (Silent(c) => Silent(c)')
  BY HandlerSilent DEF NameComesFirst
<1>4. CASE c = h /\ ReadReturns(h)
  <2>1. /\ handler[h] \in {"wait_name", "wait"} /\ handler[h] \in Serving
        /\ reading[h] = h /\ name' = name
    BY <1>4 DEF ReadReturns, Serving, TypeInv, HandlersTyped, OwnLines, table
  <2>2. client[h] \notin {"start", "gone"}
    BY <2>1, NameIsThere
  <2>3. inbox[h] # <<>>
    <3>1. inbox[h] = <<>> => Len(inbox[h]) = 0
      OBVIOUS
    <3> QED
      BY <1>4, <2>1, <2>2, <3>1 DEF ReadReturns
  <2>4. /\ buffer' = [buffer EXCEPT ![h] = inbox[h][1]]
        /\ handler' = [handler EXCEPT ![h] = HasLine(handler[h])]
    BY <1>4, <2>3, TakesLine
  <2>5. /\ handler'[h] = IF handler[h] = "wait_name" THEN "register" ELSE "refresh"
        /\ buffer'[h] = inbox[h][1]
    BY <2>4 DEF HasLine, TypeInv, HandlersTyped
  <2>6. handler[h] = "wait_name" => Opens(inbox[h][1], h)
    BY <1>3, <1>4, <2>2, <2>3 DEF NameFirst, Arriving
  <2>7. handler'[h] = "register" => Opens(buffer[h], h)'
    BY <1>3, <1>4, <2>5, <2>6 DEF Opens, NameLine
  <2>8. handler'[h] \in Named => IsCalled(h)'
    <3>1. handler'[h] \in Named => IsCalled(h)
      BY <1>3, <1>4, <2>1, <2>5 DEF NameFirst, Named
    <3> QED
      BY <1>1, <1>3, <1>4, <2>1, <3>1 DEF IsCalled
  <2>9. handler'[h] \notin Arriving /\ handler'[h] # "quit" /\ client'[h] # "start"
    BY <1>1, <2>1, <2>2, <2>5 DEF Arriving
  <2> QED
    BY <1>1, <1>3, <1>4, <2>7, <2>8, <2>9 DEF NameFirst
<1>5. CASE c = h /\ ~ReadReturns(h)
  <2>1. inbox' = inbox
    BY <1>5, OnlyReadsTakeLines
  <2>2. handler'[h] # "quit" /\ handler'[h] # "register"
    <3>1. CASE CallRead(h)
      <4>1. files[Fd(h)] # None
        BY <3>1, ServedIsNotShut, ChatTcpAssumption DEF CallRead, Serving
      <4> QED
        BY <3>1, <4>1 DEF CallRead, Goes, Waiting, TypeInv, HandlersTyped
    <3>2. CASE ~CallRead(h)
      BY <1>5, <3>2
      DEF HandlerStep, RefuseName, TakeName, Welcome, AnnounceJoin, Refresh,
          ToAll, ToOne, Respond, Stop, RemoveClient, AnnounceLeft, Goes,
          TypeInv, HandlersTyped
    <3> QED
      BY <3>1, <3>2
  <2>3. handler'[h] \in Named => IsCalled(h)'
    <3>1. CASE TakeName(h)
      <4>1. Opens(buffer[h], h) /\ client_idx[h] \in Slots
        BY <1>3, <1>5, <3>1 DEF TakeName, NameFirst, TypeInv, HandlersTyped
      <4>2. name'[client_idx'[h]] = buffer[h].text
        BY <1>1, <3>1, <4>1 DEF TakeName, TypeInv, TableTyped
      <4>3. NameLine(h).text = Name[h]
        BY DEF NameLine, Line
      <4> QED
        BY <1>3, <1>5, <4>1, <4>2, <4>3 DEF Opens, IsCalled
    <3>2. CASE ~TakeName(h) /\ handler'[h] \in Named
      <4>1. handler[h] \in Named /\ IsCalled(h)
        BY <1>2, <1>3, <1>5, <3>2 DEF NameFirst
      <4>2. name' = name
        BY <3>2
        DEF HandlerStep, CallRead, ReadReturns, RefuseName, Welcome, AnnounceJoin,
            Refresh, ToAll, ToOne, Respond, Stop, RemoveClient, AnnounceLeft, Goes,
            TypeInv, HandlersTyped, Named, table
      <4> QED
        BY <1>1, <1>3, <1>5, <4>1, <4>2 DEF IsCalled
    <3> QED
      BY <3>1, <3>2
  <2>4. handler'[h] \in Arriving => handler[h] \in Arriving
    BY <1>2 DEF Arriving
  <2>5. Opens(inbox[h][1], h) => Opens(inbox[h][1], h)'
    BY <1>3, <1>5, <2>1 DEF Opens, NameLine
  <2> QED
    BY <1>1, <1>3, <1>5, <2>1, <2>2, <2>3, <2>4, <2>5 DEF NameFirst
<1>6. CASE c # h
  <2>1. inbox'[c] = inbox[c] /\ buffer'[c] = buffer[c] /\ handler'[c] = handler[c]
    BY <1>2, <1>6, OthersLines
  <2>2. handler[c] \in Named => name'[client_idx[c]] = name[client_idx[c]]
    <3>1. CASE handler[c] \in Named /\ (TakeName(h) \/ RemoveClient(h))
      <4>1. /\ client_idx[c] \in Slots /\ Serves(c, client_idx[c])
            /\ client_idx[h] \in Slots /\ Serves(h, client_idx[h])
        BY <3>1
        DEF Named, TakeName, RemoveClient, Serves, TypeInv, HandlersTyped
      <4>2. client_idx[c] # client_idx[h]
        BY <1>6, <4>1, OwnSlot
      <4>3. name' = name \/ \E n : name' = [name EXCEPT ![client_idx[h]] = n]
        BY <3>1 DEF TakeName, RemoveClient
      <4> QED
        BY <4>1, <4>2, <4>3 DEF TypeInv, TableTyped
    <3>2. CASE ~(TakeName(h) \/ RemoveClient(h))
      BY <3>2
      DEF HandlerStep, CallRead, ReadReturns, RefuseName, Welcome, AnnounceJoin,
          Refresh, ToAll, ToOne, Respond, Stop, AnnounceLeft, table
    <3> QED
      BY <3>1, <3>2
  <2>3. /\ Opens(inbox[c][1], c) => Opens(inbox[c][1], c)'
        /\ Opens(buffer[c], c) => Opens(buffer[c], c)'
    BY <1>3, <2>1 DEF Opens, NameLine
  <2>4. handler[c] \in Named => IsCalled(c)'
    BY <1>1, <1>3, <2>2 DEF NameFirst, IsCalled
  <2> QED
    BY <1>1, <1>3, <2>1, <2>3, <2>4 DEF NameFirst
<1> QED
  BY <1>4, <1>5, <1>6

LEMMA ClientNameComesFirst ==
  ASSUME TypeInv, NameComesFirst, NEW d \in Clients, ClientStep(d) \/ UserStep(d)
  PROVE  NameFirst(d)'
<1>1. /\ UNCHANGED <<name, buffer, handler, client_idx>>
      /\ client'[d] = "start" => client[d] = "start" /\ ~Connect(d)
  BY ClientFrame DEF table
<1>2. NameFirst(d) /\ (Silent(d) => Silent(d)')
  BY ClientSilent DEF NameComesFirst
<1>3. \A l : Opens(l, d) => Opens(l, d)'
  BY <1>2 DEF Opens, NameLine
<1>4. client'[d] = "start" => inbox'[d] = <<>>
  <2>1. client'[d] = "start" => inbox' = inbox
    BY <1>1, ClientWrites
    DEF ConnectionEnds, WriteName, Receive, TypeLine, Reads
  <2> QED
    BY <1>1, <1>2, <2>1 DEF NameFirst
<1>5. client'[d] \in {"start", "connected", "await"} => send_thread'[d] = "none"
  BY <1>2
  DEF NameFirst, ClientStep, WriteName, GetReply, Receive, ConnectionEnds, UserStep,
      Connect, TypeLine, TypeNothing, EndInput, CtrlC, Reads, TypeInv, UsersTyped
<1>6. ASSUME handler[d] \in Arriving, client'[d] # "gone"
      PROVE  /\ client'[d] \in {"await", "running"} => inbox'[d] # <<>>
             /\ inbox'[d] # <<>> => Opens(inbox[d][1], d)'
  <2>1. /\ client[d] \in {"await", "running"} => inbox[d] # <<>>
        /\ client[d] # "gone" /\ inbox[d] # <<>> => Opens(inbox[d][1], d)
    BY <1>2, <1>6 DEF NameFirst
  <2>2. client[d] # "gone" /\ ~ConnectionEnds(d)
    BY <1>6
    DEF ClientStep, WriteName, GetReply, Receive, ConnectionEnds, UserStep, Connect,
        Reads, TypeLine, TypeNothing, EndInput, CtrlC, TypeInv, UsersTyped
  <2>3. client'[d] \in {"await", "running"} =>
          client[d] \in {"await", "running"} \/ WriteName(d)
    BY DEF ClientStep, WriteName, GetReply, Receive, ConnectionEnds, UserStep, Connect,
           Reads, TypeLine, TypeNothing, EndInput, CtrlC, TypeInv, UsersTyped
  <2>4. CASE inbox' = inbox
    <3>1. ~WriteName(d)
      <4>1. WriteName(d) => Writes(d, NameLine(d)) /\ NameLine(d) \in Lines
        BY LinesWritten DEF WriteName, NameLine
      <4>2. WriteName(d) => Len(inbox[d]) \in Nat /\ Len(inbox'[d]) = Len(inbox[d]) + 1
        BY <4>1, StreamGrows
      <4> QED
        BY <2>4, <4>2
    <3> QED
      BY <1>3, <2>1, <2>2, <2>3, <2>4, <3>1
  <2>5. ASSUME NEW l \in Lines, Writes(d, l),
               inbox[d] = <<>> => Opens(l, d)'
        PROVE  inbox'[d] # <<>> /\ Opens(inbox[d][1], d)'
    BY <1>3, <2>1, <2>2, <2>5, StreamGrows
  <2>6. CASE WriteName(d) /\ Writes(d, NameLine(d))
    <3>1. NameLine(d) \in Lines /\ Opens(NameLine(d), d)'
      BY LinesWritten DEF NameLine, Opens
    <3> QED
      BY <2>5, <2>6, <3>1
  <2>7. CASE /\ CtrlC(d) \/ EndInput(d)
             /\ client[d] \in {"connected", "await", "running"}
             /\ Writes(d, Line("STOP", NoName, d))
    <3>1. Line("STOP", NoName, d) \in Lines /\ Line("STOP", NoName, d).text = "STOP"
      BY LinesWritten DEF Line
    <3>2. ASSUME inbox[d] = <<>>
          PROVE  Silent(d)'
      <4>1. client[d] = "connected" /\ CtrlC(d) /\ send_thread[d] = "none"
        BY <1>2, <2>1, <2>7, <3>2 DEF EndInput, Reads, NameFirst
      <4>2. flag'[d] /\ send_thread'[d] # "fgets"
        BY <4>1 DEF CtrlC, TypeInv, UsersTyped
      <4>3. buffer'[d] = None
        BY <1>1, <1>6 DEF TypeInv, HandlersTyped, Arriving
      <4>4. Len(inbox'[d]) = 1 /\ inbox'[d][1].text = "STOP"
        <5>1. /\ Len(inbox[d]) = 0 /\ Len(inbox'[d]) = Len(inbox[d]) + 1
              /\ inbox'[d][1] = Line("STOP", NoName, d)
          BY <2>7, <3>1, <3>2, StreamGrows
        <5> QED
          BY <3>1, <5>1
      <4> QED
        BY <4>2, <4>3, <4>4 DEF Silent, Chat
    <3> QED
      BY <2>5, <2>7, <3>1, <3>2 DEF Opens
  <2>8. CASE Receive(d) /\ Writes(d, Line("ALIVE_ACK", NoName, d))
    BY <2>1, <2>5, <2>8, LinesWritten DEF Receive
  <2>9. CASE TypeLine(d) /\ \E t \in Typed : Writes(d, Line(t.text, t.to, d))
    BY <2>1, <2>5, <2>9, LinesWritten DEF TypeLine, Reads
  <2> QED
    BY <2>2, <2>4, <2>6, <2>7, <2>8, <2>9, ClientWrites
<1>7. /\ handler[d] = "register" => Opens(buffer[d], d)
      /\ handler[d] \in Named => IsCalled(d)
      /\ handler[d] # "quit"
  BY <1>2 DEF NameFirst
<1>8. /\ handler'[d] = "register" => Opens(buffer[d], d)'
      /\ handler'[d] \in Named => IsCalled(d)'
  BY <1>1, <1>2, <1>3, <1>7 DEF IsCalled
<1> QED
  BY <1>1, <1>4, <1>5, <1>6, <1>7, <1>8 DEF NameFirst

LEMMA NameComesFirstNext ==
  ASSUME SessionInv, TypeInv, OwnLines, EndsAreClosed, NameComesFirst, Next,
         timed_out' = {}
  PROVE  NameComesFirst'
<1>1. ASSUME UNCHANGED <<inbox, buffer, client, flag, send_thread>>, NEW c \in Clients
      PROVE  /\ Silent(c)' <=> Silent(c)
             /\ Opens(inbox[c][1], c)' <=> Opens(inbox[c][1], c)
             /\ Opens(buffer[c], c)' <=> Opens(buffer[c], c)
  BY <1>1 DEF Silent, Opens, NameLine
<1>2. CASE MainStep
  <2>1. UNCHANGED <<name, buffer, inbox, client, flag, send_thread>>
    BY <1>2, MainFrame DEF users
  <2>2. ASSUME NEW c \in Clients
        PROVE  \/ handler'[c] = handler[c] /\ client_idx'[c] = client_idx[c]
               \/ handler[c] = "none" /\ handler'[c] = "read_name"
    BY <1>2, MainFrame DEF StartHandler, TypeInv, MainTyped, HandlersTyped
  <2>3. ASSUME NEW c \in Clients, handler'[c] \in Named, IsCalled(c)
        PROVE  IsCalled(c)'
    <3>1. client_idx'[c] = client_idx[c]
      BY <2>2, <2>3 DEF Named
    <3> QED
      BY <1>1, <2>1, <2>3, <3>1 DEF IsCalled
  <2>4. ASSUME NEW c \in Clients
        PROVE  NameFirst(c)'
    <3>1. NameFirst(c)
      BY DEF NameComesFirst
    <3>2. /\ handler'[c] \in Arriving <=> handler[c] \in Arriving
          /\ handler'[c] \notin Arriving => handler'[c] = handler[c]
      BY <2>2 DEF Arriving
    <3>3. /\ handler'[c] = "register" => Opens(buffer[c], c)
          /\ handler'[c] \in Named => IsCalled(c)
          /\ handler'[c] # "quit"
      BY <2>2, <3>1 DEF NameFirst, Named
    <3> QED
      BY <1>1, <2>1, <2>3, <3>1, <3>2, <3>3 DEF NameFirst
  <2> QED
    BY <2>4 DEF NameComesFirst
<1>3. CASE ShutDown
  <2>1. UNCHANGED <<inbox, client, send_thread>> /\ \A c \in Clients : handler'[c] = "done"
    BY <1>3 DEF ShutDown
  <2> QED
    BY <2>1 DEF NameComesFirst, NameFirst, Arriving, Named
<1>4. CASE CheckerStep
  <2>1. UNCHANGED <<name, handler, client_idx, buffer, inbox, client, flag, send_thread>>
    BY <1>4, CheckerFrame DEF handlers
  <2> QED
    BY <1>1, <2>1 DEF NameComesFirst, NameFirst, IsCalled
<1>5. ASSUME NEW h \in Clients, HandlerStep(h)
      PROVE  NameComesFirst'
  BY <1>5, HandlerNameComesFirst DEF NameComesFirst
<1>6. ASSUME NEW d \in Clients, ClientStep(d) \/ UserStep(d)
      PROVE  NameComesFirst'
  <2>1. ASSUME NEW c \in Clients, c # d
        PROVE  NameFirst(c)'
    <3>1. /\ UNCHANGED <<name, buffer, handler, client_idx>>
          /\ client'[c] = client[c] /\ inbox'[c] = inbox[c]
      BY <1>6, <2>1, ClientFrame, ClientLines DEF table, TypeInv, UsersTyped
    <3>2. send_thread'[c] = send_thread[c]
      BY <1>6, <2>1
      DEF ClientStep, WriteName, GetReply, Receive, ConnectionEnds, UserStep, Connect,
          TypeLine, TypeNothing, EndInput, CtrlC, TypeInv, UsersTyped
    <3>3. NameFirst(c) /\ (Silent(c) => Silent(c)')
      BY <1>6, ClientSilent DEF NameComesFirst
    <3>4. /\ Opens(inbox[c][1], c) => Opens(inbox[c][1], c)'
          /\ Opens(buffer[c], c) => Opens(buffer[c], c)'
          /\ IsCalled(c) => IsCalled(c)'
      BY <3>1, <3>3 DEF Opens, NameLine, IsCalled
    <3> QED
      BY <3>1, <3>2, <3>3, <3>4 DEF NameFirst
  <2> QED
    BY <1>6, <2>1, ClientNameComesFirst DEF NameComesFirst
<1> QED
  BY <1>2, <1>3, <1>4, <1>5, <1>6 DEF Next

-----------------------------------------------------------------------------
(* A chat line goes to whom it is for, signed by its author.                *)
LEMMA GainsSigned ==
  ASSUME TypeInv, ChatIsSigned, NEW msg, NEW Who, OutboxGains(msg, Who),
         \A c \in Clients : c \in Who => MaySee(c, msg)
  PROVE  ChatIsSigned'
<1> SUFFICES ASSUME NEW c \in Clients, NEW k \in 1 .. Len(outbox'[c])
             PROVE  MaySee(c, outbox'[c][k])
  BY DEF ChatIsSigned
<1>1. Len(outbox[c]) \in Nat /\ Len(outbox'[c]) \in Nat
  BY DEF TypeInv, StreamsTyped, OutboxGains
<1>2. CASE k \in 1 .. Len(outbox[c])
  <2>1. outbox'[c][k] = outbox[c][k]
    BY <1>2 DEF OutboxGains
  <2> QED
    BY <1>2, <2>1 DEF ChatIsSigned
<1>3. CASE k \in Len(outbox[c]) + 1 .. Len(outbox'[c])
  <2>1. outbox'[c][k] = msg
    BY <1>3 DEF OutboxGains
  <2>2. c \in Who
    BY <1>1, <1>3 DEF OutboxGains
  <2> QED
    BY <2>1, <2>2
<1> QED
  BY <1>1, <1>2, <1>3

(* Whoever has a slot with a name in it has that name, or is called STOP.   *)
LEMMA SlotNameIsOwn ==
  ASSUME SessionInv, TypeInv, NameComesFirst, NEW c \in Clients, NEW i \in Slots,
         active[i], files[sockfd[i]] = c
  PROVE  Serves(c, i) /\ (name[i] \notin {NoName, "STOP"} => name[i] = Name[c])
<1>1. Serves(c, i)
  BY DEF SessionInv, SlotHasOneHandler
<1>2. ASSUME name[i] \notin {NoName, "STOP"}
      PROVE  name[i] = Name[c]
  <2>1. handler[c] \notin Unnamed \cup {"none"}
    BY <1>1, <1>2 DEF SessionInv, NoNameIsLeft
  <2>2. handler[c] \notin {"none", "left", "done"} /\ client_idx[c] = i
    BY <1>1, <2>1 DEF Serves, SessionInv, MainHolds
  <2>3. handler[c] \in Named
    BY <2>1, <2>2
    DEF TypeInv, HandlersTyped, Serving, Unnamed, Named, NameComesFirst, NameFirst
  <2> QED
    BY <1>2, <2>2, <2>3 DEF NameComesFirst, NameFirst, IsCalled
<1> QED
  BY <1>1, <1>2

LEMMA ChatIsSignedNext ==
  ASSUME SessionInv, TypeInv, OwnLines, NameComesFirst, ChatIsSigned, Next,
         timed_out' = {}
  PROVE  ChatIsSigned'
<1>1. \A m : Say(m).kind = m
  BY DEF Say
<1>2. CASE outbox' = outbox
  BY <1>2 DEF ChatIsSigned
<1>3. ASSUME NEW m \in {"OK", "ERROR", "text", "ALIVE"}, NEW Who,
             OutboxGains(Say(m), Who)
      PROVE  ChatIsSigned'
  <2>1. Say(m).kind # "chat"
    BY <1>1, <1>3
  <2> QED
    BY <1>3, <2>1, GainsSigned DEF MaySee
<1>4. CASE MainStep \/ ShutDown \/ CheckerStep
  BY <1>2, <1>3, <1>4, ServerWrites
<1>5. ASSUME NEW h \in Clients, HandlerStep(h)
      PROVE  ChatIsSigned'
  <2>1. ASSUME handler[h] = "execute", buffer[h].text \in Chat
        PROVE  /\ Signed(h).from = Name[h] /\ Signed(h).by = h
               /\ Signed(h).to = buffer[h].to
               /\ Serves(h, client_idx[h]) /\ client_idx[h] \in Slots
               /\ Proper(buffer[h], h)
    <3>1. name[client_idx[h]] = Name[h]
      <4>1. IsCalled(h) /\ buffer[h] # None
        BY <2>1 DEF NameComesFirst, NameFirst, Named, TypeInv, HandlersTyped
      <4> QED
        BY <2>1, <4>1 DEF IsCalled, Silent
    <3>2. Proper(buffer[h], h)
      BY <2>1 DEF OwnLines, TypeInv, HandlersTyped
    <3>3. Serves(h, client_idx[h]) /\ client_idx[h] \in Slots
      BY <2>1 DEF Serves, TypeInv, HandlersTyped
    <3> QED
      BY <3>1, <3>2, <3>3 DEF Signed, Proper
  <2>2. CASE ToAll(h) /\ OutboxGains(Signed(h), Holders(ActiveBut(client_idx[h])))
    <3>1. /\ handler[h] = "execute" /\ buffer[h].text = "2ALL"
          /\ buffer[h].text \in Chat
      BY <2>2 DEF ToAll, Chat
    <3>2. Signed(h).to = NoName
      BY <2>1, <3>1 DEF Proper
    <3>3. h \notin Holders(ActiveBut(client_idx[h]))
      <4>1. ASSUME NEW i \in Slots, active[i], i # client_idx[h]
            PROVE  files[sockfd[i]] # h
        BY <2>1, <3>1, <4>1, OneSlot, SlotNameIsOwn
      <4> QED
        BY <4>1 DEF Holders, ActiveBut
    <3> QED
      BY <2>1, <2>2, <3>1, <3>2, <3>3, GainsSigned DEF MaySee
  <2>3. ASSUME ToOne(h), NEW i \in Slots, active[i], name[i] = buffer[h].to,
               OutboxGains(Signed(h), Holder(sockfd[i]))
        PROVE  ChatIsSigned'
    <3>1. /\ handler[h] = "execute" /\ buffer[h].text = "2ONE"
          /\ buffer[h].text \in Chat
      BY <2>3 DEF ToOne, Chat
    <3>2. Signed(h).to = name[i] /\ name[i] \in Names
      BY <2>1, <2>3, <3>1 DEF Proper
    <3>3. name[i] \notin {NoName, "STOP"}
      BY <3>2, ChatTcpAssumption DEF Names
    <3>4. \A c \in Holder(sockfd[i]) : name[i] = Name[c]
      BY <2>3, <3>3, SlotNameIsOwn DEF Holder
    <3> QED
      BY <2>1, <2>3, <3>1, <3>2, <3>3, <3>4, GainsSigned DEF MaySee
  <2> QED
    BY <1>2, <1>3, <1>5, <2>2, <2>3, HandlerWrites
<1>6. ASSUME NEW d \in Clients, ClientStep(d) \/ UserStep(d)
      PROVE  ChatIsSigned'
  <2>1. CASE outbox' = [outbox EXCEPT ![d] = <<>>]
    BY <2>1 DEF ChatIsSigned, TypeInv, StreamsTyped
  <2>2. ASSUME NEW n \in 1 .. Len(outbox[d]),
               outbox' = [outbox EXCEPT ![d] = SubSeq(@, n + 1, Len(@))]
        PROVE  ChatIsSigned'
    <3>1. /\ Len(outbox'[d]) = Len(outbox[d]) - n /\ Len(outbox[d]) \in Nat
          /\ \A k \in 1 .. Len(outbox[d]) - n : outbox'[d][k] = outbox[d][k + n]
          /\ \A c \in Clients \ {d} : outbox'[c] = outbox[c]
      BY <2>2, ReadsSome
    <3>2. ASSUME NEW k \in 1 .. Len(outbox'[d])
          PROVE  MaySee(d, outbox'[d][k])
      <4>1. k + n \in 1 .. Len(outbox[d]) /\ outbox'[d][k] = outbox[d][k + n]
        BY <3>1
      <4> QED
        BY <4>1 DEF ChatIsSigned
    <3> QED
      BY <3>1, <3>2 DEF ChatIsSigned
  <2> QED
    BY <1>2, <1>6, <2>1, <2>2
    DEF ClientStep, WriteName, GetReply, Receive, ConnectionEnds, UserStep, Connect,
        TypeLine, TypeNothing, EndInput, CtrlC
<1> QED
  BY <1>4, <1>5, <1>6 DEF Next

-----------------------------------------------------------------------------
(* Nothing is lost but what ignored records.                                *)
LEMMA HandlerStopIsPending ==
  ASSUME SessionInv, TypeInv, OwnLines, EndsAreClosed, NameComesFirst,
         StopIsPending, NEW h \in Clients, HandlerStep(h), flag[h],
         h \notin ignored', client[h] # "gone", handler'[h] \in Attending
  PROVE  StopComes(h)'
<1>1. CASE ReadReturns(h)
  <2>1. /\ handler[h] \in {"wait_name", "wait"} /\ handler[h] \in Serving
        /\ reading[h] = h
    BY <1>1 DEF ReadReturns, Serving, TypeInv, HandlersTyped, OwnLines
  <2>2. inbox[h] # <<>>
    <3>1. inbox[h] = <<>> => Len(inbox[h]) = 0
      OBVIOUS
    <3> QED
      BY <1>1, <2>1, <3>1, NameIsThere DEF ReadReturns
  <2>3. PICK n \in 1 .. Len(inbox[h]) :
          /\ buffer' = [buffer EXCEPT ![h] = inbox[h][1]]
          /\ Len(inbox[h]) \in Nat \ {0} /\ Len(inbox'[h]) = Len(inbox[h]) - n
          /\ \A k \in 1 .. Len(inbox[h]) - n :
               \/ inbox'[h][k] = inbox[h][k + n]
               \/ /\ inbox'[h][k].text = "rest" /\ inbox'[h][k].by = h
                  /\ inbox[h][k + n].text = "STOP" => h \in ignored'
          /\ ignored \subseteq ignored'
          /\ \A k \in 1 .. n : inbox[h][k].text = "STOP" =>
               h \in ignored' \/ (k = 1 /\ handler[h] = "wait")
          /\ handler' = [handler EXCEPT ![h] = HasLine(handler[h])]
    BY <1>1, <2>2, TakesLine
  <2>4. StopComes(h) /\ handler[h] \notin {"refresh", "execute"}
    BY <2>1, <2>3 DEF StopIsPending, Attending, Arriving, Named
  <2>5. PICK k \in 1 .. Len(inbox[h]) : inbox[h][k].text = "STOP"
    BY <2>4 DEF StopComes, StopWaits
  <2>6. CASE k \in 1 .. n
    <3>1. k = 1 /\ handler[h] = "wait"
      BY <2>3, <2>5, <2>6
    <3>2. buffer'[h] = inbox[h][1] /\ handler'[h] = "refresh"
      BY <2>3, <3>1 DEF HasLine, TypeInv, HandlersTyped
    <3> QED
      BY <2>5, <3>1, <3>2 DEF StopComes
  <2>7. CASE k \notin 1 .. n
    <3>1. k - n \in 1 .. Len(inbox[h]) - n /\ (k - n) + n = k
      BY <2>3, <2>7
    <3>2. inbox'[h][k - n] = inbox[h][k] /\ k - n \in 1 .. Len(inbox'[h])
      BY <2>3, <2>5, <3>1
    <3> QED
      BY <2>5, <3>2 DEF StopComes, StopWaits
  <2> QED
    BY <2>6, <2>7
<1>2. CASE ~ReadReturns(h)
  <2>1. inbox' = inbox /\ ignored' = ignored
    BY <1>2, OnlyReadsTakeLines
  <2>2. /\ handler[h] \in Attending
        /\ \/ handler[h] \notin {"refresh", "execute"}
           \/ buffer[h].text # "STOP"
           \/ handler'[h] = "execute" /\ buffer' = buffer
    BY <1>2
    DEF HandlerStep, CallRead, RefuseName, TakeName, Welcome, AnnounceJoin,
        Refresh, ToAll, ToOne, Respond, Stop, RemoveClient, AnnounceLeft, Goes,
        Waiting, NothingToRead, TypeInv, HandlersTyped, Named, Attending, Arriving
  <2>3. StopComes(h)
    BY <2>1, <2>2 DEF StopIsPending
  <2> QED
    BY <2>1, <2>2, <2>3 DEF StopComes
<1> QED
  BY <1>1, <1>2

LEMMA ClientStopIsPending ==
  ASSUME TypeInv, StopIsPending, NEW c \in Clients, ClientStep(c) \/ UserStep(c),
         flag'[c], c \notin ignored', client'[c] # "gone"
  PROVE  client'[c] # "start" /\ (handler'[c] \in Attending => StopComes(c)')
<1>1. /\ UNCHANGED <<handler, buffer>> /\ ignored \subseteq ignored'
      /\ client'[c] = "start" => client[c] = "start"
  BY ClientFrame
<1>2. ~ConnectionEnds(c) /\ client[c] # "gone"
  BY DEF ClientStep, WriteName, GetReply, Receive, ConnectionEnds, UserStep, Connect,
         Reads, TypeLine, TypeNothing, EndInput, CtrlC, TypeInv, UsersTyped
<1>3. CASE flag[c]
  <2>1. client[c] # "start" /\ (handler[c] \in Attending => StopComes(c))
    BY <1>1, <1>2, <1>3 DEF StopIsPending
  <2>2. StopWaits(inbox[c]) => StopWaits(inbox'[c])
    <3>1. ASSUME NEW l \in Lines, Writes(c, l)
          PROVE  StopWaits(inbox[c]) => StopWaits(inbox'[c])
      <4>1. /\ Len(inbox[c]) \in Nat /\ Len(inbox'[c]) = Len(inbox[c]) + 1
            /\ \A k \in 1 .. Len(inbox[c]) : inbox'[c][k] = inbox[c][k]
        BY <3>1, StreamGrows
      <4> QED
        BY <4>1 DEF StopWaits
    <3>2. inbox' = inbox \/ \E l \in Lines : Writes(c, l)
      BY <1>2, ClientLines
    <3> QED
      BY <3>1, <3>2
  <2> QED
    BY <1>1, <2>1, <2>2 DEF StopComes
<1>4. CASE ~flag[c]
  <2>1. /\ client[c] # "start" /\ Writes(c, Line("STOP", NoName, c))
    BY <1>4
    DEF ClientStep, WriteName, GetReply, Receive, ConnectionEnds, UserStep, Connect,
        Reads, TypeLine, TypeNothing, EndInput, CtrlC, TypeInv, UsersTyped
  <2>2. PICK l \in Lines : l.text = "STOP" /\ Writes(c, l)
    BY <2>1, LinesWritten DEF Line
  <2>3. /\ Len(inbox[c]) \in Nat /\ Len(inbox'[c]) = Len(inbox[c]) + 1
        /\ inbox'[c][Len(inbox[c]) + 1] = l
    BY <2>2, StreamGrows
  <2>4. Len(inbox[c]) + 1 \in 1 .. Len(inbox'[c])
    BY <2>3
  <2> QED
    BY <1>1, <2>1, <2>2, <2>3, <2>4 DEF StopComes, StopWaits
<1> QED
  BY <1>3, <1>4 DEF TypeInv, UsersTyped

LEMMA StopIsPendingNext ==
  ASSUME SessionInv, TypeInv, OwnLines, EndsAreClosed, NameComesFirst,
         StopIsPending, Next, timed_out' = {}
  PROVE  StopIsPending'
<1>1. ASSUME NEW c \in Clients, flag'[c] = flag[c], client'[c] = client[c],
             inbox'[c] = inbox[c], ignored \subseteq ignored',
             \/ handler'[c] = handler[c] /\ buffer'[c] = buffer[c]
             \/ handler[c] = "none" /\ handler'[c] = "read_name"
             \/ handler'[c] = "done"
      PROVE  flag'[c] /\ c \notin ignored' /\ client'[c] # "gone" =>
               client'[c] # "start" /\ (handler'[c] \in Attending => StopComes(c)')
  BY <1>1 DEF StopIsPending, StopComes, Attending, Arriving, Named
<1>2. CASE MainStep
  <2>1. UNCHANGED <<buffer, inbox, ignored, client, flag>>
    BY <1>2, MainFrame DEF users
  <2>2. \A c \in Clients :
          \/ handler'[c] = handler[c]
          \/ handler[c] = "none" /\ handler'[c] = "read_name"
    BY <1>2, MainFrame DEF StartHandler, TypeInv, MainTyped, HandlersTyped
  <2> QED
    BY <1>1, <2>1, <2>2 DEF StopIsPending
<1>3. CASE ShutDown
  <2>1. /\ UNCHANGED <<inbox, ignored, client, flag>>
        /\ \A c \in Clients : handler'[c] = "done"
    BY <1>3 DEF ShutDown
  <2> QED
    BY <1>1, <2>1 DEF StopIsPending
<1>4. CASE CheckerStep
  <2>1. UNCHANGED <<handler, buffer, inbox, ignored, client, flag>>
    BY <1>4, CheckerFrame DEF handlers
  <2> QED
    BY <1>1, <2>1 DEF StopIsPending
<1>5. ASSUME NEW h \in Clients, HandlerStep(h)
      PROVE  StopIsPending'
  <2>1. UNCHANGED <<client, flag>>
    BY <1>5, HandlerFrame DEF users
  <2>2. ASSUME NEW c \in Clients, c # h
        PROVE  /\ inbox'[c] = inbox[c] /\ handler'[c] = handler[c]
               /\ buffer'[c] = buffer[c] /\ ignored \subseteq ignored'
    BY <1>5, <2>2, HandlerMoves, OthersLines
  <2>3. ASSUME flag'[h], h \notin ignored', client'[h] # "gone"
        PROVE  client'[h] # "start" /\ (handler'[h] \in Attending => StopComes(h)')
    <3>1. flag[h] /\ client[h] # "gone"
      BY <2>1, <2>3
    <3>2. client[h] # "start"
      <4>1. CASE handler[h] \in Serving
        BY <4>1, NameIsThere
      <4>2. CASE handler[h] \notin Serving
        <5>1. inbox' = inbox /\ ignored' = ignored
          BY <1>5, <4>2, OnlyReadsTakeLines DEF ReadReturns, Serving
        <5> QED
          BY <2>3, <3>1, <5>1 DEF StopIsPending
      <4> QED
        BY <4>1, <4>2
    <3> QED
      BY <1>5, <2>1, <2>3, <3>1, <3>2, HandlerStopIsPending
  <2> QED
    BY <1>1, <2>1, <2>2, <2>3 DEF StopIsPending
<1>6. ASSUME NEW d \in Clients, ClientStep(d) \/ UserStep(d)
      PROVE  StopIsPending'
  <2>1. /\ UNCHANGED <<buffer, handler>> /\ ignored \subseteq ignored'
        /\ \A c \in Clients \ {d} : client'[c] = client[c] /\ inbox'[c] = inbox[c]
    BY <1>6, ClientFrame, ClientLines DEF TypeInv, UsersTyped
  <2>2. \A c \in Clients \ {d} : flag'[c] = flag[c]
    BY <1>6
    DEF ClientStep, WriteName, GetReply, Receive, ConnectionEnds, UserStep, Connect,
        TypeLine, TypeNothing, EndInput, CtrlC, TypeInv, UsersTyped
  <2> QED
    BY <1>1, <1>6, <2>1, <2>2, ClientStopIsPending DEF StopIsPending
<1> QED
  BY <1>2, <1>3, <1>4, <1>5, <1>6 DEF Next

-----------------------------------------------------------------------------
(* Probes are answered, or counted.                                         *)
LEMMA AliveIsSaid ==
  ASSUME NEW m \in Messages, m.kind = "ALIVE"
  PROVE  m = Say("ALIVE")
<1>1. m \in [kind : {"OK", "ERROR", "text", "ALIVE"}]
  BY DEF Messages
<1>2. PICK k \in {"OK", "ERROR", "text", "ALIVE"} : m = [kind |-> k]
  BY <1>1
<1>3. k = "ALIVE"
  BY <1>2
<1> QED
  BY <1>2, <1>3 DEF Say

LEMMA FreshStays ==
  ASSUME TypeInv, TypeInv', NEW c \in Clients, Fresh(c),
         inbox[c] # <<>> => inbox'[c] # <<>>,
         handler[c] = "refresh" => handler'[c] = "refresh",
         swallowed'[c] = swallowed[c],
         age'[client_idx'[c]] = age[client_idx[c]],
         Probed(c) => Probed(c)'
  PROVE  Fresh(c)'
<1>1. Fresh(c)' <=> \/ inbox'[c] # <<>> \/ handler'[c] = "refresh"
                    \/ swallowed'[c] >= CLIENT_TIMEOUT
                    \/ age'[client_idx'[c]] <= swallowed'[c]
                    \/ age'[client_idx'[c]] <= swallowed'[c] + 1 /\ Probed(c)'
  BY DEF Fresh, Probed
<1> QED
  BY <1>1 DEF Fresh

(* One more probe is counted as swallowed.                                  *)
LEMMA FreshCounts ==
  ASSUME TypeInv, NEW c \in Clients, Fresh(c),
         UNCHANGED <<inbox, handler, age, client_idx>>,
         swallowed' = [swallowed EXCEPT ![c] = OneMore(@)]
  PROVE  Fresh(c)'
<1>1. /\ swallowed[c] \in Nat /\ CLIENT_TIMEOUT \in Nat
      /\ age[client_idx[c]] \in Nat /\ DOMAIN swallowed = Clients
  BY ChatTcpAssumption
  DEF TypeInv, UsersTyped, TableTyped, HandlersTyped, Stale
<1>2. swallowed'[c] = OneMore(swallowed[c])
  BY <1>1
<1>3. swallowed'[c] >= CLIENT_TIMEOUT \/ swallowed'[c] = swallowed[c] + 1
  BY <1>1, <1>2 DEF OneMore
<1>4. \/ inbox[c] # <<>> \/ handler[c] = "refresh"
      \/ swallowed[c] >= CLIENT_TIMEOUT
      \/ age[client_idx[c]] <= swallowed[c] + 1
  BY <1>1 DEF Fresh
<1>5. \/ inbox'[c] # <<>> \/ handler'[c] = "refresh"
      \/ swallowed'[c] >= CLIENT_TIMEOUT
      \/ age'[client_idx'[c]] <= swallowed'[c]
  BY <1>1, <1>3, <1>4
<1> QED
  BY <1>5 DEF Fresh

(* A probe that is not among the first n messages stays.                    *)
LEMMA StillTold ==
  ASSUME TypeInv, NEW c \in Clients, NEW n \in 1 .. Len(outbox[c]),
         outbox' = [outbox EXCEPT ![c] = SubSeq(@, n + 1, Len(@))],
         \A k \in 1 .. n : outbox[c][k] # Say("ALIVE"),
         Told(outbox[c], "ALIVE")
  PROVE  Told(outbox'[c], "ALIVE")
<1>1. /\ Len(outbox'[c]) = Len(outbox[c]) - n /\ Len(outbox[c]) \in Nat
      /\ \A k \in 1 .. Len(outbox[c]) - n : outbox'[c][k] = outbox[c][k + n]
  BY ReadsSome
<1>2. PICK k \in 1 .. Len(outbox[c]) : outbox[c][k].kind = "ALIVE"
  BY DEF Told
<1>3. outbox[c][k] = Say("ALIVE")
  <2>1. outbox[c][k] \in Messages
    BY DEF TypeInv, StreamsTyped
  <2> QED
    BY <1>2, <2>1, AliveIsSaid
<1>4. k \notin 1 .. n
  BY <1>3
<1>5. k - n \in 1 .. Len(outbox[c]) - n /\ (k - n) + n = k
  BY <1>1, <1>4
<1>6. k - n \in 1 .. Len(outbox'[c]) /\ outbox'[c][k - n].kind = "ALIVE"
  BY <1>1, <1>2, <1>5
<1> QED
  BY <1>6 DEF Told

LEMMA WritesSomething ==
  ASSUME TypeInv, NEW c \in Clients, NEW l \in Lines, Writes(c, l)
  PROVE  inbox'[c] # <<>>
<1>1. inbox \in [Clients -> Seq(Lines)] /\ Len(inbox[c]) \in Nat
  BY DEF TypeInv, StreamsTyped
<1>2. Len(inbox'[c]) = Len(inbox[c]) + 1
  BY <1>1, WritesType
<1> QED
  BY <1>1, <1>2

(* The period ends with every probe answered.                               *)
LEMMA WakeUpFresh ==
  ASSUME TypeInv, OwnLines, ProbesAreCounted, WakeUp,
         NEW c \in Clients, handler'[c] \in Named
  PROVE  Fresh(c)'
<1>1. UNCHANGED <<handler, client_idx, inbox, swallowed>> /\ checker' = "scan"
  BY DEF WakeUp, handlers
<1>2. handler[c] = "wait" /\ inbox[c] = <<>>
  <2>1. Settled(c) /\ handler[c] \in Named
    BY <1>1 DEF WakeUp, PeriodIsOver
  <2>2. handler[c] = "wait" /\ inbox[reading[c]] = <<>>
    BY <2>1 DEF Settled, Named
  <2>3. reading[c] = c
    BY <2>2 DEF TypeInv, HandlersTyped, OwnLines
  <2> QED
    BY <2>2, <2>3
<1>3. ~Probed(c)
  <2>1. \A k \in DOMAIN outbox[c] : outbox[c][k] # Say("ALIVE")
    BY DEF WakeUp, PeriodIsOver
  <2>2. \A k \in 1 .. Len(outbox[c]) : outbox[c][k] \in Messages /\ k \in DOMAIN outbox[c]
    BY DEF TypeInv, StreamsTyped
  <2>3. ~Told(outbox[c], "ALIVE")
    BY <2>1, <2>2, AliveIsSaid DEF Told
  <2> QED
    BY <2>3 DEF Probed, WakeUp
<1>4. swallowed[c] >= CLIENT_TIMEOUT \/ age[client_idx[c]] <= swallowed[c]
  BY <1>1, <1>2, <1>3 DEF ProbesAreCounted, Fresh
<1>5. /\ age[client_idx[c]] \in Nat /\ swallowed[c] \in Nat /\ client_idx[c] \in Slots
      /\ age[client_idx[c]] <= Stale /\ Stale \in Nat
  BY ChatTcpAssumption
  DEF TypeInv, TableTyped, HandlersTyped, UsersTyped, Stale
<1>6. age'[client_idx[c]] \in Nat /\ age'[client_idx[c]] <= age[client_idx[c]] + 1
  BY <1>5 DEF WakeUp
<1>7. \/ swallowed'[c] >= CLIENT_TIMEOUT
      \/ age'[client_idx'[c]] <= swallowed'[c] + 1 /\ checker' = "scan"
  BY <1>1, <1>4, <1>5, <1>6
<1> QED
  BY <1>7 DEF Fresh, Probed

(* The checker probes everybody that is served.                             *)
LEMMA ScanFresh ==
  ASSUME SessionInv, TypeInv, TypeInv', EndsAreClosed, ProbesAreCounted, Scan,
         timed_out' = {}, NEW c \in Clients, handler'[c] \in Named
  PROVE  Fresh(c)'
<1>1. UNCHANGED <<handler, client_idx, inbox, swallowed, age>> /\ next_slot = 0
  BY CheckerFrame DEF CheckerStep, Scan, handlers, ProbesAreCounted
<1>2. handler[c] \in Serving
  BY <1>1 DEF Serving, Named
<1>3. active[client_idx[c]] /\ files[Fd(c)] = c /\ client[c] # "gone"
  BY <1>2, ServedIsNotShut DEF EndsAreClosed
<1>4. client_idx[c] \in {j \in next_slot .. MAX_CLIENTS - 1 : active[j]}
  BY <1>1, <1>3 DEF TypeInv, HandlersTyped, Slots
<1>5. c \in Holders({j \in next_slot .. MAX_CLIENTS - 1 : active[j]})
  BY <1>3, <1>4 DEF Holders, Fd
<1>6. OutboxGains(Say("ALIVE"),
                  Holders({j \in next_slot .. MAX_CLIENTS - 1 : active[j]}))
  <2>1. ASSUME NEW S, NEW x PROVE timed_out' # S \cup {x}
    <3>1. x \in S \cup {x} /\ x \notin timed_out'
      OBVIOUS
    <3> QED
      BY <3>1
  <2>2. WriteSlots({j \in next_slot .. MAX_CLIENTS - 1 : active[j]}, Say("ALIVE"))
    BY <2>1 DEF Scan
  <2>3. {j \in next_slot .. MAX_CLIENTS - 1 : active[j]} \in SUBSET Slots
    BY <1>1 DEF Slots
  <2>4. outbox \in [Clients -> Seq(Messages)] /\ Say("ALIVE") \in Messages
    BY SaidAreMessages DEF TypeInv, StreamsTyped
  <2> QED
    BY <2>2, <2>3, <2>4, WriteSlotsGains
<1>7. Told(outbox'[c], "ALIVE")
  <2>1. Say("ALIVE").kind = "ALIVE"
    BY DEF Say
  <2> QED
    BY <1>5, <1>6, <2>1, GainsTold
<1>8. Probed(c)'
  BY <1>7 DEF Probed
<1>9. Fresh(c)
  BY <1>1 DEF ProbesAreCounted
<1> QED
  BY <1>1, <1>8, <1>9, FreshStays

(* A handler's step leaves the others' slots and streams alone.             *)
LEMMA OthersFresh ==
  ASSUME SessionInv, TypeInv, TypeInv', OwnLines, NEW h \in Clients, HandlerStep(h),
         NEW c \in Clients \ {h}, handler[c] \in Named, Fresh(c)
  PROVE  Fresh(c)'
<1>1. UNCHANGED <<client_idx, checker, swallowed>>
  BY HandlerFrame DEF checkers, users
<1>2. handler'[c] = handler[c]
  BY HandlerMoves
<1>3. inbox'[c] = inbox[c]
  BY OthersLines
<1>4. age'[client_idx[c]] = age[client_idx[c]]
  <2>1. age' = age \/ (handler[h] \in Serving /\ age' = [age EXCEPT ![client_idx[h]] = 0])
    BY DEF HandlerStep, CallRead, ReadReturns, RefuseName, TakeName, Welcome,
           AnnounceJoin, Refresh, ToAll, ToOne, Respond, Stop, RemoveClient,
           AnnounceLeft, Serving, table
  <2>2. ASSUME handler[h] \in Serving
        PROVE  client_idx[c] # client_idx[h]
    <3>1. client_idx[c] \in Slots /\ Serves(c, client_idx[c]) /\ Serves(h, client_idx[h])
      BY <2>2 DEF TypeInv, HandlersTyped, Serves, Serving, Named
    <3> QED
      BY <3>1, OwnSlot
  <2> QED
    BY <2>1, <2>2 DEF TypeInv, TableTyped, HandlersTyped
<1>5. Told(outbox[c], "ALIVE") => Told(outbox'[c], "ALIVE")
  BY HandlerWrites, GainsTold
<1>6. Probed(c) => Probed(c)'
  BY <1>1, <1>5 DEF Probed
<1> QED
  BY <1>1, <1>2, <1>3, <1>4, <1>6, FreshStays

(* A handler that has read something or stored the time is up to date.      *)
LEMMA OwnFresh ==
  ASSUME SessionInv, TypeInv, TypeInv', OwnLines, ProbesAreCounted,
         NEW h \in Clients, HandlerStep(h), handler'[h] \in Named
  PROVE  Fresh(h)'
<1>1. UNCHANGED <<client_idx, checker, swallowed>>
  BY HandlerFrame DEF checkers, users
<1>2. CASE TakeName(h) \/ Refresh(h)
  <2>1. age'[client_idx[h]] = 0
    BY <1>2 DEF TakeName, Refresh, TypeInv, TableTyped, HandlersTyped
  <2>2. age'[client_idx'[h]] <= swallowed'[h]
    BY <1>1, <2>1, ChatTcpAssumption DEF TypeInv, UsersTyped
  <2> QED
    BY <2>2 DEF Fresh
<1>3. CASE ~(TakeName(h) \/ Refresh(h))
  <2>1. handler[h] \in Named /\ handler[h] # "refresh" /\ Fresh(h)
    <3>1. handler[h] \in Named
      BY <1>3, HandlerMoves
    <3>2. handler[h] # "refresh"
      BY <1>3
      DEF HandlerStep, CallRead, ReadReturns, RefuseName, TakeName, Welcome,
          AnnounceJoin, Refresh, ToAll, ToOne, Respond, Stop, RemoveClient,
          AnnounceLeft
    <3> QED
      BY <3>1, <3>2 DEF ProbesAreCounted
  <2>2. age' = age
    BY <1>3
    DEF HandlerStep, CallRead, ReadReturns, RefuseName, TakeName, Welcome,
        AnnounceJoin, Refresh, ToAll, ToOne, Respond, Stop, RemoveClient,
        AnnounceLeft, table
  <2>3. Probed(h) => Probed(h)'
    <3>1. Told(outbox[h], "ALIVE") => Told(outbox'[h], "ALIVE")
      BY HandlerWrites, GainsTold
    <3> QED
      BY <1>1, <3>1 DEF Probed
  <2>4. CASE inbox' = inbox
    BY <1>1, <2>1, <2>2, <2>3, <2>4, FreshStays
  <2>5. CASE inbox' # inbox
    <3>1. ReadReturns(h) /\ reading[h] = h /\ inbox[h] # <<>>
      <4>1. ReadReturns(h)
        BY <2>5, OnlyReadsTakeLines
      <4>2. reading[h] = h
        BY <4>1 DEF ReadReturns, TypeInv, HandlersTyped, OwnLines
      <4> QED
        BY <2>5, <4>1, <4>2 DEF ReadReturns
    <3>2. handler' = [handler EXCEPT ![h] = HasLine(handler[h])]
      BY <3>1, TakesLine
    <3>3. handler[h] = "wait"
      BY <2>1, <3>1 DEF ReadReturns, Named
    <3>4. handler'[h] = "refresh"
      BY <3>2, <3>3 DEF HasLine, TypeInv, HandlersTyped
    <3> QED
      BY <3>4 DEF Fresh
  <2> QED
    BY <2>4, <2>5
<1> QED
  BY <1>2, <1>3

(* A client answers a probe, reads it behind something else, or leaves it.  *)
LEMMA ClientFresh ==
  ASSUME SessionInv, TypeInv, TypeInv', EndsAreClosed, NEW c \in Clients,
         ClientStep(c) \/ UserStep(c), handler[c] \in Named, Fresh(c)
  PROVE  Fresh(c)'
<1>1. UNCHANGED <<handler, client_idx, age, checker>>
  BY ClientFrame DEF table, checkers
<1>2. ~Shut(c) /\ main # "off" /\ ~Told(outbox[c], "ERROR")
  BY ServedIsNotShut DEF EndsAreClosed, Serving, Named
<1>3. ASSUME \E l \in Lines : Writes(c, l)
      PROVE  Fresh(c)'
  BY <1>3, WritesSomething DEF Fresh
<1>4. outbox[c] \in Seq(Messages) /\ Len(outbox[c]) \in Nat
  BY DEF TypeInv, StreamsTyped
<1>5. ASSUME NEW n \in 1 .. Len(outbox[c]), inbox' = inbox,
             outbox' = [outbox EXCEPT ![c] = SubSeq(@, n + 1, Len(@))],
             \/ swallowed' = [swallowed EXCEPT ![c] = OneMore(@)]
             \/ /\ \A k \in 1 .. n : outbox[c][k] # Say("ALIVE")
                /\ swallowed'[c] = swallowed[c]
      PROVE  Fresh(c)'
  <2>1. CASE swallowed' = [swallowed EXCEPT ![c] = OneMore(@)]
    BY <1>1, <1>5, <2>1, FreshCounts
  <2>2. CASE /\ \A k \in 1 .. n : outbox[c][k] # Say("ALIVE")
             /\ swallowed'[c] = swallowed[c]
    <3>1. Probed(c) => Probed(c)'
      BY <1>1, <1>5, <2>2, StillTold DEF Probed
    <3> QED
      BY <1>1, <1>5, <2>2, <3>1, FreshStays
  <2> QED
    BY <1>5, <2>1, <2>2
<1>6. CASE GetReply(c)
  <2>1. PICK n \in 1 .. Len(outbox[c]) :
          \/ Head(outbox[c]) = Say("ERROR")
          \/ /\ outbox' = [outbox EXCEPT ![c] = SubSeq(@, n + 1, Len(@))]
             /\ swallowed' = [swallowed EXCEPT ![c] =
                  IF \E k \in 1..n : outbox[c][k] = Say("ALIVE") THEN OneMore(@) ELSE @]
    BY <1>6 DEF GetReply
  <2>2. Head(outbox[c]) # Say("ERROR")
    <3>1. 1 \in 1 .. Len(outbox[c]) /\ Head(outbox[c]) = outbox[c][1]
      BY <1>4
    <3> QED
      BY <1>2, <3>1 DEF Told, Say
  <2>3. inbox' = inbox
    BY <1>6 DEF GetReply
  <2>4. CASE \E k \in 1 .. n : outbox[c][k] = Say("ALIVE")
    BY <1>5, <2>1, <2>2, <2>3, <2>4
  <2>5. CASE ~ \E k \in 1 .. n : outbox[c][k] = Say("ALIVE")
    <3>1. swallowed'[c] = swallowed[c]
      BY <2>1, <2>2, <2>5 DEF TypeInv, UsersTyped
    <3> QED
      BY <1>5, <2>1, <2>2, <2>3, <2>5, <3>1
  <2> QED
    BY <2>4, <2>5
<1>7. CASE Receive(c)
  <2>1. PICK n \in 1 .. Len(outbox[c]) :
          /\ outbox' = [outbox EXCEPT ![c] = SubSeq(@, n + 1, Len(@))]
          /\ Swallows(c, n)
    BY <1>7 DEF Receive
  <2>2. CASE Head(outbox[c]) = Say("ALIVE")
    BY <1>3, <1>7, <2>2, LinesWritten DEF Receive
  <2>3. CASE Head(outbox[c]) # Say("ALIVE")
    <3>1. inbox' = inbox
      BY <1>7, <2>3 DEF Receive
    <3>2. CASE Hides(c, n)
      BY <1>5, <2>1, <2>3, <3>1, <3>2 DEF Swallows
    <3>3. CASE ~Hides(c, n)
      <4>1. swallowed'[c] = swallowed[c]
        BY <2>1, <2>3, <3>3 DEF Swallows, TypeInv, UsersTyped
      <4>2. ASSUME NEW k \in 1 .. n PROVE outbox[c][k] # Say("ALIVE")
        <5>1. k = 1 \/ k \in 2 .. n
          OBVIOUS
        <5>2. Head(outbox[c]) = outbox[c][1]
          BY <1>4
        <5> QED
          BY <2>3, <3>3, <5>1, <5>2 DEF Hides
      <4> QED
        BY <1>5, <2>1, <3>1, <4>1, <4>2
    <3> QED
      BY <3>2, <3>3
  <2> QED
    BY <2>2, <2>3
<1>8. CASE ConnectionEnds(c)
  BY <1>2, <1>8 DEF ConnectionEnds, Closed, Shut
<1>9. CASE WriteName(c) \/ (UserStep(c) /\ ~TypeNothing(c))
  <2>1. client[c] # "start"
    BY NameIsThere DEF Serving, Named
  <2>2. \E l \in Lines : Writes(c, l)
    BY <1>9, <2>1, LinesWritten DEF WriteName, UserStep, Connect, TypeLine, EndInput, CtrlC
  <2> QED
    BY <1>3, <2>2
<1>10. CASE TypeNothing(c)
  <2>1. UNCHANGED <<inbox, outbox, swallowed>>
    BY <1>10 DEF TypeNothing
  <2> QED
    BY <1>1, <2>1, FreshStays DEF Probed
<1> QED
  BY <1>6, <1>7, <1>8, <1>9, <1>10 DEF ClientStep

LEMMA ProbesAreCountedNext ==
  ASSUME SessionInv, TypeInv, TypeInv', OwnLines, EndsAreClosed, ProbesAreCounted,
         Next, timed_out' = {}
  PROVE  ProbesAreCounted'
<1>1. checker' # "announce" /\ (checker' = "scan" => next_slot' = 0)
  <2>1. CASE CheckerStep
    <3>1. ASSUME NEW S, NEW x PROVE timed_out' # S \cup {x}
      <4>1. x \in S \cup {x} /\ x \notin timed_out'
        OBVIOUS
      <4> QED
        BY <4>1
    <3> QED
      BY <2>1, <3>1 DEF CheckerStep, WakeUp, Scan, AnnounceTimeout, ProbesAreCounted
  <2>2. CASE ~CheckerStep
    <3>1. UNCHANGED <<checker, next_slot>> \/ checker' = "off"
      BY <2>2, MainFrame, HandlerFrame, ClientFrame DEF Next, checkers, ShutDown
    <3> QED
      BY <3>1 DEF ProbesAreCounted
  <2> QED
    BY <2>1, <2>2
<1>2. ASSUME NEW c \in Clients, handler'[c] \in Named
      PROVE  Fresh(c)'
  <2>1. CASE MainStep
    <3>1. UNCHANGED <<age, checker, inbox, swallowed>>
      BY <2>1, MainFrame DEF checkers, users
    <3>2. handler'[c] = handler[c] /\ client_idx'[c] = client_idx[c]
      BY <1>2, <2>1, MainFrame DEF StartHandler, TypeInv, HandlersTyped, Named
    <3>3. Told(outbox[c], "ALIVE") => Told(outbox'[c], "ALIVE")
      BY <2>1, ServerWrites, GainsTold
    <3>4. Fresh(c)
      BY <1>2, <3>2 DEF ProbesAreCounted
    <3>5. Probed(c) => Probed(c)'
      BY <3>1, <3>3 DEF Probed
    <3> QED
      BY <3>1, <3>2, <3>4, <3>5, FreshStays
  <2>2. CASE ShutDown
    BY <1>2, <2>2 DEF ShutDown, Named
  <2>3. CASE CheckerStep
    BY <1>2, <2>3, WakeUpFresh, ScanFresh
    DEF CheckerStep, AnnounceTimeout, ProbesAreCounted
  <2>4. ASSUME NEW h \in Clients, HandlerStep(h)
        PROVE  Fresh(c)'
    <3>1. CASE c = h
      BY <1>2, <2>4, <3>1, OwnFresh
    <3>2. CASE c # h
      BY <1>2, <2>4, <3>2, HandlerMoves, OthersFresh DEF ProbesAreCounted
    <3> QED
      BY <3>1, <3>2
  <2>5. ASSUME NEW d \in Clients, ClientStep(d) \/ UserStep(d)
        PROVE  Fresh(c)'
    <3>1. UNCHANGED <<handler, client_idx, age, checker>>
      BY <2>5, ClientFrame DEF table, checkers
    <3>2. handler[c] \in Named /\ Fresh(c)
      BY <1>2, <3>1 DEF ProbesAreCounted
    <3>3. CASE c = d
      BY <2>5, <3>2, <3>3, ClientFresh
    <3>4. CASE c # d
      <4>1. inbox'[c] = inbox[c] /\ outbox'[c] = outbox[c]
        BY <2>5, <3>4, ClientLines, ClientTold
      <4>2. swallowed'[c] = swallowed[c]
        BY <2>5, <3>4
        DEF ClientStep, WriteName, GetReply, Receive, Swallows, ConnectionEnds, UserStep,
            Connect, TypeLine, TypeNothing, EndInput, CtrlC, TypeInv, UsersTyped
      <4> QED
        BY <3>1, <3>2, <4>1, <4>2, FreshStays DEF Probed
    <3> QED
      BY <3>3, <3>4
  <2> QED
    BY <2>1, <2>2, <2>3, <2>4, <2>5 DEF Next
<1> QED
  BY <1>1, <1>2 DEF ProbesAreCounted

-----------------------------------------------------------------------------
(* Until the checker closes a connection, all of it holds.                  *)
ServiceInv ==
  /\ OwnLines /\ EndsAreClosed /\ NameComesFirst
  /\ ChatIsSigned /\ StopIsPending /\ ProbesAreCounted

LEMMA InitServiceInv == Init => ServiceInv
<1> SUFFICES ASSUME Init PROVE ServiceInv
  OBVIOUS
<1>1. Len(<<>>) = 0
  OBVIOUS
<1>2. OwnLines /\ ChatIsSigned
  BY <1>1 DEF Init, OwnLines, ChatIsSigned
<1>3. EndsAreClosed
  BY <1>1 DEF Init, EndsAreClosed, Told, Named
<1>4. NameComesFirst /\ StopIsPending
  BY DEF Init, NameComesFirst, NameFirst, StopIsPending, Named
<1>5. ProbesAreCounted
  BY DEF Init, ProbesAreCounted, Named
<1> QED
  BY <1>2, <1>3, <1>4, <1>5 DEF ServiceInv

LEMMA NextServiceInv ==
  ASSUME SessionInv, TypeInv, TypeInv', ServiceInv, [Next]_vars, timed_out' = {}
  PROVE  ServiceInv'
<1>1. CASE Next
  BY <1>1, OwnLinesNext, EndsAreClosedNext, NameComesFirstNext, ChatIsSignedNext,
     StopIsPendingNext, ProbesAreCountedNext DEF ServiceInv
<1>2. CASE UNCHANGED vars
  <2>1. OwnLines' /\ ChatIsSigned'
    BY <1>2
    DEF vars, handlers, ServiceInv, OwnLines, Proper, ChatIsSigned, MaySee
  <2>2. EndsAreClosed'
    BY <1>2
    DEF vars, mainVars, handlers, users, ServiceInv, EndsAreClosed, Shut, Told
  <2>3. NameComesFirst'
    BY <1>2
    DEF vars, table, handlers, users, ServiceInv, NameComesFirst, NameFirst, Opens,
        NameLine, IsCalled, Silent
  <2>4. StopIsPending'
    BY <1>2
    DEF vars, handlers, users, ServiceInv, StopIsPending, StopComes, StopWaits
  <2>5. ProbesAreCounted'
    BY <1>2
    DEF vars, table, handlers, checkers, users, ServiceInv, ProbesAreCounted,
        Fresh, Probed, Told
  <2> QED
    BY <2>1, <2>2, <2>3, <2>4, <2>5 DEF ServiceInv
<1> QED
  BY <1>1, <1>2

LEMMA AlwaysServiceInv ==
  Spec => [](TypeInv /\ (NobodyTimedOut => SessionInv /\ ServiceInv))
<1>1. Init => (NobodyTimedOut => SessionInv /\ ServiceInv)
  BY InitSessionInv, InitServiceInv
<1>2. /\ TypeInv /\ TypeInv' /\ [Next]_vars
      /\ NobodyTimedOut => SessionInv /\ ServiceInv
      => (NobodyTimedOut => SessionInv /\ ServiceInv)'
  BY NextSessionInv, NextServiceInv, TimedOutGrows DEF NobodyTimedOut
<1> QED
  BY <1>1, <1>2, AlwaysTypeInv, PTL DEF Spec

(* A chat line is shown to nobody but whom it is for, not to its author, and*)
(* bears the name of the client that typed it, though handlers read the     *)
(* table without the mutex (server.c:112, 132, 135).                        *)
THEOREM SignaturesCorrect == Spec => []LinesAreSigned
<1>1. TypeInv /\ (NobodyTimedOut => SessionInv /\ ServiceInv) => LinesAreSigned
  <2> SUFFICES ASSUME TypeInv, NobodyTimedOut => SessionInv /\ ServiceInv,
                      NobodyTimedOut,
                      NEW c \in Clients, NEW k \in DOMAIN outbox[c],
                      outbox[c][k].kind = "chat"
               PROVE  /\ outbox[c][k].from = Name[outbox[c][k].by]
                      /\ IF outbox[c][k].to = NoName THEN outbox[c][k].by # c
                                                     ELSE outbox[c][k].to = Name[c]
    BY DEF LinesAreSigned
  <2>1. k \in 1 .. Len(outbox[c])
    BY DEF TypeInv, StreamsTyped
  <2> QED
    BY <2>1 DEF ServiceInv, ChatIsSigned, MaySee
<1> QED
  BY <1>1, AlwaysServiceInv, PTL

(* The first client that the checker closes was still being set up, or had  *)
(* written something that is not executed, or had read too many probes      *)
(* behind other texts (server.c:175, 271; client.c:24).                     *)
THEOREM DropsAreJustified == Spec => DroppedWereSilent
<1>1. ASSUME TypeInv, NobodyTimedOut => SessionInv /\ ServiceInv, [Next]_vars,
             timed_out = {}, NEW c \in timed_out'
      PROVE  \/ handler[c] \in {"none", "read_name", "wait_name", "register"}
             \/ inbox[c] # <<>> \/ handler[c] = "refresh"
             \/ swallowed[c] >= CLIENT_TIMEOUT
  <2>1. SessionInv /\ ServiceInv
    BY <1>1 DEF NobodyTimedOut
  <2>2. checker = "scan" /\ next_slot = 0 /\ Scan
    <3>1. timed_out' = timed_out \/ Scan
      BY <1>1, MainFrame, HandlerFrame, ClientFrame
      DEF Next, vars, checkers, ShutDown, CheckerStep, WakeUp, AnnounceTimeout
    <3> QED
      BY <1>1, <2>1, <3>1 DEF Scan, ServiceInv, ProbesAreCounted
  <2>3. PICK i \in Slots : active[i] /\ age[i] > CLIENT_TIMEOUT /\ files[sockfd[i]] = c
    <3>1. \/ timed_out' = timed_out
          \/ \E i \in 0 .. MAX_CLIENTS - 1 :
               Expired(i) /\ timed_out' = timed_out \cup {files[sockfd[i]]}
      BY <2>2 DEF Scan, First
    <3> QED
      BY <1>1, <3>1 DEF Expired, Slots
  <2>4. Serves(c, i) /\ c \in Clients
    BY <2>1, <2>3 DEF SessionInv, SlotHasOneHandler
  <2>5. CASE handler[c] \in {"none", "read_name", "wait_name", "register"}
    BY <2>5
  <2>6. CASE handler[c] \notin {"none", "read_name", "wait_name", "register"}
    <3>1. handler[c] \in Serving /\ client_idx[c] = i
      BY <2>1, <2>4, <2>6 DEF Serves, SessionInv, MainHolds, Shape
    <3>2. handler[c] # "quit"
      BY <2>1, <2>4 DEF ServiceInv, NameComesFirst, NameFirst
    <3>3. handler[c] \in Named
      BY <2>6, <3>1, <3>2 DEF Serving, Named
    <3>4. Fresh(c)
      BY <2>1, <2>4, <3>3 DEF ServiceInv, ProbesAreCounted
    <3>5. age[i] \in Nat /\ swallowed[c] \in Nat /\ CLIENT_TIMEOUT \in Nat
      BY <1>1, <2>4, ChatTcpAssumption DEF TypeInv, TableTyped, UsersTyped, Stale
    <3> QED
      BY <2>3, <3>1, <3>4, <3>5 DEF Fresh
  <2> QED
    BY <2>5, <2>6
<1>2. TypeInv /\ (NobodyTimedOut => SessionInv /\ ServiceInv) /\ [Next]_vars =>
        (timed_out = {} =>
           \A c \in timed_out' :
             \/ handler[c] \in {"none", "read_name", "wait_name", "register"}
             \/ inbox[c] # <<>> \/ handler[c] = "refresh"
             \/ swallowed[c] >= CLIENT_TIMEOUT)
  BY <1>1
<1> QED
  BY <1>2, AlwaysServiceInv, PTL DEF Spec, DroppedWereSilent

(* When nothing moves, a client that is still there is served: its handler  *)
(* waits for its next line.                                                 *)
LEMMA QuietIsServed ==
  ASSUME TypeInv, SessionInv, ServiceInv, Quiet, NEW c \in Clients,
         client[c] \in {"await", "running"}
  PROVE  handler[c] \in {"wait_name", "wait"} /\ inbox[c] = <<>>
<1>1. main = "accept" /\ Len(backlog) = 0
  BY DEF Quiet
<1>2. c \in accepted
  BY <1>1 DEF ServiceInv, EndsAreClosed
<1>3. PICK i \in Slots : Serves(c, i)
  <2>1. CASE Shut(c)
    <3>1. ~Closed(c)
      BY DEF Quiet
    <3>2. PICK h \in Clients : reading[h] = c
      BY <2>1, <3>1 DEF Closed, Shut
    <3>3. h = c
      BY <3>2, ChatTcpAssumption DEF ServiceInv, OwnLines
    <3>4. handler[c] \in {"wait_name", "wait"}
      BY <3>2, <3>3, ChatTcpAssumption DEF TypeInv, HandlersTyped
    <3> QED
      BY <2>1, <3>4, ServedIsNotShut DEF Serving
  <2>2. CASE ~Shut(c)
    <3>1. PICK f \in Fds : files[f] = c
      BY <1>2, <2>2 DEF Shut
    <3> QED
      BY <1>1, <3>1, OneDescriptor
  <2> QED
    BY <2>1, <2>2
<1>4. handler[c] \notin {"none", "done"}
  BY <1>1, <1>3 DEF Serves
<1>5. handler[c] \in {"wait_name", "wait"} /\ inbox[reading[c]] = <<>>
  BY <1>4 DEF Quiet
<1>6. reading[c] = c
  BY <1>5 DEF TypeInv, HandlersTyped, ServiceInv, OwnLines
<1> QED
  BY <1>5, <1>6

(* Until the first timeout every client that connects is told something:    *)
(* nobody is left waiting for the answer to its name (client.c:110).        *)
THEOREM AnswersCorrect == Spec => []NobodyWaitsInVain
<1>1. TypeInv /\ (NobodyTimedOut => SessionInv /\ ServiceInv) => NobodyWaitsInVain
  <2> SUFFICES ASSUME TypeInv, NobodyTimedOut => SessionInv /\ ServiceInv,
                      Quiet, NobodyTimedOut, NEW c \in Clients,
                      client[c] = "await"
               PROVE  FALSE
    BY DEF NobodyWaitsInVain
  <2>1. SessionInv /\ ServiceInv
    OBVIOUS
  <2>2. handler[c] \in {"wait_name", "wait"} /\ inbox[c] = <<>>
    BY <2>1, QuietIsServed
  <2>3. CASE handler[c] = "wait_name"
    BY <2>1, <2>2, <2>3 DEF ServiceInv, NameComesFirst, NameFirst, Arriving
  <2>4. CASE handler[c] = "wait"
    <3>1. outbox[c] # <<>>
      BY <2>1, <2>4 DEF ServiceInv, EndsAreClosed, Named
    <3> QED
      BY <3>1 DEF Quiet
  <2> QED
    BY <2>2, <2>3, <2>4
<1> QED
  BY <1>1, AlwaysServiceInv, PTL

(* Until the first timeout a client whose user typed STOP or pressed Ctrl+C *)
(* is not served for ever: it ends (server.c:155), unless its STOP was read *)
(* behind another line (server.c:83), taken for its name or cut by the read *)
(* of the name (server.c:53), or not written as there was no socket yet     *)
(* (client.c:73).                                                           *)
THEOREM StopCorrect == Spec => []StopIsObeyed
<1>1. TypeInv /\ (NobodyTimedOut => SessionInv /\ ServiceInv) => StopIsObeyed
  <2> SUFFICES ASSUME TypeInv, NobodyTimedOut => SessionInv /\ ServiceInv,
                      Quiet, NobodyTimedOut, NEW c \in Clients,
                      flag[c], client[c] # "gone", c \notin ignored
               PROVE  FALSE
    BY DEF StopIsObeyed
  <2>1. SessionInv /\ ServiceInv
    OBVIOUS
  <2>2. client[c] \in {"await", "running"}
    BY <2>1 DEF ServiceInv, StopIsPending, TypeInv, UsersTyped, Quiet
  <2>3. handler[c] \in {"wait_name", "wait"} /\ Len(inbox[c]) = 0
    BY <2>1, <2>2, QuietIsServed
  <2>4. StopWaits(inbox[c])
    BY <2>1, <2>3
    DEF ServiceInv, StopIsPending, StopComes, Attending, Arriving, Named
  <2> QED
    BY <2>3, <2>4 DEF StopWaits
<1> QED
  BY <1>1, AlwaysServiceInv, PTL
=============================================================================
