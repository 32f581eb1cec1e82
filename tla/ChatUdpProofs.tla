--------------------------- MODULE ChatUdpProofs ---------------------------
(***************************************************************************)
(* Proofs about ChatUdp for every set of clients, every assignment of      *)
(* names to them, any number of slots and any behaviour of the network.    *)
(***************************************************************************)
EXTENDS ChatUdp, TLAPS

(* While the main thread is between its critical sections, the slot it has *)
(* looked up holds an entry for its sender or, dropped by the checker,     *)
(* none: nobody else fills slots.                                          *)
SlotIsTheSenders ==
  main # "receive" =>
    /\ client_idx \in Slots
    /\ \A d \in datagram :
         clients[client_idx].active => clients[client_idx].name = Name[d.from]

TableInv == TypeOK /\ OneEntryPerName /\ SlotIsTheSenders

(* What the slots of the table are.                                        *)
LEMMA EntryFields ==
  ASSUME NEW e \in Entries
  PROVE  \/ e = Vacant
         \/ /\ e.active /\ e.name \in Names /\ e.addr \in Clients
            /\ e.age \in 0..(CLIENT_TIMEOUT + 1)
            /\ e = Entry(e.name, e.addr, e.age)
  BY DEF Entries, Entry, Vacant

LEMMA MakesEntry ==
  ASSUME NEW n \in Names, NEW a \in Clients, NEW t \in 0..(CLIENT_TIMEOUT + 1)
  PROVE  /\ Entry(n, a, t) \in Entries
         /\ Entry(n, a, t).active
         /\ Entry(n, a, t).name = n
         /\ Entry(n, a, t).addr = a
         /\ Entry(n, a, t).age = t
  BY DEF Entries, Entry

LEMMA VacantIsInactive == Vacant \in Entries /\ ~Vacant.active
  BY DEF Entries, Vacant

LEMMA SenderHasName ==
  ASSUME NEW d \in Datagrams
  PROVE  Name[d.from] \in Names /\ d.from \in Clients
  BY DEF Datagrams, Names

LEMMA InitTableInv == Init => TableInv
<1> SUFFICES ASSUME Init PROVE TableInv
  OBVIOUS
<1>1. TypeOK
  <2>1. clients \in [Slots -> Entries]
    BY VacantIsInactive DEF Init
  <2>2. stop_flag \in [Clients -> BOOLEAN]
    BY Zenon DEF Init
  <2> QED
    BY <2>1, <2>2, ChatUdpAssumption DEF Init, TypeOK
<1>2. OneEntryPerName
  BY VacantIsInactive DEF Init, OneEntryPerName
<1> QED
  BY <1>1, <1>2 DEF Init, TableInv, SlotIsTheSenders

(* A fault that may happen leaves the count of faults within its bound.    *)
LEMMA FaultsStayBounded ==
  ASSUME NEW fault, MayFail(fault), TypeOK
  PROVE  /\ lost + 1 \in Nat /\ doubled + 1 \in Nat /\ late + 1 \in Nat
         /\ (lost + 1) + doubled + late \in 0..MaxFaults
         /\ lost + (doubled + 1) + late \in 0..MaxFaults
         /\ lost + doubled + (late + 1) \in 0..MaxFaults
  BY ChatUdpAssumption DEF MayFail, TypeOK

(* Reading a command: STOP or not.                                         *)
LEMMA ReadsCommand ==
  ASSUME NEW typed, TypeOK
  PROVE  ReadCommand(typed) \subseteq {"STOP", "other"}
  BY DEF ReadCommand, TypeOK

(* A datagram is an element of Datagrams; so is what a client sends.       *)
LEMMA SendsDatagram ==
  ASSUME NEW c \in Clients, NEW cmd \in {"text", "blank", "STOP", "ALIVE_ACK"},
         Send(c, cmd), TypeOK
  PROVE  to_server' \subseteq Datagrams
  BY DEF Send, Datagrams, TypeOK

LEMMA MainReceivesType ==
  ASSUME TypeOK, NEW d \in Datagrams, MainReceives(d) PROVE TypeOK'
<1>1. /\ lost' \in Nat /\ doubled' \in Nat /\ late' \in Nat
      /\ lost' + doubled' + late' \in 0..MaxFaults
  <2>1. CASE UNCHANGED doubled
    BY <2>1 DEF TypeOK, MainReceives
  <2>2. CASE MayFail("doubled") /\ doubled' = doubled + 1
    BY <2>2, FaultsStayBounded DEF TypeOK, MainReceives
  <2> QED
    BY <2>1, <2>2 DEF MainReceives
<1>2. to_server' \subseteq Datagrams
  BY DEF TypeOK, MainReceives
<1>3. command' \in {"STOP", "other"}
  BY ReadsCommand DEF MainReceives
<1>4. ASSUME NEW i \in Slots, Known(i, Name[d.from]), Refresh(i, d)
      PROVE  clients' \in [Slots -> Entries]
  <2>1. clients[i] \in Entries /\ clients[i].active
    BY <1>4 DEF TypeOK, Known, Holds, First
  <2>2. clients[i].name \in Names
    BY <2>1, EntryFields, VacantIsInactive
  <2>3. clients' = [clients EXCEPT ![i] = Entry(clients[i].name, d.from, 0)]
    BY <1>4 DEF Refresh, TypeOK
  <2>4. Entry(clients[i].name, d.from, 0) \in Entries
    BY <2>2, MakesEntry, SenderHasName, ChatUdpAssumption
  <2> QED
    BY <2>3, <2>4 DEF TypeOK
<1>5. ASSUME NEW i \in Slots, Register(i, d)
      PROVE  clients' \in [Slots -> Entries]
  BY <1>5, MakesEntry, SenderHasName, ChatUdpAssumption DEF Register, TypeOK
<1>6. clients' \in [Slots -> Entries]
  BY <1>4, <1>5 DEF MainReceives, TypeOK
<1>7. /\ main' \in {"receive", "join", "dispatch"}
      /\ main' = "receive" <=> client_idx' = 0
      /\ client_idx' \in 0..MAX_CLIENTS
      /\ \/ main' = "receive" /\ datagram' = {}
         \/ main' # "receive" /\ \E e \in Datagrams : datagram' = {e}
  BY ChatUdpAssumption DEF MainReceives, TypeOK, Slots
<1> QED
  BY <1>1, <1>2, <1>3, <1>6, <1>7
  DEF MainReceives, TypeOK, clocks, users

LEMMA MainDispatchesType ==
  ASSUME TypeOK, MainDispatches PROVE TypeOK'
<1>1. CASE MainAnnouncesJoin
  BY <1>1 DEF MainAnnouncesJoin, TypeOK, clocks, users, network
<1>2. CASE MainHandlesStop
  <2>1. clients' \in [Slots -> Entries]
    BY <1>2, VacantIsInactive DEF MainHandlesStop, TypeOK
  <2> QED
    BY <1>2, <2>1, ChatUdpAssumption
    DEF MainHandlesStop, MainReturns, TypeOK, clocks, users, network
<1>3. CASE MainHandlesOther
  BY <1>3, ChatUdpAssumption
  DEF MainHandlesOther, MainReturns, TypeOK, clocks, users, network
<1> QED
  BY <1>1, <1>2, <1>3 DEF MainDispatches

LEMMA ProbesReaders ==
  ASSUME TypeOK, NEW S, Probe(S), UNCHANGED recv_thread
  PROVE  to_client' \subseteq {c \in Clients : recv_thread'[c] # "done"}
  BY DEF Probe, TypeOK

LEMMA CheckerScansType ==
  ASSUME TypeOK, CheckerScans PROVE TypeOK'
<1> DEFINE first == IF checker = 0 THEN 1 ELSE checker
<1>1. first \in 1..(MAX_CLIENTS + 1)
  BY ChatUdpAssumption DEF TypeOK
<1>2. UNCHANGED recv_thread
  BY DEF CheckerScans, users
<1>3. ASSUME NEW k \in first..MAX_CLIENTS, Drop(k), Probe(first..(k - 1)),
             checker' = k + 1, UNCHANGED slept
      PROVE  /\ clients' \in [Slots -> Entries]
             /\ checker' \in 0..(MAX_CLIENTS + 1)
             /\ slept' \in 0..ALIVE_CHECK_INTERVAL
             /\ to_client' \subseteq {c \in Clients : recv_thread'[c] # "done"}
  <2>1. clients' \in [Slots -> Entries]
    BY <1>3, VacantIsInactive DEF Drop, TypeOK
  <2>2. k \in Int /\ k >= 1 /\ k <= MAX_CLIENTS
    BY <1>1, ChatUdpAssumption
  <2> QED
    BY <1>2, <1>3, <2>1, <2>2, ProbesReaders, ChatUdpAssumption DEF TypeOK
<1>4. ASSUME Probe(first..MAX_CLIENTS), checker' = 0, slept' = 0,
             UNCHANGED clients
      PROVE  /\ clients' \in [Slots -> Entries]
             /\ checker' \in 0..(MAX_CLIENTS + 1)
             /\ slept' \in 0..ALIVE_CHECK_INTERVAL
             /\ to_client' \subseteq {c \in Clients : recv_thread'[c] # "done"}
  BY <1>2, <1>4, ProbesReaders, ChatUdpAssumption DEF TypeOK
<1>5. /\ clients' \in [Slots -> Entries]
      /\ checker' \in 0..(MAX_CLIENTS + 1)
      /\ slept' \in 0..ALIVE_CHECK_INTERVAL
      /\ to_client' \subseteq {c \in Clients : recv_thread'[c] # "done"}
  BY <1>3, <1>4 DEF CheckerScans
<1> QED
  BY <1>5 DEF CheckerScans, TypeOK, users

(* Time changes ages only, and keeps them within their range.              *)
LEMMA TickKeepsEntries ==
  ASSUME TypeOK, Tick, NEW i \in Slots
  PROVE  /\ clients'[i] \in Entries
         /\ clients'[i].active <=> clients[i].active
         /\ clients[i].active => clients'[i].name = clients[i].name
<1>1. clients[i] \in Entries
  BY DEF TypeOK
<1>2. CASE clients[i].active /\ clients[i].age <= CLIENT_TIMEOUT
  <2>3. clients[i].age + 1 \in 0..(CLIENT_TIMEOUT + 1)
    BY <1>1, <1>2, EntryFields, VacantIsInactive, ChatUdpAssumption
  <2>4. clients'[i] = Entry(clients[i].name, clients[i].addr, clients[i].age + 1)
    BY <1>2 DEF Tick
  <2>5. clients[i].name \in Names /\ clients[i].addr \in Clients
    BY <1>1, <1>2, EntryFields, VacantIsInactive
  <2> QED
    BY <1>2, <2>3, <2>4, <2>5, MakesEntry
<1>3. CASE ~(clients[i].active /\ clients[i].age <= CLIENT_TIMEOUT)
  BY <1>1, <1>3 DEF Tick
<1> QED
  BY <1>2, <1>3

LEMMA TickType ==
  ASSUME TypeOK, Tick PROVE TypeOK'
<1>1. clients' \in [Slots -> Entries]
  BY TickKeepsEntries DEF Tick
<1>2. slept' \in 0..ALIVE_CHECK_INTERVAL
  BY ChatUdpAssumption DEF Tick, TypeOK
<1>3. /\ lost' \in Nat /\ doubled' \in Nat /\ late' \in Nat
      /\ lost' + doubled' + late' \in 0..MaxFaults
  BY FaultsStayBounded DEF Tick, TypeOK, network
<1> QED
  BY <1>1, <1>2, <1>3 DEF Tick, TypeOK, users, network

(* A client's step changes the client and what it has sent.                *)
LEMMA ClientStepType ==
  ASSUME TypeOK, NEW c \in Clients, ClientStep(c) PROVE TypeOK'
<1>0. TRUE \in BOOLEAN /\ FALSE \in BOOLEAN
  BY Zenon
<1>1. CASE ClientStarts(c)
  <2>1. to_server' \subseteq Datagrams
    BY <1>1, SendsDatagram DEF ClientStarts
  <2>2. send_thread' \in [Clients -> {"start", "fgets", "done"}]
    BY <1>1 DEF ClientStarts, NextLine, TypeOK
  <2> QED
    BY <1>1, <2>1, <2>2 DEF ClientStarts, TypeOK, server
<1>2. ASSUME NEW cmd \in Typed, Types(c, cmd) PROVE TypeOK'
  <2>1. to_server' \subseteq Datagrams
    BY <1>2, SendsDatagram, ChatUdpAssumption DEF Types
  <2>2. send_thread' \in [Clients -> {"start", "fgets", "done"}]
    BY <1>2 DEF Types, NextLine, TypeOK
  <2>3. (stop_flag[c] \/ cmd = "STOP") \in BOOLEAN
    BY Zenon
  <2>4. stop_flag' \in [Clients -> BOOLEAN]
    BY <1>2, <2>3 DEF Types, TypeOK
  <2>5. lines' \in 0..MaxLines
    BY <1>2, ChatUdpAssumption DEF Types, TypeOK
  <2> QED
    BY <1>2, <2>1, <2>2, <2>4, <2>5 DEF Types, TypeOK, server
<1>3. CASE TypesNothing(c)
  BY <1>3 DEF TypesNothing, NextLine, TypeOK, server, network
<1>4. CASE EndOfInput(c)
  BY <1>0, <1>4 DEF EndOfInput, NextLine, TypeOK, server, network
<1>5. CASE CtrlC(c)
  <2>1. to_server' \subseteq Datagrams
    BY <1>5, SendsDatagram DEF CtrlC
  <2> QED
    BY <1>0, <1>5, <2>1 DEF CtrlC, TypeOK, server
<1>6. CASE GetsAlive(c)
  BY <1>6 DEF GetsAlive, TypeOK, server
<1>7. CASE SendsAck(c)
  <2>1. to_server' \subseteq Datagrams
    BY <1>7, SendsDatagram DEF SendsAck
  <2>2. recv_thread' \in [Clients -> {"receive", "ack", "done"}]
    BY <1>7 DEF SendsAck, TypeOK
  <2>3. to_client' \subseteq {e \in Clients : recv_thread'[e] # "done"}
    BY <1>7 DEF SendsAck, TypeOK
  <2> QED
    BY <1>7, <2>1, <2>2, <2>3 DEF SendsAck, TypeOK, server
<1>8. CASE GetsText(c)
  BY <1>8 DEF GetsText, TypeOK, server
<1>9. CASE ClientEnds(c)
  BY <1>9 DEF ClientEnds, TypeOK, server
<1> QED
  BY <1>1, <1>2, <1>3, <1>4, <1>5, <1>6, <1>7, <1>8, <1>9 DEF ClientStep

LEMMA NextType == TypeOK /\ [Next]_vars => TypeOK'
<1> SUFFICES ASSUME TypeOK, [Next]_vars PROVE TypeOK'
  OBVIOUS
<1>1. ASSUME NEW d \in Datagrams, LosesDatagram(d) PROVE TypeOK'
  BY <1>1, FaultsStayBounded DEF LosesDatagram, TypeOK, server, users
<1>2. ASSUME NEW c \in Clients, LosesAlive(c) PROVE TypeOK'
  BY <1>2, FaultsStayBounded DEF LosesAlive, TypeOK, server, users
<1>3. CASE UNCHANGED vars
  BY <1>3 DEF TypeOK, vars, server, users, network
<1> QED
  BY <1>1, <1>2, <1>3, MainReceivesType, MainDispatchesType, CheckerScansType,
     TickType, ClientStepType
  DEF Next

(* The main thread lets go of its slot, or keeps it and what it is for.    *)
MainKeepsSlot ==
  \/ main' = "receive"
  \/ main # "receive" /\ UNCHANGED <<datagram, client_idx>>

(* Removing entries and ageing them keeps both parts of the invariant.     *)
LEMMA FewerEntriesKeep ==
  ASSUME TableInv,
         \A i \in Slots : clients'[i].active =>
             clients[i].active /\ clients'[i].name = clients[i].name,
         MainKeepsSlot
  PROVE  OneEntryPerName' /\ SlotIsTheSenders'
  BY DEF TableInv, OneEntryPerName, SlotIsTheSenders, Slots, MainKeepsSlot

(* The lookup is what keeps names apart: a name is given a slot only when  *)
(* no active slot has it.                                                  *)
LEMMA ReceivingKeepsNamesApart ==
  ASSUME TableInv, NEW d \in Datagrams, MainReceives(d)
  PROVE  OneEntryPerName' /\ SlotIsTheSenders'
<1>1. Name[d.from] \in Names /\ d.from \in Clients /\ 0 \in 0..(CLIENT_TIMEOUT + 1)
  BY SenderHasName, ChatUdpAssumption
<1>2. clients \in [Slots -> Entries]
  BY DEF TableInv, TypeOK
<1>3. ASSUME NEW i \in Slots, Known(i, Name[d.from]), Refresh(i, d),
             main' = "dispatch", datagram' = {d}, client_idx' = i
      PROVE  OneEntryPerName' /\ SlotIsTheSenders'
  <2>1. clients[i].active /\ clients[i].name = Name[d.from]
    BY <1>3 DEF Known, Holds, First
  <2>2. clients' = [clients EXCEPT ![i] = Entry(Name[d.from], d.from, 0)]
    BY <1>2, <1>3, <2>1 DEF Refresh
  <2>3. clients'[i].active /\ clients'[i].name = Name[d.from]
    BY <1>1, <1>2, <2>2, MakesEntry
  <2>4. \A j \in Slots : j # i => clients'[j] = clients[j]
    BY <1>2, <2>2
  <2>5. OneEntryPerName'
    BY <2>1, <2>3, <2>4 DEF TableInv, OneEntryPerName, Slots
  <2> QED
    BY <1>3, <2>3, <2>5 DEF SlotIsTheSenders, Slots
<1>4. ASSUME \A i \in Slots : ~Holds(i, Name[d.from]),
             NEW k \in Slots, FreeSlot(k), Register(k, d),
             main' = "join", datagram' = {d}, client_idx' = k
      PROVE  OneEntryPerName' /\ SlotIsTheSenders'
  <2>1. \A j \in Slots : clients[j].active => clients[j].name # Name[d.from]
    BY <1>4 DEF Holds
  <2>2. clients'[k].active /\ clients'[k].name = Name[d.from]
    BY <1>1, <1>2, <1>4, MakesEntry DEF Register
  <2>3. \A j \in Slots : j # k => clients'[j] = clients[j]
    BY <1>2, <1>4 DEF Register
  <2>4. OneEntryPerName'
    BY <2>1, <2>2, <2>3 DEF TableInv, OneEntryPerName, Slots
  <2> QED
    BY <1>4, <2>2, <2>4 DEF SlotIsTheSenders, Slots
<1>5. CASE UNCHANGED <<clients, main, datagram, client_idx>>
  BY <1>5 DEF TableInv, OneEntryPerName, SlotIsTheSenders
<1> QED
  BY <1>3, <1>4, <1>5 DEF MainReceives

LEMMA NextTableInv == TableInv /\ [Next]_vars => TableInv'
<1> SUFFICES ASSUME TableInv, [Next]_vars PROVE TableInv'
  OBVIOUS
<1>0. TypeOK /\ TypeOK'
  BY NextType DEF TableInv
<1> SUFFICES OneEntryPerName' /\ SlotIsTheSenders'
  BY <1>0 DEF TableInv
<1>1. ASSUME NEW d \in Datagrams, MainReceives(d)
      PROVE  OneEntryPerName' /\ SlotIsTheSenders'
  BY <1>1, ReceivingKeepsNamesApart
<1>2. CASE MainHandlesStop
  <2>1. \A i \in Slots : clients'[i].active =>
          clients[i].active /\ clients'[i].name = clients[i].name
    BY <1>0, <1>2, VacantIsInactive DEF MainHandlesStop, TypeOK
  <2>2. MainKeepsSlot
    BY <1>2 DEF MainHandlesStop, MainReturns, MainKeepsSlot
  <2> QED
    BY <1>0, <2>1, <2>2, FewerEntriesKeep DEF TableInv
<1>3. CASE CheckerScans
  <2>1. \A i \in Slots : clients'[i].active =>
          clients[i].active /\ clients'[i].name = clients[i].name
    BY <1>0, <1>3, VacantIsInactive DEF CheckerScans, Drop, TypeOK
  <2>2. MainKeepsSlot
    BY <1>3 DEF CheckerScans, MainKeepsSlot
  <2> QED
    BY <1>0, <2>1, <2>2, FewerEntriesKeep DEF TableInv
<1>4. CASE Tick
  <2>1. \A i \in Slots : clients'[i].active =>
          clients[i].active /\ clients'[i].name = clients[i].name
    BY <1>0, <1>4, TickKeepsEntries
  <2>2. MainKeepsSlot
    BY <1>4 DEF Tick, MainKeepsSlot
  <2> QED
    BY <1>0, <2>1, <2>2, FewerEntriesKeep DEF TableInv
<1>5. clients' = clients /\ MainKeepsSlot => OneEntryPerName' /\ SlotIsTheSenders'
  BY FewerEntriesKeep
<1>6. CASE UNCHANGED vars
  BY <1>5, <1>6 DEF vars, server, MainKeepsSlot
<1>7. CASE MainAnnouncesJoin \/ MainHandlesOther
  BY <1>5, <1>7 DEF MainAnnouncesJoin, MainHandlesOther, MainReturns,
     MainKeepsSlot
<1>8. ASSUME NEW d \in Datagrams, LosesDatagram(d)
      PROVE  OneEntryPerName' /\ SlotIsTheSenders'
  BY <1>5, <1>8 DEF LosesDatagram, server, MainKeepsSlot
<1>9. ASSUME NEW c \in Clients, ClientStep(c) \/ LosesAlive(c)
      PROVE  OneEntryPerName' /\ SlotIsTheSenders'
  <2>1. UNCHANGED server
    BY <1>9 DEF LosesAlive, ClientStep, ClientStarts, Types, TypesNothing,
                EndOfInput, CtrlC, GetsAlive, SendsAck, GetsText, ClientEnds
  <2> QED
    BY <1>5, <2>1 DEF server, MainKeepsSlot
<1> QED
  BY <1>1, <1>2, <1>3, <1>4, <1>6, <1>7, <1>8, <1>9 DEF Next, MainDispatches

THEOREM TableInvCorrect == Spec => []TableInv
  BY InitTableInv, NextTableInv, PTL DEF Spec

(* The variables keep their types, for any clients and any table.          *)
THEOREM ChatTypeCorrect == Spec => []TypeOK
<1>1. TableInv => TypeOK
  BY DEF TableInv
<1> QED
  BY <1>1, TableInvCorrect, PTL

(* No name is ever in the table twice (server.c:96-117).                   *)
THEOREM OneEntryCorrect == Spec => []OneEntryPerName
<1>1. TableInv => OneEntryPerName
  BY DEF TableInv
<1> QED
  BY <1>1, TableInvCorrect, PTL

(* STOP frees its sender's slot or none (server.c:188), whatever the       *)
(* checker did since the slot was looked up.                               *)
THEOREM StopCorrect == Spec => StopFreesItsSender
<1> DEFINE FreesItsSender ==
      MainHandlesStop =>
        \A d \in datagram : \A i \in Slots :
          clients[i].active /\ ~clients'[i].active
            => clients[i].name = Name[d.from]
<1>1. TableInv /\ [Next]_vars => [FreesItsSender]_vars
  <2> SUFFICES ASSUME TableInv, MainHandlesStop,
                      NEW d \in datagram, NEW i \in Slots,
                      clients[i].active, ~clients'[i].active
               PROVE  clients[i].name = Name[d.from]
    OBVIOUS
  <2>1. main # "receive"
    BY DEF MainHandlesStop
  <2>2. clients' = [clients EXCEPT ![client_idx] = Vacant]
    BY DEF MainHandlesStop
  <2>3. i = client_idx
    BY <2>2 DEF TableInv, TypeOK
  <2> QED
    BY <2>1, <2>3 DEF TableInv, SlotIsTheSenders
<1> QED
  BY <1>1, TableInvCorrect, PTL DEF Spec, StopFreesItsSender

-----------------------------------------------------------------------------
(* A running client answers the probe of each period before the next one,  *)
(* so its entry is hardly older than a period, and one lost datagram costs *)
(* one period more.                                                        *)
EntriesAreSigned ==
  \A i \in Slots : clients[i].active => clients[i].name = Name[clients[i].addr]

FlagComesFirst ==
  \A c \in Clients :
    send_thread[c] = "done" \/ recv_thread[c] = "done" => stop_flag[c]

ScanIsDue == checker # 0 => slept = ALIVE_CHECK_INTERVAL

Ack(c) == [from |-> c, command |-> "ALIVE_ACK"]

Owes(c) == c \in to_client \/ recv_thread[c] = "ack" \/ Ack(c) \in to_server

Grace == IF lost = 0 THEN 0 ELSE ALIVE_CHECK_INTERVAL

(* What may be the age of the entry in slot i if nobody owes an answer.    *)
Granted(i) ==
  Grace + (IF checker = 0 THEN slept
           ELSE IF i < checker THEN 0 ELSE ALIVE_CHECK_INTERVAL)

OnTime(i) ==
  clients[i].active /\ ~stop_flag[clients[i].addr] =>
    \/ clients[i].age <= Granted(i)
    \/ Owes(clients[i].addr) /\ clients[i].age <= Grace + ALIVE_CHECK_INTERVAL

AnswersInTime == late = 0 /\ lost <= 1 => \A i \in Slots : OnTime(i)

ProbeInv ==
  TableInv /\ EntriesAreSigned /\ FlagComesFirst /\ ScanIsDue /\ AnswersInTime

LEMMA InitProbeInv == Init => ProbeInv
<1> SUFFICES ASSUME Init PROVE ProbeInv
  OBVIOUS
<1>1. \A i \in Slots : ~clients[i].active
  BY VacantIsInactive DEF Init
<1>2. EntriesAreSigned /\ AnswersInTime
  BY <1>1 DEF EntriesAreSigned, AnswersInTime, OnTime
<1>3. FlagComesFirst /\ ScanIsDue
  BY DEF Init, FlagComesFirst, ScanIsDue
<1> QED
  BY <1>2, <1>3, InitTableInv DEF ProbeInv

(* What a number is.                                                       *)
LEMMA Numbers ==
  ASSUME TypeOK
  PROVE  /\ ALIVE_CHECK_INTERVAL \in Nat \ {0} /\ slept \in 0 .. ALIVE_CHECK_INTERVAL
         /\ CLIENT_TIMEOUT \in Nat /\ MAX_CLIENTS \in Nat \ {0}
         /\ lost \in Nat /\ late \in Nat /\ checker \in 0 .. MAX_CLIENTS + 1
         /\ Grace \in Nat
         /\ \A i \in Slots : Granted(i) \in Nat /\ i \in Nat /\ Granted(i) >= Grace
  BY ChatUdpAssumption DEF TypeOK, Grace, Granted, Slots

LEMMA ActiveEntry ==
  ASSUME TypeOK, NEW i \in Slots, clients[i].active
  PROVE  /\ clients[i].addr \in Clients /\ clients[i].age \in Nat
         /\ clients[i].name \in Names
         /\ clients[i] = Entry(clients[i].name, clients[i].addr, clients[i].age)
<1>1. clients[i] \in Entries
  BY DEF TypeOK
<1> QED
  BY <1>1, EntryFields, VacantIsInactive

(* An entry that did not change, while nobody was excused.                 *)
LEMMA EntryStaysOnTime ==
  ASSUME NEW i \in Slots, OnTime(i), clients'[i] = clients[i],
         UNCHANGED <<checker, slept, lost>>,
         clients[i].active /\ ~stop_flag'[clients[i].addr] =>
           /\ ~stop_flag[clients[i].addr]
           /\ Owes(clients[i].addr) => Owes(clients[i].addr)'
  PROVE  OnTime(i)'
<1>1. Granted(i)' = Granted(i) /\ Grace' = Grace
  BY DEF Granted, Grace
<1> QED
  BY <1>1 DEF OnTime, Owes

(* A refreshed entry.                                                      *)
LEMMA NewEntryIsOnTime ==
  ASSUME TypeOK', NEW i \in Slots, clients'[i].age = 0
  PROVE  OnTime(i)'
<1>0. slept' \in Nat /\ lost' \in Nat /\ ALIVE_CHECK_INTERVAL \in Nat
  BY ChatUdpAssumption DEF TypeOK
<1>1. Granted(i)' \in Nat
  <2>1. Grace' \in Nat
    BY <1>0 DEF Grace
  <2> DEFINE ByPlace == IF checker' = 0 THEN slept'
                        ELSE IF i < checker' THEN 0 ELSE ALIVE_CHECK_INTERVAL
  <2>2. Granted(i)' = Grace' + ByPlace
    BY DEF Granted
  <2>3. ByPlace \in Nat
    BY <1>0
  <2>4. \A m, n \in Nat : m + n \in Nat
    OBVIOUS
  <2>5. Grace' + ByPlace \in Nat
    BY <2>1, <2>3, <2>4, Zenon
  <2> QED
    BY <2>2, <2>5, Zenon
<1>2. \A n \in Nat : 0 <= n
  OBVIOUS
<1>3. clients'[i].age <= Granted(i)'
  BY <1>1, <1>2, Zenon
<1> QED
  BY <1>3, Zenon DEF OnTime

LEMMA NoEntryIsOnTime ==
  ASSUME NEW i \in Slots, ~clients'[i].active
  PROVE  OnTime(i)'
  BY DEF OnTime

LEMMA ReceivingIsOnTime ==
  ASSUME TableInv, TypeOK', EntriesAreSigned, NEW d \in Datagrams, MainReceives(d)
  PROVE  /\ EntriesAreSigned'
         /\ (\A i \in Slots : OnTime(i)) => \A i \in Slots : OnTime(i)'
<1>1. /\ Name[d.from] \in Names /\ d.from \in Clients
      /\ 0 \in 0 .. (CLIENT_TIMEOUT + 1) /\ clients \in [Slots -> Entries]
  BY SenderHasName, ChatUdpAssumption DEF TableInv, TypeOK
<1>2. \E k \in Slots \cup {0} :
        /\ \A i \in Slots \ {k} : /\ clients'[i] = clients[i]
                                  /\ clients[i].active => clients[i].name # Name[d.from]
        /\ k \in Slots => clients'[k] = Entry(Name[d.from], d.from, 0)
  <2>1. ASSUME NEW k \in Slots, Known(k, Name[d.from]), Refresh(k, d)
        PROVE  /\ \A i \in Slots \ {k} : /\ clients'[i] = clients[i]
                                         /\ clients[i].active => clients[i].name # Name[d.from]
               /\ clients'[k] = Entry(Name[d.from], d.from, 0)
    <3>1. clients[k].active /\ clients[k].name = Name[d.from]
      BY <2>1 DEF Known, Holds, First
    <3>2. clients' = [clients EXCEPT ![k] = Entry(Name[d.from], d.from, 0)]
      BY <1>1, <2>1, <3>1 DEF Refresh
    <3> QED
      BY <1>1, <3>1, <3>2 DEF TableInv, OneEntryPerName
  <2>2. ASSUME \A i \in Slots : ~Holds(i, Name[d.from]), NEW k \in Slots, Register(k, d)
        PROVE  /\ \A i \in Slots \ {k} : /\ clients'[i] = clients[i]
                                         /\ clients[i].active => clients[i].name # Name[d.from]
               /\ clients'[k] = Entry(Name[d.from], d.from, 0)
    BY <1>1, <2>2 DEF Register, Holds
  <2>3. ASSUME \A i \in Slots : ~Holds(i, Name[d.from]), UNCHANGED clients
        PROVE  /\ 0 \notin Slots
               /\ \A i \in Slots \ {0} : /\ clients'[i] = clients[i]
                                         /\ clients[i].active => clients[i].name # Name[d.from]
    BY <2>3 DEF Holds, Slots
  <2> QED
    BY <2>1, <2>2, <2>3 DEF MainReceives
<1>3. PICK k \in Slots \cup {0} :
        /\ \A i \in Slots \ {k} : /\ clients'[i] = clients[i]
                                  /\ clients[i].active => clients[i].name # Name[d.from]
        /\ k \in Slots => clients'[k] = Entry(Name[d.from], d.from, 0)
  BY <1>2
<1>4. EntriesAreSigned'
  <2>1. ASSUME NEW i \in Slots, clients'[i].active
        PROVE  clients'[i].name = Name[clients'[i].addr]
    <3>1. CASE i = k
      BY <1>1, <1>3, <3>1, MakesEntry
    <3>2. CASE i # k
      BY <1>3, <2>1, <3>2 DEF EntriesAreSigned
    <3> QED
      BY <3>1, <3>2
  <2> QED
    BY <2>1 DEF EntriesAreSigned
<1>5. ASSUME \A i \in Slots : OnTime(i), NEW i \in Slots
      PROVE  OnTime(i)'
  <2>1. CASE i = k
    <3>1. clients'[i].age = 0
      BY <1>1, <1>3, <2>1, MakesEntry
    <3> QED
      BY <3>1, NewEntryIsOnTime
  <2>2. CASE i # k
    <3>1. clients'[i] = clients[i] /\ (clients[i].active => clients[i].addr # d.from)
      BY <1>3, <2>2 DEF EntriesAreSigned
    <3>2. UNCHANGED <<checker, slept, lost, stop_flag, to_client, recv_thread>>
      BY DEF MainReceives, clocks, users
    <3>3. \A c : c # d.from /\ Ack(c) \in to_server => Ack(c) \in to_server'
      BY DEF MainReceives, Ack
    <3>4. \A c : c # d.from /\ Owes(c) => Owes(c)'
      BY <3>2, <3>3 DEF Owes, Ack
    <3> QED
      BY <1>5, <3>1, <3>2, <3>4, EntryStaysOnTime
  <2> QED
    BY <2>1, <2>2
<1> QED
  BY <1>4, <1>5

(* What a client does leaves its debts as they are or settles them.        *)
LEMMA ClientKeepsDebts ==
  ASSUME TypeOK, FlagComesFirst, NEW c \in Clients, ClientStep(c)
  PROVE  /\ FlagComesFirst'
         /\ \A b \in Clients : ~stop_flag'[b] =>
              ~stop_flag[b] /\ (Owes(b) => Owes(b)')
<1> DEFINE Goal == /\ FlagComesFirst'
                   /\ \A b \in Clients : ~stop_flag'[b] =>
                        ~stop_flag[b] /\ (Owes(b) => Owes(b)')
<1>1. CASE ClientStarts(c)
  BY <1>1 DEF ClientStarts, NextLine, Send, TypeOK, FlagComesFirst, Owes, Ack
<1>2. ASSUME NEW cmd \in Typed, Types(c, cmd) PROVE Goal
  BY <1>2 DEF Types, NextLine, Send, TypeOK, FlagComesFirst, Owes, Ack
<1>3. CASE TypesNothing(c)
  BY <1>3 DEF TypesNothing, NextLine, TypeOK, FlagComesFirst, Owes, Ack, network
<1>4. CASE EndOfInput(c)
  BY <1>4 DEF EndOfInput, NextLine, TypeOK, FlagComesFirst, Owes, Ack, network
<1>5. CASE CtrlC(c)
  BY <1>5 DEF CtrlC, Send, TypeOK, FlagComesFirst, Owes, Ack
<1>6. CASE GetsAlive(c)
  BY <1>6 DEF GetsAlive, TypeOK, FlagComesFirst, Owes, Ack
<1>7. CASE SendsAck(c)
  BY <1>7 DEF SendsAck, Send, TypeOK, FlagComesFirst, Owes, Ack
<1>8. CASE GetsText(c)
  BY <1>8 DEF GetsText, TypeOK, FlagComesFirst, Owes, Ack
<1>9. CASE ClientEnds(c)
  BY <1>9 DEF ClientEnds, TypeOK, FlagComesFirst, Owes, Ack
<1> QED
  BY <1>1, <1>2, <1>3, <1>4, <1>5, <1>6, <1>7, <1>8, <1>9 DEF ClientStep

(* Whatever is owed, an entry is at most one period old, and one more if a *)
(* datagram was lost.                                                      *)
LEMMA AgeIsBounded ==
  ASSUME TypeOK, NEW i \in Slots, OnTime(i),
         clients[i].active, ~stop_flag[clients[i].addr]
  PROVE  clients[i].age <= Grace + ALIVE_CHECK_INTERVAL
<1>1. clients[i].age \in Nat
  BY ActiveEntry
<1>2. Granted(i) <= Grace + ALIVE_CHECK_INTERVAL
  BY Numbers DEF Granted
<1>3. CASE clients[i].age <= Granted(i)
  BY <1>1, <1>2, <1>3, Numbers
<1>4. CASE clients[i].age <= Grace + ALIVE_CHECK_INTERVAL
  BY <1>4
<1> QED
  BY <1>3, <1>4 DEF OnTime

(* Whom the checker has probed owes it an answer.                          *)
LEMMA ProbedOwes ==
  ASSUME TypeOK, FlagComesFirst, NEW S, Probe(S), NEW i \in S, i \in Slots,
         clients[i].active, NEW b, b = clients[i].addr, ~stop_flag[b]
  PROVE  Owes(b)'
<1>1. b \in Clients
  BY ActiveEntry
<1>2. recv_thread[b] # "done"
  BY <1>1 DEF FlagComesFirst
<1>3. b \in to_client'
  BY <1>1, <1>2 DEF Probe
<1> QED
  BY <1>3 DEF Owes

(* The checker: the slots behind it are probed, one may be dropped, those  *)
(* ahead are as old as before.                                             *)
LEMMA ScanningIsOnTime ==
  ASSUME TypeOK, FlagComesFirst, ScanIsDue, CheckerScans,
         NEW i \in Slots, OnTime(i)
  PROVE  OnTime(i)'
<1> DEFINE first == IF checker = 0 THEN 1 ELSE checker
<1>1. slept = ALIVE_CHECK_INTERVAL /\ i \in Nat /\ i >= 1 /\ i <= MAX_CLIENTS
  BY Numbers DEF CheckerScans, ScanIsDue, Slots
<1>2. UNCHANGED <<stop_flag, recv_thread, to_server, lost>> /\ Grace' = Grace
  BY DEF CheckerScans, users, Grace
<1>3. to_client \subseteq to_client'
  BY DEF CheckerScans, Probe
<1>4. \A b : Owes(b) => Owes(b)'
  BY <1>2, <1>3 DEF Owes, Ack
<1>5. ASSUME clients'[i] = clients[i], Granted(i)' = Granted(i)
      PROVE  OnTime(i)'
  BY <1>2, <1>4, <1>5 DEF OnTime
<1>6. ASSUME NEW S, Probe(S), i \in S, clients'[i] = clients[i]
      PROVE  OnTime(i)'
  <2>1. ASSUME NEW b, clients[i].active, b = clients[i].addr, ~stop_flag[b]
        PROVE  Owes(b)' /\ clients[i].age <= Grace + ALIVE_CHECK_INTERVAL
    BY <1>6, <2>1, ProbedOwes, AgeIsBounded
  <2> QED
    BY <1>2, <1>6, <2>1 DEF OnTime
<1>7. ASSUME NEW k \in first .. MAX_CLIENTS, Drop(k), Probe(first .. (k - 1)),
             checker' = k + 1, UNCHANGED slept
      PROVE  OnTime(i)'
  <2>0. k \in Nat /\ k >= 1 /\ first \in Nat /\ first >= 1 /\ k >= first
        /\ checker \in Nat
    BY Numbers
  <2>1. i # k => clients'[i] = clients[i]
    BY <1>7 DEF Drop, TypeOK
  <2>2. CASE i = k
    <3>1. ~clients'[i].active
      BY <1>7, <2>2, VacantIsInactive DEF Drop, TypeOK
    <3> QED
      BY <3>1, NoEntryIsOnTime
  <2>3. CASE i < first
    <3>1. checker # 0 /\ i < checker /\ i # k /\ checker' # 0 /\ i < checker'
      BY <1>1, <1>7, <2>0, <2>3
    <3>2. Granted(i)' = Granted(i)
      BY <1>2, <3>1 DEF Granted
    <3> QED
      BY <1>5, <2>1, <3>1, <3>2
  <2>4. CASE i > k
    <3>1. i # k /\ checker' # 0 /\ ~(i < checker') /\ (checker # 0 => ~(i < checker))
      BY <1>1, <1>7, <2>0, <2>4
    <3>2. Granted(i)' = Granted(i)
      BY <1>1, <1>2, <3>1 DEF Granted
    <3> QED
      BY <1>5, <2>1, <3>1, <3>2
  <2>5. CASE i >= first /\ i < k
    <3>1. i \in first .. (k - 1) /\ i # k
      BY <1>1, <2>0, <2>5
    <3> QED
      BY <1>6, <1>7, <2>1, <3>1
  <2> QED
    BY <1>1, <2>0, <2>2, <2>3, <2>4, <2>5
<1>8. ASSUME Probe(first .. MAX_CLIENTS), checker' = 0, slept' = 0,
             UNCHANGED clients
      PROVE  OnTime(i)'
  <2>1. CASE i \in first .. MAX_CLIENTS
    BY <1>6, <1>8, <2>1
  <2>2. CASE i \notin first .. MAX_CLIENTS
    <3>1. checker # 0 /\ i < checker
      BY <1>1, <2>2, Numbers
    <3>2. Granted(i)' = Granted(i)
      BY <1>2, <1>8, <3>1 DEF Granted
    <3> QED
      BY <1>5, <1>8, <3>2
  <2> QED
    BY <2>1, <2>2
<1> QED
  BY <1>7, <1>8 DEF CheckerScans

(* A tick ages an entry by one at most, and moves none.                    *)
LEMMA TickKeepsAddress ==
  ASSUME TypeOK, Tick, NEW i \in Slots, clients[i].active
  PROVE  /\ clients'[i].addr = clients[i].addr
         /\ clients'[i].age = clients[i].age \/ clients'[i].age = clients[i].age + 1
<1>1. /\ clients[i].addr \in Clients /\ clients[i].age \in 0 .. (CLIENT_TIMEOUT + 1)
      /\ clients[i].name \in Names
  BY EntryFields, VacantIsInactive DEF TypeOK
<1>2. CASE clients[i].age <= CLIENT_TIMEOUT
  <2>1. clients[i].age + 1 \in 0 .. (CLIENT_TIMEOUT + 1)
    BY <1>1, <1>2, ChatUdpAssumption
  <2>2. clients'[i] = Entry(clients[i].name, clients[i].addr, clients[i].age + 1)
    BY <1>2 DEF Tick
  <2> QED
    BY <1>1, <2>1, <2>2, MakesEntry
<1>3. CASE ~(clients[i].age <= CLIENT_TIMEOUT)
  BY <1>3 DEF Tick
<1> QED
  BY <1>2, <1>3

(* A tick that nobody is late for.                                         *)
LEMMA QuietTickIsOnTime ==
  ASSUME TypeOK, TypeOK', Tick, late' = 0, NEW i \in Slots, OnTime(i)
  PROVE  OnTime(i)'
<1>1. Quiet
  BY DEF Tick, TypeOK
<1>2. \A b \in Clients : ~Owes(b)
  BY <1>1 DEF Quiet, Owes, Ack
<1>3. /\ checker = 0 /\ checker' = 0 /\ slept' = slept + 1
      /\ UNCHANGED stop_flag /\ Grace' = Grace
  BY DEF Tick, users, network, Grace
<1>4. Granted(i) = Grace + slept /\ Granted(i)' = Grace + slept + 1
  BY <1>3, Numbers DEF Granted
<1>5. CASE ~clients[i].active
  <2>1. ~clients'[i].active
    BY <1>5, TickKeepsEntries
  <2> QED
    BY <2>1, NoEntryIsOnTime
<1>6. CASE clients[i].active
  <2>1. clients[i].age \in Nat /\ ~Owes(clients[i].addr)
    BY <1>2, <1>6, ActiveEntry
  <2>2. /\ clients'[i].addr = clients[i].addr
        /\ clients'[i].age = clients[i].age \/ clients'[i].age = clients[i].age + 1
    BY <1>6, TickKeepsAddress
  <2>3. ASSUME ~stop_flag[clients[i].addr]
        PROVE  clients'[i].age <= Granted(i)'
    <3>1. clients[i].age <= Grace + slept
      BY <1>4, <1>6, <2>1, <2>3 DEF OnTime
    <3> QED
      BY <1>4, <2>1, <2>2, <3>1, Numbers
  <2> QED
    BY <1>3, <2>2, <2>3 DEF OnTime
<1> QED
  BY <1>5, <1>6

(* The one datagram that may be lost excuses a whole period.               *)
LEMMA LosingIsOnTime ==
  ASSUME TypeOK, lost' = lost + 1, lost' <= 1,
         UNCHANGED <<clients, checker, slept, stop_flag>>,
         NEW i \in Slots, OnTime(i)
  PROVE  OnTime(i)'
<1>1. lost = 0 /\ Grace = 0 /\ Grace' = ALIVE_CHECK_INTERVAL
  BY DEF TypeOK, Grace
<1>2. Granted(i)' = ALIVE_CHECK_INTERVAL + Granted(i)
  <2> DEFINE ByPlace == IF checker = 0 THEN slept
                        ELSE IF i < checker THEN 0 ELSE ALIVE_CHECK_INTERVAL
  <2>1. Granted(i)' = Grace' + ByPlace /\ Granted(i) = Grace + ByPlace
    BY DEF Granted
  <2>2. ByPlace \in Nat
    BY Numbers
  <2> HIDE DEF ByPlace
  <2> QED
    BY <1>1, <2>1, <2>2, Numbers
<1>3. ASSUME clients[i].active, ~stop_flag[clients[i].addr]
      PROVE  clients[i].age <= Granted(i)'
  <2>1. clients[i].age \in Nat
    BY <1>3, ActiveEntry
  <2>2. CASE clients[i].age <= Granted(i)
    BY <1>2, <2>1, <2>2, Numbers
  <2>3. CASE clients[i].age <= Grace + ALIVE_CHECK_INTERVAL
    BY <1>1, <1>2, <2>1, <2>3, Numbers
  <2> QED
    BY <1>3, <2>2, <2>3 DEF OnTime
<1> QED
  BY <1>3 DEF OnTime

(* What went wrong stays so.                                               *)
LEMMA NoFaultIsUndone ==
  ASSUME TypeOK, TypeOK', Next, late' = 0, lost' <= 1
  PROVE  late = 0 /\ lost <= 1
<1>1. late \in Nat /\ lost \in Nat /\ late' \in Nat /\ lost' \in Nat
  BY DEF TypeOK
<1>2. /\ late' = late \/ late' = late + 1
      /\ lost' = lost \/ lost' = lost + 1
  BY DEF Next, MainReceives, LosesDatagram, LosesAlive, MainDispatches,
     MainHandlesStop, MainAnnouncesJoin, MainHandlesOther, CheckerScans, Tick,
     ClientStep, ClientStarts, Types, TypesNothing, EndOfInput, CtrlC,
     GetsAlive, SendsAck, GetsText, ClientEnds, network
<1> QED
  BY <1>1, <1>2

LEMMA NextOnTime ==
  ASSUME ProbeInv, TableInv', Next, late' = 0, lost' <= 1
  PROVE  \A i \in Slots : OnTime(i)'
<1>1. TypeOK /\ TypeOK'
  BY DEF ProbeInv, TableInv
<1>2. late = 0 /\ lost <= 1
  BY <1>1, NoFaultIsUndone
<1>3. \A i \in Slots : OnTime(i)
  BY <1>2 DEF ProbeInv, AnswersInTime
<1>4. FlagComesFirst /\ EntriesAreSigned /\ ScanIsDue /\ TableInv
  BY DEF ProbeInv
<1>5. ASSUME NEW d \in Datagrams, MainReceives(d)
      PROVE  \A i \in Slots : OnTime(i)'
  BY <1>1, <1>3, <1>4, <1>5, ReceivingIsOnTime
<1>6. ASSUME NEW d \in Datagrams, LosesDatagram(d)
      PROVE  \A i \in Slots : OnTime(i)'
  BY <1>1, <1>3, <1>6, LosingIsOnTime DEF LosesDatagram, server, users
<1>7. ASSUME NEW c \in Clients, LosesAlive(c)
      PROVE  \A i \in Slots : OnTime(i)'
  BY <1>1, <1>3, <1>7, LosingIsOnTime DEF LosesAlive, server, users
<1>8. CASE MainHandlesStop
  <2>1. UNCHANGED <<checker, slept, lost, stop_flag, to_client, recv_thread, to_server>>
    BY <1>8 DEF MainHandlesStop, clocks, users, network
  <2>2. ASSUME NEW i \in Slots
        PROVE  clients'[i] = clients[i] \/ ~clients'[i].active
    BY <1>1, <1>8, VacantIsInactive DEF MainHandlesStop, TypeOK
  <2> QED
    BY <1>3, <2>1, <2>2, EntryStaysOnTime, NoEntryIsOnTime DEF Owes, Ack
<1>9. CASE MainAnnouncesJoin \/ MainHandlesOther
  <2>1. UNCHANGED <<clients, checker, slept, lost, stop_flag, to_client,
                    recv_thread, to_server>>
    BY <1>9 DEF MainAnnouncesJoin, MainHandlesOther, clocks, users, network
  <2> QED
    BY <1>3, <2>1, EntryStaysOnTime DEF Owes, Ack
<1>10. CASE CheckerScans
  BY <1>1, <1>3, <1>4, <1>10, ScanningIsOnTime
<1>11. CASE Tick
  BY <1>1, <1>3, <1>11, QuietTickIsOnTime
<1>12. ASSUME NEW c \in Clients, ClientStep(c), NEW i \in Slots
       PROVE  OnTime(i)'
  <2>1. UNCHANGED <<clients, checker, slept, lost>>
    BY <1>12 DEF ClientStep, ClientStarts, Types, TypesNothing, EndOfInput,
       CtrlC, GetsAlive, SendsAck, GetsText, ClientEnds, server, network
  <2>2. clients[i].active => clients[i].addr \in Clients
    BY <1>1, ActiveEntry
  <2>3. \A b \in Clients : ~stop_flag'[b] =>
           ~stop_flag[b] /\ (Owes(b) => Owes(b)')
    BY <1>1, <1>4, <1>12, ClientKeepsDebts
  <2>4. ASSUME NEW b, clients[i].active, b = clients[i].addr, ~stop_flag'[b]
        PROVE  ~stop_flag[b] /\ (Owes(b) => Owes(b)')
    BY <2>2, <2>3, <2>4
  <2>5. clients[i].active /\ ~stop_flag'[clients[i].addr] =>
          /\ ~stop_flag[clients[i].addr]
          /\ Owes(clients[i].addr) => Owes(clients[i].addr)'
    BY <2>1, <2>4 DEF Owes, Ack
  <2> QED
    BY <1>3, <2>1, <2>5, EntryStaysOnTime
<1> QED
  BY <1>5, <1>6, <1>7, <1>8, <1>9, <1>10, <1>11, <1>12 DEF Next, MainDispatches

LEMMA NextProbeInv == ProbeInv /\ [Next]_vars => ProbeInv'
<1> SUFFICES ASSUME ProbeInv, [Next]_vars PROVE ProbeInv'
  OBVIOUS
<1>1. TableInv' /\ TypeOK /\ TypeOK'
  BY NextTableInv DEF ProbeInv, TableInv
<1>2. FlagComesFirst /\ EntriesAreSigned /\ ScanIsDue /\ TableInv
  BY DEF ProbeInv
<1>3. CASE UNCHANGED vars
  <2>1. \A i \in Slots : OnTime(i) => OnTime(i)'
    BY <1>3 DEF OnTime, Granted, Grace, Owes, Ack, vars, server, users, network
  <2> QED
    BY <1>1, <1>2, <1>3, <2>1 DEF ProbeInv, FlagComesFirst, EntriesAreSigned,
       ScanIsDue, AnswersInTime, vars, server, users, network
<1>4. CASE Next
  <2>1. FlagComesFirst'
    <3>1. ASSUME NEW c \in Clients, ClientStep(c) PROVE FlagComesFirst'
      BY <1>1, <1>2, <3>1, ClientKeepsDebts
    <3>2. UNCHANGED users => FlagComesFirst'
      BY <1>2 DEF FlagComesFirst, users
    <3> QED
      BY <1>4, <3>1, <3>2 DEF Next, MainReceives, LosesDatagram, LosesAlive,
         MainDispatches, MainHandlesStop, MainAnnouncesJoin, MainHandlesOther,
         CheckerScans, Tick
  <2>2. ScanIsDue'
    <3>1. UNCHANGED clocks => ScanIsDue'
      BY <1>2 DEF ScanIsDue, clocks
    <3>2. CASE CheckerScans
      BY <1>2, <3>2 DEF CheckerScans, ScanIsDue
    <3>3. CASE Tick
      BY <3>3 DEF Tick, ScanIsDue
    <3>4. ASSUME NEW c \in Clients, ClientStep(c) PROVE UNCHANGED clocks
      BY <3>4 DEF ClientStep, ClientStarts, Types, TypesNothing, EndOfInput,
         CtrlC, GetsAlive, SendsAck, GetsText, ClientEnds, server, clocks
    <3> QED
      BY <1>4, <3>1, <3>2, <3>3, <3>4 DEF Next, MainReceives, LosesDatagram,
         LosesAlive, MainDispatches, MainHandlesStop, MainAnnouncesJoin,
         MainHandlesOther, server, clocks
  <2>3. EntriesAreSigned'
    <3>1. ASSUME \A i \in Slots : clients'[i] = clients[i] \/ ~clients'[i].active
          PROVE  EntriesAreSigned'
      BY <1>2, <3>1 DEF EntriesAreSigned
    <3>2. ASSUME NEW d \in Datagrams, MainReceives(d) PROVE EntriesAreSigned'
      BY <1>1, <1>2, <3>2, ReceivingIsOnTime
    <3>3. CASE MainHandlesStop
      BY <1>1, <3>1, <3>3, VacantIsInactive DEF MainHandlesStop, TypeOK
    <3>4. CASE CheckerScans
      BY <1>1, <3>1, <3>4, VacantIsInactive DEF CheckerScans, Drop, TypeOK
    <3>5. CASE Tick
      BY <1>1, <1>2, <3>5, TickKeepsAddress, TickKeepsEntries DEF EntriesAreSigned
    <3>6. ASSUME NEW c \in Clients, ClientStep(c) PROVE UNCHANGED clients
      BY <3>6 DEF ClientStep, ClientStarts, Types, TypesNothing, EndOfInput,
         CtrlC, GetsAlive, SendsAck, GetsText, ClientEnds, server
    <3> QED
      BY <1>4, <3>1, <3>2, <3>3, <3>4, <3>5, <3>6 DEF Next, LosesDatagram,
         LosesAlive, MainDispatches, MainAnnouncesJoin, MainHandlesOther, server
  <2>4. AnswersInTime'
    BY <1>1, <1>4, NextOnTime DEF AnswersInTime
  <2> QED
    BY <1>1, <2>1, <2>2, <2>3, <2>4 DEF ProbeInv
<1> QED
  BY <1>3, <1>4

THEOREM ProbeInvCorrect == Spec => []ProbeInv
  BY InitProbeInv, NextProbeInv, PTL DEF Spec

(* A running client keeps its slot, if the timeout is at least two of the  *)
(* checker's periods, as 65 s and 30 s are (server.c:14-15): as long as    *)
(* answers come before the next probe and at most one datagram is lost,    *)
(* the checker drops only who has STOPped (server.c:44-73).                *)
THEOREM RunningCorrect ==
  ASSUME CLIENT_TIMEOUT >= 2 * ALIVE_CHECK_INTERVAL
  PROVE  Spec => RunningClientStays
<1> DEFINE Stays ==
      CheckerScans /\ late = 0 /\ lost <= 1 =>
        \A i \in Slots : clients[i].active /\ ~clients'[i].active
                           => stop_flag[clients[i].addr]
<1>1. ProbeInv /\ [Next]_vars => [Stays]_vars
  <2> SUFFICES ASSUME ProbeInv, CheckerScans, late = 0, lost <= 1,
                      NEW i \in Slots, clients[i].active, ~clients'[i].active,
                      ~stop_flag[clients[i].addr]
               PROVE  FALSE
    OBVIOUS
  <2>1. TypeOK /\ OnTime(i)
    BY DEF ProbeInv, TableInv, AnswersInTime
  <2>2. Expired(i)
    BY <2>1 DEF CheckerScans, Drop, TypeOK
  <2>3. clients[i].age \in Nat /\ clients[i].age > CLIENT_TIMEOUT
    BY <2>1, <2>2, ActiveEntry DEF Expired
  <2>4. clients[i].age <= Grace + ALIVE_CHECK_INTERVAL
    BY <2>1, AgeIsBounded
  <2>5. Grace <= ALIVE_CHECK_INTERVAL
    BY <2>1, Numbers DEF Grace
  <2> QED
    BY <2>1, <2>3, <2>4, <2>5, Numbers
<1> QED
  BY <1>1, ProbeInvCorrect, PTL DEF Spec, RunningClientStays

(* The one way to a STOP that nobody sent is a line of spaces, for which    *)
(* sscanf leaves command as it was (server.c:90): without such lines the    *)
(* server removes only clients that sent STOP, as it logs (server.c:184).   *)
CommandIsRead ==
  /\ \A d \in to_server : d.command # "blank"
  /\ main # "receive" /\ command = "STOP" => \A d \in datagram : d.command = "STOP"

THEOREM LoggedStopCorrect ==
  ASSUME "blank" \notin Typed
  PROVE  Spec => []LoggedStopWasSent
<1>1. Init => CommandIsRead
  BY DEF Init, CommandIsRead
<1>2. CommandIsRead /\ [Next]_vars => CommandIsRead'
  <2> SUFFICES ASSUME CommandIsRead, [Next]_vars PROVE CommandIsRead'
    OBVIOUS
  <2>1. ASSUME UNCHANGED <<main, command, datagram>>,
               \A d \in to_server' \ to_server : d.command # "blank"
        PROVE  CommandIsRead'
    BY <2>1 DEF CommandIsRead
  <2>2. ASSUME NEW d \in Datagrams, MainReceives(d) PROVE CommandIsRead'
    <3>1. to_server' \subseteq to_server /\ d \in to_server
      BY <2>2 DEF MainReceives
    <3>2. command' = "STOP" => d.command = "STOP"
      BY <2>2, <3>1, ZenonT(20) DEF MainReceives, ReadCommand, CommandIsRead
    <3>3. main' # "receive" => datagram' = {d}
      BY <2>2 DEF MainReceives
    <3> QED
      BY <3>1, <3>2, <3>3 DEF CommandIsRead
  <2>3. CASE MainDispatches
    BY <2>3 DEF MainDispatches, MainAnnouncesJoin, MainHandlesStop,
       MainHandlesOther, MainReturns, network, CommandIsRead
  <2>4. ASSUME NEW c \in Clients, ClientStep(c) PROVE CommandIsRead'
    <3>1. UNCHANGED <<main, command, datagram>>
      BY <2>4 DEF ClientStep, ClientStarts, Types, TypesNothing, EndOfInput,
         CtrlC, GetsAlive, SendsAck, GetsText, ClientEnds, server
    <3>2. ASSUME NEW cmd, cmd # "blank", Send(c, cmd)
          PROVE  \A d \in to_server' \ to_server : d.command # "blank"
      BY <3>2 DEF Send
    <3>3. \A d \in to_server' \ to_server : d.command # "blank"
      BY <2>4, <3>2 DEF ClientStep, ClientStarts, Types, TypesNothing, EndOfInput,
         CtrlC, GetsAlive, SendsAck, GetsText, ClientEnds, network
    <3> QED
      BY <2>1, <3>1, <3>3
  <2>5. CASE UNCHANGED vars
    BY <2>1, <2>5 DEF vars, server, network
  <2> QED
    BY <2>1, <2>2, <2>3, <2>4, <2>5 DEF Next, LosesDatagram, LosesAlive,
       CheckerScans, Tick, server, network
<1>3. CommandIsRead => LoggedStopWasSent
  BY DEF CommandIsRead, LoggedStopWasSent
<1> QED
  BY <1>1, <1>2, <1>3, PTL DEF Spec
=============================================================================
