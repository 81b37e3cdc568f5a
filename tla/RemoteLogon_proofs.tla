-------------------------- MODULE RemoteLogon_proofs --------------------------
(***************************************************************************)
(* Proofs about RemoteLogon, for any number of servers, requests and       *)
(* greeters and any number of lists on the bus.                            *)
(***************************************************************************)
EXTENDS RemoteLogon, UccsNetwork_proofs, SequenceTheorems

(***************************************************************************)
(* What was proved of UccsNetwork holds with clients around it.            *)
(***************************************************************************)
LEMMA NetworkSteps == [ServiceNext]_serviceVars => [Next]_vars
<1> SUFFICES ASSUME [ServiceNext]_serviceVars PROVE Next \/ UNCHANGED vars
  OBVIOUS
<1>1. CASE ServiceStarts
  BY <1>1 DEF ServiceStarts, Next
<1>2. CASE ServiceStartsUnconfigured
  BY <1>2 DEF ServiceStartsUnconfigured, Next
<1>3. CASE ServiceStops
  BY <1>3 DEF ServiceStops, Next
<1>4. ASSUME NEW v \in NMStates \cup {Stopped}, NetworkChanges(v) PROVE Next
  BY <1>4 DEF NetworkChanges, Next
<1>5. ASSUME NEW s \in Servers, NEW m \in Messages, HeadEnds(s, m) PROVE Next
  BY <1>5 DEF HeadEnds, Next
<1>6. ASSUME NEW c \in Clients,
             HandleGetServers(c) \/ Subscribe(c) \/ GetServers(c) \/ Receive(c)
      PROVE  UNCHANGED vars
  BY <1>6 DEF HandleGetServers, Subscribe, GetServers, Receive
<1>7. CASE UNCHANGED serviceVars
  BY <1>7 DEF serviceVars
<1> QED
  BY <1>1, <1>2, <1>3, <1>4, <1>5, <1>6, <1>7 DEF ServiceNext

THEOREM ServiceIsNetwork == ServiceSpec => Spec
<1>1. ServiceInit => Init
  BY DEF ServiceInit
<1> QED
  BY <1>1, NetworkSteps, PTL DEF ServiceSpec, Spec

-----------------------------------------------------------------------------
(***************************************************************************)
(* Type correctness.                                                       *)
(***************************************************************************)
LEMMA AvailableType == ASSUME NEW states PROVE Available(states) \in SUBSET Servers
BY DEF Available

LEMMA ServiceTypeInitial == ServiceInit => ServiceTypeOK
BY NetworkTypeInitial DEF ServiceInit, ServiceTypeOK

\* What a broadcast does to the clients.
LEMMA BroadcastType ==
    ASSUME ServiceTypeOK, announced' \in SUBSET Servers, Broadcast
    PROVE  /\ inbox' \in [Clients -> Seq(SUBSET Servers)]
           /\ informed' \subseteq subscribed
BY DEF ServiceTypeOK, Broadcast

LEMMA ToldType ==
    ASSUME ServiceTypeOK, announced' \in SUBSET Servers, Told
    PROVE  /\ inbox' \in [Clients -> Seq(SUBSET Servers)]
           /\ informed' \subseteq subscribed'
           /\ UNCHANGED <<subscribed, asked, view>>
<1>1. CASE Broadcast
  BY <1>1, BroadcastType DEF Told
<1>2. CASE UNCHANGED <<inbox, informed>>
  BY <1>2 DEF Told, ServiceTypeOK
<1> QED
  BY <1>1, <1>2 DEF Told

LEMMA ServiceTypeStep ==
    ServiceTypeOK /\ [ServiceNext]_serviceVars => ServiceTypeOK'
<1> SUFFICES ASSUME ServiceTypeOK, [ServiceNext]_serviceVars PROVE ServiceTypeOK'
  OBVIOUS
<1>a. TypeOK'
  BY NetworkTypeStep, NetworkSteps DEF ServiceTypeOK
<1>b. announced' \in SUBSET Servers
  BY <1>a DEF TypeOK
<1>1. CASE ServiceStarts
  BY <1>1, <1>a, <1>b, BroadcastType DEF ServiceStarts, ServiceTypeOK
<1>2. CASE ServiceStartsUnconfigured
  BY <1>2, <1>a DEF ServiceStartsUnconfigured, clientVars, ServiceTypeOK
<1>3. CASE ServiceStops
  BY <1>3, <1>a DEF ServiceStops, ServiceTypeOK
<1>4. ASSUME NEW v \in NMStates \cup {Stopped}, NetworkChanges(v)
      PROVE  ServiceTypeOK'
  <2>1. CASE Told
    BY <2>1, <1>a, <1>b, ToldType DEF ServiceTypeOK
  <2>2. CASE UNCHANGED clientVars
    BY <2>2, <1>a DEF clientVars, ServiceTypeOK
  <2> QED
    BY <1>4, <2>1, <2>2 DEF NetworkChanges
<1>5. ASSUME NEW s \in Servers, NEW m \in Messages, HeadEnds(s, m)
      PROVE  ServiceTypeOK'
  BY <1>5, <1>a, <1>b, ToldType DEF HeadEnds, ServiceTypeOK
<1>6. ASSUME NEW c \in Clients, HandleGetServers(c) PROVE ServiceTypeOK'
  BY <1>6, <1>a, AvailableType DEF HandleGetServers, ServiceTypeOK
<1>7. ASSUME NEW c \in Clients, Subscribe(c) PROVE ServiceTypeOK'
  BY <1>7, <1>a DEF Subscribe, ServiceTypeOK
<1>8. ASSUME NEW c \in Clients, GetServers(c) PROVE ServiceTypeOK'
  BY <1>8, <1>a DEF GetServers, ServiceTypeOK
<1>9. ASSUME NEW c \in Clients, Receive(c) PROVE ServiceTypeOK'
  <2>1. /\ Head(inbox[c]) \in SUBSET Servers
        /\ Tail(inbox[c]) \in Seq(SUBSET Servers)
    BY <1>9 DEF Receive, ServiceTypeOK
  <2> QED
    BY <1>9, <1>a, <2>1 DEF Receive, ServiceTypeOK
<1>10. CASE UNCHANGED serviceVars
  BY <1>10, <1>a DEF serviceVars, clientVars, ServiceTypeOK
<1> QED
  BY <1>1, <1>2, <1>3, <1>4, <1>5, <1>6, <1>7, <1>8, <1>9, <1>10 DEF ServiceNext

\* The service and its clients keep their types.
THEOREM ServiceTypeCorrect == ServiceSpec => []ServiceTypeOK
BY ServiceTypeInitial, ServiceTypeStep, PTL DEF ServiceSpec

-----------------------------------------------------------------------------
(***************************************************************************)
(* The newest list of a client that is listening is the list that is       *)
(* offered.  The inductive invariant needs of the network only that the    *)
(* last broadcast is current (AnnouncedIsCurrent).                         *)
(***************************************************************************)
Newest(q, v) == IF q = <<>> THEN v ELSE q[Len(q)]

LEMMA NewestAppended ==
    ASSUME NEW S, NEW q \in Seq(S), NEW x \in S, NEW v
    PROVE  Newest(Append(q, x), v) = x
BY DEF Newest

LEMMA OneLess ==
    ASSUME NEW n \in Nat \ {0}, n # 1
    PROVE  n - 1 \in 1 .. n - 1 /\ n - 1 + 1 = n /\ n - 1 # 0
OBVIOUS

LEMMA NewestRead ==
    ASSUME NEW S, NEW q \in Seq(S), NEW v, q # <<>>
    PROVE  Newest(Tail(q), Head(q)) = Newest(q, v)
<1>1. Len(q) \in Nat \ {0} /\ Head(q) = q[1]
  BY EmptySeq
<1>2. /\ Tail(q) \in Seq(S)
      /\ Len(Tail(q)) = Len(q) - 1
      /\ \A i \in 1 .. Len(Tail(q)) : Tail(q)[i] = q[i + 1]
  BY HeadTailProperties
<1>3. Tail(q) = <<>> <=> Len(Tail(q)) = 0
  BY <1>2, EmptySeq
<1>4. CASE Len(q) = 1
  BY <1>1, <1>2, <1>3, <1>4 DEF Newest
<1>5. CASE Len(q) # 1
  <2> DEFINE n == Len(q) - 1
  <2>1. n \in 1 .. n /\ n + 1 = Len(q) /\ n # 0
    BY <1>1, <1>5, OneLess
  <2>2. Len(Tail(q)) = n /\ n # 0 /\ Tail(q) # <<>>
    BY <1>2, <1>3, <2>1
  <2> HIDE DEF n
  <2>3. Tail(q)[n] = q[n + 1]
    BY <1>2, <2>1, <2>2
  <2> QED
    BY <2>1, <2>2, <2>3 DEF Newest
<1> QED
  BY <1>4, <1>5

ClientsInv == ServiceTypeOK /\ AnnouncedIsCurrent /\ ClientsAreCurrent

\* A broadcast gives every client that is informed then the list it carries.
LEMMA BroadcastInforms ==
    ASSUME ServiceTypeOK, announced' \in SUBSET Servers, Broadcast, view' = view
    PROVE  \A c \in informed' : Latest(c)' = announced'
<1> SUFFICES ASSUME NEW c \in informed' PROVE Latest(c)' = announced'
  OBVIOUS
<1>1. c \in subscribed /\ c \in Clients
  BY DEF Broadcast, ServiceTypeOK
<1>2. inbox'[c] = Append(inbox[c], announced')
  BY <1>1 DEF Broadcast
<1>3. Newest(Append(inbox[c], announced'), view[c]) = announced'
  BY <1>1, NewestAppended DEF ServiceTypeOK
<1> QED
  BY <1>2, <1>3 DEF Latest, Newest

LEMMA ToldInforms ==
    ASSUME ClientsInv, AnnouncedIsCurrent', announced' \in SUBSET Servers, Told,
           service' = service
    PROVE  ClientsAreCurrent'
<1> SUFFICES ASSUME service = "running", NEW c \in informed'
             PROVE  Latest(c)' = Available(state')
  BY DEF ClientsAreCurrent, Available
<1>1. CASE Broadcast
  BY <1>1, BroadcastInforms DEF Told, ClientsInv, AnnouncedIsCurrent, Available
<1>2. CASE ~StateChanges /\ UNCHANGED <<inbox, informed>>
  BY <1>2 DEF Told, StateChanges, Latest, ClientsInv, ClientsAreCurrent
<1> QED
  BY <1>1, <1>2 DEF Told

LEMMA ClientsStep ==
    NetworkInv' /\ ClientsInv /\ [ServiceNext]_serviceVars => ClientsInv'
<1> SUFFICES ASSUME NetworkInv', ClientsInv, [ServiceNext]_serviceVars
             PROVE  ClientsAreCurrent'
  BY ServiceTypeStep DEF ClientsInv, NetworkInv
<1>a. /\ ServiceTypeOK /\ ClientsAreCurrent
      /\ ServiceTypeOK' /\ AnnouncedIsCurrent'
      /\ announced' \in SUBSET Servers
  BY ServiceTypeStep DEF ClientsInv, NetworkInv, TypeOK
<1>1. CASE ServiceStarts
  BY <1>1, <1>a, BroadcastInforms
  DEF ServiceStarts, Start, ClientsAreCurrent, AnnouncedIsCurrent, Available
<1>2. CASE ServiceStartsUnconfigured
  BY <1>2 DEF ServiceStartsUnconfigured, StartUnconfigured, ClientsAreCurrent
<1>3. CASE ServiceStops
  BY <1>3 DEF ServiceStops, Stop, ClientsAreCurrent
<1>4. ASSUME NEW v \in NMStates \cup {Stopped}, NetworkChanges(v)
      PROVE  ClientsAreCurrent'
  <2>1. CASE Told /\ \E next \in [Servers -> Messages] : NmStateChanged(v, next)
    BY <2>1, <1>a, ToldInforms DEF NmStateChanged
  <2>2. CASE NmUnnoticed(v)
    BY <2>2 DEF NmUnnoticed, ClientsAreCurrent
  <2> QED
    BY <1>4, <2>1, <2>2 DEF NetworkChanges
<1>5. ASSUME NEW s \in Servers, NEW m \in Messages, HeadEnds(s, m)
      PROVE  ClientsAreCurrent'
  BY <1>5, <1>a, ToldInforms DEF HeadEnds, HeadCancelled, HeadReplied, VerifyServerCb
<1>6. ASSUME NEW c \in Clients, HandleGetServers(c) PROVE ClientsAreCurrent'
  <2> SUFFICES ASSUME service = "running", NEW d \in informed'
               PROVE  Latest(d)' = Available(state)
    BY <1>6 DEF HandleGetServers, vars, ClientsAreCurrent, Available
  <2>1. d \in Clients
    BY <1>a DEF ServiceTypeOK
  <2>2. CASE d = c
    <3>1. inbox'[c] = Append(inbox[c], Available(state)) /\ view' = view
      BY <1>6, <1>a DEF HandleGetServers, ServiceTypeOK
    <3>2. Newest(Append(inbox[c], Available(state)), view[c]) = Available(state)
      <4>1. inbox[c] \in Seq(SUBSET Servers) /\ Available(state) \in SUBSET Servers
        BY <1>a, AvailableType DEF ServiceTypeOK
      <4> QED
        BY <4>1, NewestAppended
    <3> QED
      BY <2>2, <3>1, <3>2 DEF Latest, Newest
  <2>3. CASE d # c
    BY <1>6, <1>a, <2>1, <2>3
    DEF HandleGetServers, Latest, ClientsAreCurrent, ServiceTypeOK
  <2> QED
    BY <2>2, <2>3
<1>7. ASSUME NEW c \in Clients, Subscribe(c) \/ GetServers(c) PROVE ClientsAreCurrent'
  BY <1>7, <1>a
  DEF Subscribe, GetServers, vars, ClientsAreCurrent, Latest, Available
<1>8. ASSUME NEW c \in Clients, Receive(c) PROVE ClientsAreCurrent'
  <2> SUFFICES ASSUME service = "running", NEW d \in informed
               PROVE  Latest(d)' = Latest(d)
    BY <1>8, <1>a DEF Receive, vars, ClientsAreCurrent, Available
  <2>1. d \in Clients
    BY <1>a DEF ServiceTypeOK
  <2>2. CASE d = c
    <3>1. inbox'[c] = Tail(inbox[c]) /\ view'[c] = Head(inbox[c]) /\ inbox[c] # <<>>
      BY <1>8, <1>a DEF Receive, ServiceTypeOK
    <3>2. Newest(Tail(inbox[c]), Head(inbox[c])) = Newest(inbox[c], view[c])
      BY <1>a, <3>1, NewestRead DEF ServiceTypeOK
    <3> QED
      BY <2>2, <3>1, <3>2 DEF Latest, Newest
  <2>3. CASE d # c
    BY <1>8, <1>a, <2>1, <2>3 DEF Receive, Latest, ServiceTypeOK
  <2> QED
    BY <2>2, <2>3
<1>9. CASE UNCHANGED serviceVars
  BY <1>9, <1>a
  DEF serviceVars, vars, clientVars, ClientsAreCurrent, Latest, Available
<1> QED
  BY <1>1, <1>2, <1>3, <1>4, <1>5, <1>6, <1>7, <1>8, <1>9 DEF ServiceNext

\* A greeter that listens, and was sent anything since, has or is about to
\* read the list GetServers would return (server_status_updated).
THEOREM ClientsCurrent == ServiceSpec => []ClientsAreCurrent
<1>1. ServiceInit => ClientsInv
  BY ServiceTypeInitial
  DEF ServiceInit, Init, ClientsInv, AnnouncedIsCurrent, ClientsAreCurrent
<1>2. ClientsInv => ClientsAreCurrent
  BY DEF ClientsInv
<1>3. Spec => []NetworkInv
  BY NetworkInvariant
<1> QED
  BY <1>1, <1>2, <1>3, ClientsStep, ServiceIsNetwork, PTL DEF ServiceSpec

-----------------------------------------------------------------------------
(***************************************************************************)
(* RemoteLogon implements ServerLists.  A change of a server's state is a  *)
(* Publish, and so is the start; that only a running service has requests  *)
(* under way makes the reply to one a Publish too.                         *)
(***************************************************************************)
OnlyRunningAsks ==
    service # "running" => \A h \in Heads : heads[h] = "none"

LEMMA OnlyRunningAsksStep ==
    TypeOK /\ OnlyRunningAsks /\ [Next]_vars => OnlyRunningAsks'
<1> SUFFICES ASSUME TypeOK, OnlyRunningAsks, [Next]_vars PROVE OnlyRunningAsks'
  OBVIOUS
<1>1. ASSUME NEW s \in Servers, NEW m \in Messages, NEW ok, VerifyServerCb(s, m, ok)
      PROVE  OnlyRunningAsks'
  BY <1>1 DEF VerifyServerCb, OnlyRunningAsks, TypeOK
<1>2. ASSUME NEW v, NEW next, NmStateChanged(v, next) PROVE OnlyRunningAsks'
  BY <1>2 DEF NmStateChanged, OnlyRunningAsks
<1>3. CASE Start \/ StartUnconfigured \/ Stop
  BY <1>3 DEF Start, StartUnconfigured, Stop, Nothing, OnlyRunningAsks
<1>4. ASSUME NEW v, NmUnnoticed(v) PROVE OnlyRunningAsks'
  BY <1>4 DEF NmUnnoticed, OnlyRunningAsks
<1>5. CASE UNCHANGED vars
  BY <1>5 DEF vars, OnlyRunningAsks
<1> QED
  BY <1>1, <1>2, <1>3, <1>4, <1>5 DEF Next, HeadCancelled, HeadReplied

\* Whoever sends a broadcast of a new list publishes it.
LEMMA ToldPublishes ==
    ASSUME Told, service = "running", service' = service, announced' = Announced(state')
    PROVE  Promised!Publish \/ UNCHANGED Promised!vars
<1>1. CASE StateChanges /\ Broadcast
  <2>1. announced' = Available(state') /\ Available(state') \in SUBSET Servers
    BY <1>1, AvailableType DEF StateChanges, Announced
  <2> QED
    BY <1>1, <2>1 DEF Told, Broadcast, Promised!Publish, Available
<1>2. CASE ~StateChanges /\ UNCHANGED <<inbox, informed>>
  BY <1>2 DEF Told, StateChanges, Promised!vars, Available
<1> QED
  BY <1>1, <1>2 DEF Told

LEMMA PromisedStep ==
    OnlyRunningAsks /\ [ServiceNext]_serviceVars => [Promised!Next]_(Promised!vars)
<1> SUFFICES ASSUME OnlyRunningAsks, [ServiceNext]_serviceVars
             PROVE  Promised!Next \/ UNCHANGED Promised!vars
  OBVIOUS
<1>1. CASE ServiceStarts
  BY <1>1, AvailableType
  DEF ServiceStarts, Start, Announcement, Broadcast, Promised!Next, Promised!Publish,
      Available
<1>2. CASE ServiceStartsUnconfigured
  BY <1>2
  DEF ServiceStartsUnconfigured, StartUnconfigured, clientVars, Promised!vars, Available
<1>3. CASE ServiceStops
  BY <1>3, AvailableType
  DEF ServiceStops, Stop, Promised!Next, Promised!GoAway, Available
<1>4. ASSUME NEW v \in NMStates \cup {Stopped}, NetworkChanges(v)
      PROVE  Promised!Next \/ UNCHANGED Promised!vars
  <2>1. CASE Told /\ \E next \in [Servers -> Messages] : NmStateChanged(v, next)
    BY <2>1, ToldPublishes DEF NmStateChanged, Promised!Next
  <2>2. CASE NmUnnoticed(v) /\ UNCHANGED clientVars
    BY <2>2 DEF NmUnnoticed, clientVars, Promised!vars, Available
  <2> QED
    BY <1>4, <2>1, <2>2 DEF NetworkChanges
<1>5. ASSUME NEW s \in Servers, NEW m \in Messages, HeadEnds(s, m)
      PROVE  Promised!Next \/ UNCHANGED Promised!vars
  <2>1. service = "running"
    <3>1. <<s, m>> \in Heads
      BY DEF Heads
    <3>2. heads[<<s, m>>] # "none"
      BY <1>5 DEF HeadEnds, HeadCancelled, HeadReplied
    <3> QED
      BY <3>1, <3>2 DEF OnlyRunningAsks
  <2> QED
    BY <1>5, <2>1, ToldPublishes
    DEF HeadEnds, HeadCancelled, HeadReplied, VerifyServerCb, Promised!Next
<1>6. ASSUME NEW c \in Clients, HandleGetServers(c) PROVE Promised!Answer(c)
  BY <1>6 DEF HandleGetServers, vars, Promised!Answer, Available
<1>7. ASSUME NEW c \in Clients, Subscribe(c) PROVE Promised!Subscribe(c)
  BY <1>7 DEF Subscribe, vars, Promised!Subscribe, Available
<1>8. ASSUME NEW c \in Clients, GetServers(c) PROVE Promised!Ask(c)
  BY <1>8 DEF GetServers, vars, Promised!Ask, Available
<1>9. ASSUME NEW c \in Clients, Receive(c) PROVE Promised!Read(c)
  BY <1>9 DEF Receive, vars, Promised!Read, Available
<1>10. CASE UNCHANGED serviceVars
  BY <1>10 DEF serviceVars, vars, clientVars, Promised!vars, Available
<1> QED
  BY <1>1, <1>2, <1>3, <1>4, <1>5, <1>6, <1>7, <1>8, <1>9, <1>10
  DEF ServiceNext, Promised!Next

\* To its clients the service is a list that is published, asked for and read
\* in order, whatever the network, the servers and restarts do behind it.
THEOREM PromiseKept == ServiceSpec => KeepsItsPromise
<1>1. ServiceInit => Promised!Init
  BY AvailableType DEF ServiceInit, Init, Promised!Init
<1>2. Init => OnlyRunningAsks
  BY DEF Init, Nothing, OnlyRunningAsks
<1>3. Spec => []TypeOK
  BY NetworkTypeCorrect
<1>4. Spec => []OnlyRunningAsks
  BY <1>2, <1>3, OnlyRunningAsksStep, PTL DEF Spec
<1> QED
  BY <1>1, <1>4, PromisedStep, ServiceIsNetwork, PTL
  DEF ServiceSpec, KeepsItsPromise, Promised!Spec
=============================================================================
