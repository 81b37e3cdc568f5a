------------------------------ MODULE RemoteLogon ------------------------------
(***************************************************************************)
(* The service and its greeters: UccsNetwork, the GetServers method, the   *)
(* ServersUpdated signal and the session bus (src/src/main.c).             *)
(*                                                                         *)
(* A greeter subscribes to ServersUpdated and calls GetServers, in any     *)
(* order and at any time.  The bus delivers what the service sends to one  *)
(* client in the order it was sent; calls wait in the service's main loop, *)
(* where changes of the network and replies to HEAD requests may overtake  *)
(* them.                                                                   *)
(***************************************************************************)
EXTENDS UccsNetwork, Sequences

CONSTANTS
    Clients,     \* greeters, by their bus names
    InboxLength  \* bound: lists on the bus to one client before the network
                 \* may change, the service start or the client call again

ASSUME InboxAssumption == InboxLength \in Nat \ {0}

VARIABLES
    subscribed, \* the clients with a match rule for ServersUpdated
    asked,      \* the clients whose GetServers call is in the main loop
    inbox,      \* the lists on their way to each client, oldest first
    view,       \* the list each client was given last
    informed    \* history: who was sent a list since it subscribed

clientVars == <<subscribed, asked, inbox, view, informed>>
serviceVars == <<vars, clientVars>>

ServiceTypeOK ==
    /\ TypeOK
    /\ subscribed \subseteq Clients
    /\ asked \subseteq Clients
    /\ inbox \in [Clients -> Seq(SUBSET Servers)]
    /\ view \in [Clients -> SUBSET Servers]
    /\ informed \subseteq subscribed

ServiceInit ==
    /\ Init
    /\ subscribed = {}
    /\ asked = {}
    /\ inbox = [c \in Clients |-> <<>>]
    /\ view = [c \in Clients |-> {}]
    /\ informed = {}

-----------------------------------------------------------------------------
(***************************************************************************)
(* The service.  server_status_updated is connected to the state-changed   *)
(* signal of every server, and find_config_file calls it.                  *)
(***************************************************************************)
Room == \A c \in Clients : Len(inbox[c]) < InboxLength

Broadcast ==
    /\ inbox' = [c \in Clients |->
                    IF c \in subscribed THEN Append(inbox[c], announced')
                                        ELSE inbox[c]]
    /\ informed' = informed \cup subscribed

\* Variants named Operator_What are plausible slips of the code, kept to show
\* that the properties below tell them from the code.  No action uses them.
StateChanges_OnlyArrivals == ~(Available(state') \subseteq Available(state))

StateChanges == state' # state

\* A change of the state of some server is told to everyone.
Told ==
    /\ \/ StateChanges /\ Broadcast
       \/ ~StateChanges /\ UNCHANGED <<inbox, informed>>
    /\ UNCHANGED <<subscribed, asked, view>>

ServiceStarts ==
    /\ Room
    /\ Start
    /\ Broadcast
    /\ UNCHANGED <<subscribed, asked, view>>

ServiceStartsUnconfigured == StartUnconfigured /\ UNCHANGED clientVars

\* Calls that are in the main loop die with the process.
ServiceStops ==
    /\ Stop
    /\ asked' = {}
    /\ UNCHANGED <<subscribed, inbox, view, informed>>

NetworkChanges(v) ==
    \/ /\ Room
       /\ \E next \in [Servers -> Messages] : NmStateChanged(v, next)
       /\ Told
    \/ NmUnnoticed(v) /\ UNCHANGED clientVars

HeadEnds(s, m) ==
    /\ HeadCancelled(s, m) \/ \E ok \in Replies : HeadReplied(s, m, ok)
    /\ Told

\* handle_get_servers.
HandleGetServers(c) ==
    /\ service # "stopped"
    /\ c \in asked
    /\ asked' = asked \ {c}
    /\ inbox' = [inbox EXCEPT ![c] = Append(@, Available(state))]
    /\ informed' = informed \cup ({c} \cap subscribed)
    /\ UNCHANGED <<vars, subscribed, view>>

-----------------------------------------------------------------------------
(***************************************************************************)
(* The clients and the bus.                                                *)
(***************************************************************************)
Subscribe(c) ==
    /\ c \notin subscribed
    /\ subscribed' = subscribed \cup {c}
    /\ UNCHANGED <<vars, asked, inbox, view, informed>>

GetServers(c) ==
    /\ service # "stopped"
    /\ c \notin asked
    /\ Len(inbox[c]) < InboxLength
    /\ asked' = asked \cup {c}
    /\ UNCHANGED <<vars, subscribed, inbox, view, informed>>

Receive(c) ==
    /\ inbox[c] # <<>>
    /\ view' = [view EXCEPT ![c] = Head(inbox[c])]
    /\ inbox' = [inbox EXCEPT ![c] = Tail(@)]
    /\ UNCHANGED <<vars, subscribed, asked, informed>>

ServiceNext ==
    \/ ServiceStarts
    \/ ServiceStartsUnconfigured
    \/ ServiceStops
    \/ \E v \in NMStates \cup {Stopped} : NetworkChanges(v)
    \/ \E s \in Servers, m \in Messages : HeadEnds(s, m)
    \/ \E c \in Clients :
          \/ HandleGetServers(c)
          \/ Subscribe(c)
          \/ GetServers(c)
          \/ Receive(c)

ServiceSpec == ServiceInit /\ [][ServiceNext]_serviceVars

(***************************************************************************)
(* The main loop serves every reply and every call, and the bus delivers   *)
(* what it was given.                                                      *)
(***************************************************************************)
FairServiceSpec ==
    /\ ServiceSpec
    /\ \A s \in Servers, m \in Messages : WF_serviceVars(HeadEnds(s, m))
    /\ \A c \in Clients : /\ WF_serviceVars(HandleGetServers(c))
                          /\ WF_serviceVars(Receive(c))

-----------------------------------------------------------------------------
(***************************************************************************)
(* Properties                                                              *)
(***************************************************************************)

\* The newest list a client has, on the bus or in its hands.
Latest(c) == IF inbox[c] = <<>> THEN view[c] ELSE inbox[c][Len(inbox[c])]

\* A client that subscribed, and has been sent anything since, needs not ask
\* again: once it has read what is on the bus, it has the list GetServers
\* would return (find_config_file's "so that we're sure everyone's got them").
\* A call that races a broadcast does not bring it an older list, and a
\* restart of the service reaches it too.
ClientsAreCurrent ==
    service = "running" => \A c \in informed : Latest(c) = Available(state)

\* Such a client is shown, for good, every server that has an address once
\* the service and the network stay up and the servers answer.
EventuallyShown ==
    \A s \in Servers, c \in Clients :
        <>[](/\ service = "running"
             /\ nm = NM_STATE_CONNECTED_GLOBAL
             /\ config[s].nm_client /\ config[s].uri
             /\ c \in informed)
            => <>[](s \in view[c])

\* The clients see the list as ServerLists promises, and nothing of the
\* network behind it.
Promised == INSTANCE ServerLists
            WITH live    <- service = "running",
                 offered <- Available(state),
                 Lists   <- SUBSET Servers

KeepsItsPromise == Promised!Spec
=============================================================================
