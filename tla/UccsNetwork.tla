----------------------------- MODULE UccsNetwork -----------------------------
(***************************************************************************)
(* Which UCCS servers the service offers: NetworkManager's state, the HEAD *)
(* request that verifies a server, the state derived from both and the     *)
(* ServersUpdated broadcasts (src/src/uccs-server.c, src/src/main.c).      *)
(*                                                                         *)
(* The servers share one NMClient.  A change of its state runs the handler *)
(* of every server in one signal emission, so it is one action here; the   *)
(* broadcasts a handler sends on the way to the last one are not kept.     *)
(*                                                                         *)
(* The service may stop at any time (it crashes, or loses its name) and be *)
(* started again, with another configuration file.  It keeps nothing of    *)
(* this on disk.                                                           *)
(***************************************************************************)
EXTENDS Integers

CONSTANTS
    Servers,   \* the UCCS servers of the configuration file
    Messages,  \* bound: HEAD requests of one server that may be open
    NMStates,  \* the values of NMState that NetworkManager reports
    Stopped,   \* stands for a NetworkManager that is not running
    Replies    \* whether a HEAD may come back with status 200, or another

\* NMState, from libnm.
NM_STATE_ASLEEP == 10
NM_STATE_DISCONNECTED == 20
NM_STATE_CONNECTED_SITE == 60
NM_STATE_CONNECTED_GLOBAL == 70

ASSUME NetworkAssumption ==
    /\ NMStates \subseteq 0 .. 70
    /\ {NM_STATE_DISCONNECTED, NM_STATE_CONNECTED_GLOBAL} \subseteq NMStates
    /\ Stopped \notin NMStates
    /\ Replies \subseteq BOOLEAN

(***************************************************************************)
(* What the configuration and the start of the service fix for a server:   *)
(* NetworkRequired, VerifyServer, whether it has a URI, and whether it got *)
(* hold of an NMClient.                                                    *)
(***************************************************************************)
Configs == [min_network   : {NM_STATE_DISCONNECTED, NM_STATE_CONNECTED_GLOBAL},
            verify_server : BOOLEAN,
            uri           : BOOLEAN,
            nm_client     : BOOLEAN]

VARIABLES
    service,         \* whether it runs, and whether it read a configuration
    config,          \* the fixed part of each server
    nm,              \* the state the NMClient has, or Stopped
    last_network,    \* what each server made of it
    verified_server, \* the last HEAD came back with status 200
    state,           \* SERVER_STATE_ALLGOOD or SERVER_STATE_UNAVAILABLE
    heads,           \* the HEAD requests in each server's soup session
    outdated,        \* history: the requests queued before the last disconnection
    announced        \* the servers in the last ServersUpdated broadcast

vars == <<service, config, nm, last_network, verified_server, state, heads,
          outdated, announced>>

Heads == Servers \X Messages

TypeOK ==
    /\ service \in {"stopped", "unconfigured", "running"}
    /\ config \in [Servers -> Configs]
    /\ nm \in NMStates \cup {Stopped}
    /\ last_network \in [Servers -> NMStates]
    /\ verified_server \in [Servers -> BOOLEAN]
    /\ state \in [Servers -> {"allgood", "unavailable"}]
    /\ heads \in [Heads -> {"none", "queued", "cancelled"}]
    /\ outdated \subseteq Heads
    /\ announced \subseteq Servers

-----------------------------------------------------------------------------
\* Variants named Operator_What are plausible slips of the code, kept to show
\* that the properties below tell them from the code.  No action uses them.
Reported_NotRunning(c, v) ==
    IF c.nm_client THEN v ELSE NM_STATE_DISCONNECTED

\* The first lines of nm_state_changed, for a server with the configuration c.
Reported(c, v) ==
    IF c.nm_client /\ v # Stopped THEN v ELSE NM_STATE_DISCONNECTED

\* uccs_notify_state_change's verdict on a server.
Judged(c, network, verified) ==
    IF \/ network < c.min_network
       \/ /\ c.verify_server
          /\ ~verified
          /\ c.min_network > NM_STATE_DISCONNECTED
    THEN "unavailable" ELSE "allgood"

\* server_list_to_array: the servers that are all good.
Available(states) == {s \in Servers : states[s] = "allgood"}

\* server_status_updated, for any server whose state changed.
Announced_OnlyArrivals(states) ==
    IF Available(states) \subseteq Available(state) THEN announced
                                                    ELSE Available(states)

Announced(states) == IF states = state THEN announced ELSE Available(states)

\* verify_server, called from nm_state_changed.
Verifies_Never(c, v, verified) == FALSE

Verifies(c, v, verified) ==
    /\ Reported(c, v) = NM_STATE_CONNECTED_GLOBAL
    /\ c.verify_server
    /\ ~verified
    /\ c.uri

\* soup_session_abort of a server that is disconnected.
Aborted_Never(c, v) == FALSE

Aborted(c, v) == Reported(c, v) = NM_STATE_DISCONNECTED

\* A service that does not run has no servers and no requests.
Nothing ==
    [last_network    |-> [s \in Servers |-> NM_STATE_DISCONNECTED],
     verified_server |-> [s \in Servers |-> FALSE],
     state           |-> [s \in Servers |-> "unavailable"],
     heads           |-> [h \in Heads |-> "none"]]

Init ==
    /\ service = "stopped"
    /\ config \in [Servers -> Configs]
    /\ nm \in NMStates \cup {Stopped}
    /\ last_network = Nothing.last_network
    /\ verified_server = Nothing.verified_server
    /\ state = Nothing.state
    /\ heads = Nothing.heads
    /\ outdated = {}
    /\ announced = {}

-----------------------------------------------------------------------------
(***************************************************************************)
(* The start of the service, up to its main loop: find_config_file makes   *)
(* the servers, each of which looks at the network and verifies itself,    *)
(* and sends everyone the list.                                            *)
(***************************************************************************)
Announcement_None(states) == announced

Announcement(states) == Available(states)

Start ==
    /\ service = "stopped"
    /\ service' = "running"
    /\ config' \in [Servers -> Configs]
    /\ last_network' = [s \in Servers |-> Reported(config'[s], nm)]
    /\ state' = [s \in Servers |-> Judged(config'[s], last_network'[s], FALSE)]
    /\ \E first \in Messages :
          heads' = [h \in Heads |->
                       IF h[2] = first /\ Verifies(config'[h[1]], nm, FALSE)
                       THEN "queued" ELSE "none"]
    /\ verified_server' = Nothing.verified_server
    /\ outdated' = {}
    /\ announced' = Announcement(state')
    /\ UNCHANGED nm

\* The file cannot be read, or has no main group: no servers, and no broadcast.
StartUnconfigured ==
    /\ service = "stopped"
    /\ service' = "unconfigured"
    /\ UNCHANGED <<config, nm, last_network, verified_server, state, heads,
                   outdated, announced>>

\* The process ends; libsoup drops what it had queued.
Stop ==
    /\ service # "stopped"
    /\ service' = "stopped"
    /\ last_network' = Nothing.last_network
    /\ verified_server' = Nothing.verified_server
    /\ state' = Nothing.state
    /\ heads' = Nothing.heads
    /\ outdated' = {}
    /\ UNCHANGED <<config, nm, announced>>

-----------------------------------------------------------------------------
(***************************************************************************)
(* nm_state_changed, for every server that has a client.  next[s] is the   *)
(* request server s queues if it has to verify itself.                     *)
(***************************************************************************)
HeadsAfter(v, next) ==
    [h \in Heads |->
        IF ~config[h[1]].nm_client THEN heads[h]
        ELSE IF heads[h] = "queued" /\ Aborted(config[h[1]], v) THEN "cancelled"
        ELSE IF /\ Verifies(config[h[1]], v, verified_server[h[1]])
                /\ h[2] = next[h[1]]
             THEN "queued"
        ELSE heads[h]]

VerifiedAfter_Kept(v) == verified_server

\* A disconnection takes the verification back.
VerifiedAfter(v) ==
    [s \in Servers |-> /\ verified_server[s]
                       /\ Reported(config[s], v) # NM_STATE_DISCONNECTED]

NmStateChanged(v, next) ==
    /\ service = "running"
    /\ v # nm
    /\ \A s \in Servers : Verifies(config[s], v, verified_server[s])
                            => heads[<<s, next[s]>>] = "none"
    /\ nm' = v
    /\ last_network' = [s \in Servers |-> Reported(config[s], v)]
    /\ verified_server' = VerifiedAfter(v)
    /\ heads' = HeadsAfter(v, next)
    /\ outdated' =
          {h \in Heads : /\ heads'[h] # "none"
                         /\ \/ h \in outdated
                            \/ Reported(config[h[1]], v) = NM_STATE_DISCONNECTED}
    /\ state' = [s \in Servers |-> Judged(config[s], last_network'[s],
                                          verified_server'[s])]
    /\ announced' = Announced(state')
    /\ UNCHANGED <<service, config>>

\* No server is there to notice.
NmUnnoticed(v) ==
    /\ service # "running"
    /\ v # nm
    /\ nm' = v
    /\ UNCHANGED <<service, config, last_network, verified_server, state, heads,
                   outdated, announced>>

-----------------------------------------------------------------------------
\* The tail of verify_server_cb: the server is judged anew, the others are not.
StateAfter_Unjudged(s, verified) == state

StateAfter(s, verified) ==
    [state EXCEPT ![s] = Judged(config[s], last_network[s], verified)]

VerifyServerCb(s, m, ok) ==
    /\ verified_server' = [verified_server EXCEPT ![s] = ok]
    /\ heads' = [heads EXCEPT ![<<s, m>>] = "none"]
    /\ outdated' = outdated \ {<<s, m>>}
    /\ state' = StateAfter(s, ok)
    /\ announced' = Announced(state')
    /\ UNCHANGED <<service, config, nm, last_network>>

\* A reply.  Open requests are replied to in any order, but the cancellations
\* an abort leaves in the main loop come before any later request's reply.
HeadReplied(s, m, ok) ==
    /\ heads[<<s, m>>] = "queued"
    /\ \A n \in Messages : heads[<<s, n>>] # "cancelled"
    /\ VerifyServerCb(s, m, ok)

\* An aborted request: its callback sees a status that is not 200.
HeadCancelled(s, m) ==
    /\ heads[<<s, m>>] = "cancelled"
    /\ VerifyServerCb(s, m, FALSE)

Next ==
    \/ Start
    \/ StartUnconfigured
    \/ Stop
    \/ \E v \in NMStates \cup {Stopped} : NmUnnoticed(v)
    \/ \E v \in NMStates \cup {Stopped}, next \in [Servers -> Messages] :
          NmStateChanged(v, next)
    \/ \E s \in Servers, m \in Messages :
          \/ HeadCancelled(s, m)
          \/ \E ok \in Replies : HeadReplied(s, m, ok)

Spec == Init /\ [][Next]_vars

(***************************************************************************)
(* libsoup calls back for every request, if only with an error: the main   *)
(* loop serves it, and the request fails by itself when nobody answers.    *)
(***************************************************************************)
FairSpec ==
    /\ Spec
    /\ \A s \in Servers, m \in Messages :
          /\ WF_vars(HeadCancelled(s, m))
          /\ WF_vars(\E ok \in Replies : HeadReplied(s, m, ok))

-----------------------------------------------------------------------------
(***************************************************************************)
(* Properties                                                              *)
(***************************************************************************)

\* The state of every server is what its network and its verification say:
\* no handler changes either of them and leaves the state behind.
StateIsCurrent ==
    service = "running" =>
        \A s \in Servers :
            state[s] = Judged(config[s], last_network[s], verified_server[s])

\* While the service runs with a configuration, the last ServersUpdated
\* broadcast names the servers GetServers would, after a restart too.
AnnouncedIsCurrent == service = "running" => announced = Available(state)

\* A server becomes verified only by the reply to a request it sent since it
\* was last disconnected, however many requests were open at that time.
VerifiedOnThisNetwork ==
    [][\A s \in Servers : ~verified_server[s] /\ verified_server'[s] =>
          \E m \in Messages : /\ heads[<<s, m>>] = "queued"
                              /\ heads'[<<s, m>>] = "none"
                              /\ <<s, m>> \notin outdated]_vars

\* The cancellation of an aborted request never takes a verified server off
\* the list: when it arrives the server is unverified still.
CancellationsAreHarmless ==
    \A s \in Servers, m \in Messages :
        heads[<<s, m>>] = "cancelled" => ~verified_server[s]

\* A server that needs no network is offered whatever NetworkManager says.
NoNetworkNeeded ==
    service = "running" =>
        \A s \in Servers : config[s].min_network = NM_STATE_DISCONNECTED
                              => s \in announced

\* Once the service and the network stay up and the servers answer, every
\* server that has an address is offered for good.
EventuallyOffered ==
    \A s \in Servers :
        <>[](/\ service = "running"
             /\ nm = NM_STATE_CONNECTED_GLOBAL
             /\ config[s].nm_client /\ config[s].uri)
            => <>[](s \in announced)
=============================================================================
