------------------------------ MODULE ServerLists ------------------------------
(***************************************************************************)
(* What the D-Bus interface promises a greeter about the list of servers,  *)
(* whatever the list depends on: GetServers answers with the list that is  *)
(* offered, every change of it is broadcast to who subscribed to           *)
(* ServersUpdated, and the bus delivers answers and broadcasts in the      *)
(* order they were sent.  RemoteLogon implements it.                       *)
(*                                                                         *)
(* The service may go away, and with it the calls it has not answered.     *)
(***************************************************************************)
EXTENDS Sequences

CONSTANTS
    Clients,
    Lists     \* what may be offered

VARIABLES
    live,       \* the service tells its clients of changes
    offered,    \* the list GetServers would return
    subscribed, \* the clients that receive ServersUpdated
    asked,      \* the clients that wait for an answer to GetServers
    inbox,      \* what is on the bus for each client
    view        \* the list each client read last

vars == <<live, offered, subscribed, asked, inbox, view>>

Init ==
    /\ live = FALSE
    /\ offered \in Lists
    /\ subscribed = {}
    /\ asked = {}
    /\ inbox = [c \in Clients |-> <<>>]
    /\ view \in [Clients -> Lists]

-----------------------------------------------------------------------------
\* The new list goes to every subscriber: when the service has started, and
\* whenever the list changes.
Publish ==
    /\ live' = TRUE
    /\ offered' \in Lists
    /\ inbox' = [c \in Clients |->
                    IF c \in subscribed THEN Append(inbox[c], offered') ELSE inbox[c]]
    /\ UNCHANGED <<subscribed, asked, view>>

GoAway ==
    /\ live' = FALSE
    /\ offered' \in Lists
    /\ asked' = {}
    /\ UNCHANGED <<subscribed, inbox, view>>

Subscribe(c) ==
    /\ subscribed' = subscribed \cup {c}
    /\ UNCHANGED <<live, offered, asked, inbox, view>>

Ask(c) ==
    /\ asked' = asked \cup {c}
    /\ UNCHANGED <<live, offered, subscribed, inbox, view>>

Answer(c) ==
    /\ c \in asked
    /\ asked' = asked \ {c}
    /\ inbox' = [inbox EXCEPT ![c] = Append(@, offered)]
    /\ UNCHANGED <<live, offered, subscribed, view>>

Read(c) ==
    /\ inbox[c] # <<>>
    /\ view' = [view EXCEPT ![c] = Head(inbox[c])]
    /\ inbox' = [inbox EXCEPT ![c] = Tail(@)]
    /\ UNCHANGED <<live, offered, subscribed, asked>>

Next ==
    \/ Publish
    \/ GoAway
    \/ \E c \in Clients : Subscribe(c) \/ Ask(c) \/ Answer(c) \/ Read(c)

Spec == Init /\ [][Next]_vars
=============================================================================
