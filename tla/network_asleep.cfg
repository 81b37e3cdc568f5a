\* A server that needs no network, and a NetworkManager that goes to sleep.
CONSTANTS
    Servers = {u1}
    Messages = {m1, m2}
    NMStates <- MCNMStates
    Stopped = 0
    Replies = {TRUE, FALSE}
SPECIFICATION Spec
INVARIANTS
    NoNetworkNeeded
